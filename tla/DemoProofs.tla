----------------------------- MODULE DemoProofs -----------------------------
(***************************************************************************)
(* The demonstrations and the instruments, for every size.  The trace      *)
(* ring: what a snapshot that races with put may get wrong; the inductive  *)
(* invariant says of each copied field which stores it can have come from, *)
(* the one the record is named after or one at least a lap later.  The     *)
(* SPSC demo: each thread gets the numbers it counts on, and the           *)
(* percentiles its histogram reports are those of the recorded values.     *)
(* The tracing exercise: the journeys put together from the ring are       *)
(* those of the messages, stage by stage.                                  *)
(***************************************************************************)
EXTENDS SpscDemo, TraceRing, TraceDemo, SequenceTheorems, DataLemmas

-----------------------------------------------------------------------------
(* The trace ring. *)

(* Of two numbers in one slot the lesser is at least a lap behind. *)
LEMMA LapApart ==
  ASSUME NEW a \in Int, NEW b \in Int, a % N = b % N, a < b
  PROVE  a + N <= b
<1> DEFINE qa == a \div N
           qb == b \div N
<1>1. /\ qa \in Int /\ qb \in Int /\ a % N \in Int
      /\ a = N * qa + (a % N) /\ b = N * qb + (a % N)
  BY DivMod, RingAssumption
<1> HIDE DEF qa, qb
<1>2. N * (qb - qa) = b - a
  <2>1. N * (qb - qa) = N * qb - N * qa
    BY <1>1, RingAssumption
  <2>2. N * qb \in Int /\ N * qa \in Int
    BY <1>1, RingAssumption
  <2>3. QED
    BY <1>1, <2>1, <2>2
<1>3. qb - qa >= 1
  <2>1. SUFFICES ASSUME qb - qa <= 0 PROVE FALSE
    BY <1>1
  <2>2. N * (qb - qa) <= 0
    BY <1>1, <2>1, RingAssumption
  <2>3. QED
    BY <1>2, <2>2
<1>4. N * (qb - qa) >= N
  BY <1>1, <1>3, RingAssumption
<1>5. QED
  BY <1>2, <1>4, RingAssumption

(* How many records are copied, without counting them. *)
Full(n) == out \in [0 .. n - 1 -> [Fields -> Nat]]

(* Field f of the k-th copied record holds a store already made: its own, or one a lap or *)
(* more later. *)
OwnOrLater(k, f) ==
  LET j == h - take + k
  IN out[k][f] < stored[f] /\ (out[k][f] = j \/ j + N <= out[k][f])

RingInv ==
  /\ head_ \in 0 .. MaxPut /\ seen \in 0 .. head_ /\ h \in 0 .. head_
  /\ stored \in [Fields -> 0 .. MaxPut]
  /\ \A f \in Fields : stored[f] \in {head_, head_ + 1}
  /\ take \in 0 .. Least(h, N) /\ copying \in BOOLEAN
  /\ \E n \in 0 .. take : Full(n) /\ (~copying => n = take)
  /\ \A k \in DOMAIN out, f \in Fields : OwnOrLater(k, f)

LEMMA CopiedIs ==
  ASSUME NEW n \in Nat, Full(n)
  PROVE  Copied = n /\ DOMAIN out = 0 .. n - 1
<1>1. DOMAIN out = 0 .. n - 1
  BY DEF Full
<1>2. Cardinality(0 .. n - 1) = n
  BY FS_Interval
<1>3. QED
  BY <1>1, <1>2 DEF Copied

LEMMA InitRing == RingInit => RingInv
<1> SUFFICES ASSUME RingInit PROVE RingInv
  OBVIOUS
<1>1. DOMAIN out = {} /\ out = [k \in {} |-> 0]
  BY DEF RingInit
<1>2. Full(0)
  <2>1. 0 .. 0 - 1 = {}
    OBVIOUS
  <2>2. out \in [{} -> [Fields -> Nat]]
    BY <1>1
  <2>3. QED
    BY <2>1, <2>2 DEF Full
<1>3. head_ = 0 /\ seen = 0 /\ h = 0 /\ take = 0 /\ copying = FALSE
  BY DEF RingInit
<1>4. Least(0, N) = 0 /\ 0 \in 0 .. MaxPut
  BY RingAssumption DEF Least
<1>5. stored \in [Fields -> 0 .. MaxPut] /\ \A f \in Fields : stored[f] = 0
  BY <1>4 DEF RingInit
<1>6. \E n \in 0 .. take : Full(n) /\ (~copying => n = take)
  BY <1>2, <1>3
<1>7. QED
  BY <1>1, <1>3, <1>4, <1>5, <1>6 DEF RingInv

(* put only moves the stores on. *)
LEMMA PutKeeps ==
  ASSUME RingInv, (\E f \in Fields : StoreField(f)) \/ StoreHead
  PROVE  RingInv'
<1>1. UNCHANGED <<seen, h, take, out, copying>>
  BY DEF StoreField, StoreHead
<1>2. /\ head_' \in 0 .. MaxPut /\ head_ <= head_'
      /\ stored' \in [Fields -> 0 .. MaxPut]
      /\ \A f \in Fields : stored'[f] \in {head_', head_' + 1} /\ stored[f] <= stored'[f]
  <2>1. CASE \E f \in Fields : StoreField(f)
    BY <2>1, RingAssumption DEF RingInv, StoreField
  <2>2. CASE StoreHead
    <3>1. \A f \in Fields : stored[f] = head_ + 1
      BY <2>2 DEF StoreHead
    <3>2. head_ < MaxPut
      <4>1. PICK f \in Fields : TRUE
        BY RingAssumption
      <4>2. stored[f] = head_ + 1 /\ stored[f] \in 0 .. MaxPut /\ head_ \in Int
        BY <3>1 DEF RingInv
      <4>3. QED
        BY <4>2, RingAssumption
    <3>3. QED
      BY <2>2, <3>1, <3>2, RingAssumption DEF RingInv, StoreHead
  <2>3. QED
    BY <2>1, <2>2
<1>3. seen' \in 0 .. head_' /\ h' \in 0 .. head_'
  BY <1>1, <1>2, RingAssumption DEF RingInv
<1>4. take' \in 0 .. Least(h', N) /\ copying' \in BOOLEAN
      /\ \E n \in 0 .. take' : Full(n)' /\ (~copying' => n = take')
  BY <1>1 DEF RingInv, Full
<1>5. ASSUME NEW k \in DOMAIN out, NEW f \in Fields
      PROVE  OwnOrLater(k, f)'
  <2>1. out[k] \in [Fields -> Nat] /\ OwnOrLater(k, f)
    BY DEF RingInv, Full
  <2>2. out[k][f] \in Nat /\ stored[f] \in Nat /\ stored'[f] \in Nat
    BY <1>2, <2>1 DEF RingInv
  <2>3. QED
    BY <1>1, <1>2, <2>1, <2>2 DEF OwnOrLater
<1>6. QED
  BY <1>1, <1>2, <1>3, <1>4, <1>5 DEF RingInv

LEMMA BeginKeeps ==
  ASSUME RingInv, NEW value \in 0 .. MaxPut, NEW cap \in Caps, Begin(value, cap)
  PROVE  RingInv'
<1>1. /\ head_' = head_ /\ stored' = stored /\ seen' = value /\ h' = value
      /\ take' = Least(Least(value, N), cap) /\ copying' = TRUE
      /\ value \in 0 .. head_
  <2>1. h' = value /\ take' = Least(Have(value), cap)
    BY DEF Begin
  <2>2. QED
    BY <2>1, RingAssumption DEF Begin, Have, RingInv
<1>2. DOMAIN out' = {} /\ out' = [k \in {} |-> 0]
  BY DEF Begin
<1>3. take' \in 0 .. Least(h', N)
  BY <1>1, RingAssumption DEF Least, RingInv
<1>4. Full(0)'
  <2>1. 0 .. 0 - 1 = {}
    OBVIOUS
  <2>2. out' \in [{} -> [Fields -> Nat]]
    BY <1>2
  <2>3. QED
    BY <2>1, <2>2 DEF Full
<1>5. 0 \in 0 .. take'
  BY <1>1, <1>3, RingAssumption DEF Least, RingInv
<1>6. QED
  BY <1>1, <1>2, <1>3, <1>4, <1>5 DEF RingInv

LEMMA CopyKeeps ==
  ASSUME RingInv, Copy
  PROVE  RingInv'
<1>1. PICK n \in 0 .. take : Full(n) /\ (~copying => n = take)
  BY DEF RingInv
<1>2. take \in Nat /\ h \in Nat /\ take <= h /\ take <= N
  BY RingAssumption DEF RingInv, Least
<1>3. n \in Nat /\ Copied = n /\ DOMAIN out = 0 .. n - 1
  BY <1>1, <1>2, CopiedIs
<1>4. PICK record \in [Fields -> 0 .. MaxPut] :
        /\ \A f \in Fields : record[f] \in Visible(f, n)
        /\ out' = [k \in 0 .. n |-> IF k = n THEN record ELSE out[k]]
  BY <1>3 DEF Copy
<1>5. copying /\ n < take /\ UNCHANGED <<head_, stored, seen, h, take, copying>>
  BY <1>3 DEF Copy
<1>6. Full(n + 1)'
  <2>1. record \in [Fields -> Nat]
    BY <1>4, RingAssumption
  <2>2. \A k \in 0 .. n - 1 : out[k] \in [Fields -> Nat]
    BY <1>1 DEF Full
  <2>3. out' \in [0 .. n -> [Fields -> Nat]]
    BY <1>3, <1>4, <2>1, <2>2
  <2>4. n + 1 - 1 = n
    BY <1>3
  <2>5. QED
    BY <2>3, <2>4 DEF Full
<1>7. n + 1 \in 0 .. take' /\ copying'
  BY <1>2, <1>3, <1>5
<1>8. ASSUME NEW k \in DOMAIN out', NEW f \in Fields
      PROVE  OwnOrLater(k, f)'
  <2>1. k \in 0 .. n
    BY <1>4
  <2>2. CASE k = n
    <3> DEFINE j == h - take + n
               v == record[f]
    <3>1. v \in 0 .. stored[f] - 1 /\ v >= h - N /\ v % N = j % N
      BY <1>4 DEF Visible, From
    <3>2. stored[f] \in Nat /\ v \in Int /\ j \in Int /\ h - N <= j /\ j < h
      BY <1>2, <1>3, <1>5, <3>1, RingAssumption DEF RingInv
    <3> HIDE DEF j, v
    <3>3. v = j \/ j + N <= v
      <4>1. v < j => v + N <= j
        BY <3>1, <3>2, LapApart
      <4>2. j < v => j + N <= v
        BY <3>1, <3>2, LapApart
      <4>3. ~(v < j)
        BY <1>2, <3>1, <3>2, <4>1, RingAssumption
      <4>4. QED
        BY <3>2, <4>2, <4>3
    <3>4. v < stored[f]
      BY <3>1, <3>2
    <3>5. out'[k][f] = v
      BY <1>4, <2>1, <2>2 DEF v
    <3>6. QED
      BY <1>5, <2>2, <3>3, <3>4, <3>5 DEF OwnOrLater, j
  <2>3. CASE k # n
    <3>1. k \in 0 .. n - 1
      BY <1>3, <2>1, <2>3
    <3>2. OwnOrLater(k, f) /\ out'[k] = out[k]
      BY <1>3, <1>4, <2>1, <2>3, <3>1 DEF RingInv
    <3>3. QED
      BY <1>5, <3>2 DEF OwnOrLater
  <2>4. QED
    BY <2>2, <2>3
<1>9. QED
  BY <1>5, <1>6, <1>7, <1>8 DEF RingInv

LEMMA ReturnKeeps ==
  ASSUME RingInv, Return
  PROVE  RingInv'
<1>1. PICK n \in 0 .. take : Full(n)
  BY DEF RingInv
<1>2. n \in Nat
  BY <1>1, RingAssumption DEF RingInv, Least
<1>3. n = take /\ ~copying' /\ UNCHANGED <<head_, stored, seen, h, take, out>>
  BY <1>1, <1>2, CopiedIs DEF Return
<1>4. \E c \in 0 .. take' : Full(c)' /\ (~copying' => c = take')
  BY <1>1, <1>3 DEF Full
<1>5. QED
  BY <1>3, <1>4 DEF RingInv, Return, OwnOrLater

LEMMA StepRing == RingInv /\ [RingNext]_ring => RingInv'
<1> SUFFICES ASSUME RingInv, [RingNext]_ring PROVE RingInv'
  OBVIOUS
<1>1. CASE (\E f \in Fields : StoreField(f)) \/ StoreHead
  BY <1>1, PutKeeps
<1>2. ASSUME NEW value \in 0 .. MaxPut, NEW cap \in Caps, Begin(value, cap) PROVE RingInv'
  BY <1>2, BeginKeeps
<1>3. CASE Copy
  BY <1>3, CopyKeeps
<1>4. CASE Return
  BY <1>4, ReturnKeeps
<1>5. CASE UNCHANGED ring
  BY <1>5 DEF ring, RingInv, Full, OwnOrLater
<1>6. QED
  BY <1>1, <1>2, <1>3, <1>4, <1>5 DEF RingNext

LEMMA DamageIsAnOverrun ==
  ASSUME RingInv
  PROVE  DamagedOnlyByOverrun
<1> SUFFICES ASSUME NEW k \in DOMAIN out, NEW f \in Fields, out[k][f] # h - take + k
             PROVE  out[k][f] > h - take + k /\ h - take + k + N <= head_
  BY DEF DamagedOnlyByOverrun
<1>1. PICK n \in 0 .. take : Full(n)
  BY DEF RingInv
<1>2. take \in Nat /\ h \in Nat /\ n \in Nat /\ N \in Nat \ {0}
  BY <1>1, RingAssumption DEF RingInv, Least
<1>3. k \in 0 .. n - 1 /\ out[k][f] \in Nat
  BY <1>1, <1>2 DEF Full
<1>4. head_ \in Nat /\ stored[f] \in Nat /\ stored[f] <= head_ + 1
  BY RingAssumption DEF RingInv
<1>5. out[k][f] < stored[f] /\ h - take + k + N <= out[k][f]
  BY DEF RingInv, OwnOrLater
<1>6. QED
  BY <1>2, <1>3, <1>4, <1>5

LEMMA QuietIsExact ==
  ASSUME RingInv
  PROVE  UndisturbedExact
<1> SUFFICES ASSUME ~copying, \A f \in Fields : stored[f] = h
             PROVE  out = [k \in 0 .. take - 1 |-> [f \in Fields |-> h - take + k]]
  BY DEF UndisturbedExact
<1>1. Full(take)
  BY DEF RingInv
<1>2. take \in Nat /\ h \in Nat /\ take <= N /\ N \in Nat \ {0}
  BY RingAssumption DEF RingInv, Least
<1>3. ASSUME NEW k \in 0 .. take - 1, NEW f \in Fields
      PROVE  out[k][f] = h - take + k
  <2>1. out[k][f] \in Nat /\ OwnOrLater(k, f) /\ stored[f] = h
    BY <1>1 DEF Full, RingInv
  <2>2. QED
    BY <1>2, <2>1 DEF OwnOrLater
<1>4. ASSUME NEW k \in 0 .. take - 1
      PROVE  out[k] = [f \in Fields |-> h - take + k]
  <2>1. out[k] \in [Fields -> Nat]
    BY <1>1 DEF Full
  <2>2. QED
    BY <1>3, <2>1
<1>5. QED
  BY <1>1, <1>4 DEF Full

LEMMA TypesOfRing ==
  ASSUME RingInv
  PROVE  RingTypeOK
<1>1. PICK n \in 0 .. take : Full(n)
  BY DEF RingInv
<1>2. n \in Nat /\ take \in Nat /\ n <= take
  BY <1>1, RingAssumption DEF RingInv, Least
<1>3. Copied = n
  BY <1>1, <1>2, CopiedIs
<1>4. QED
  BY <1>1, <1>2, <1>3 DEF RingInv, RingTypeOK, Full

(* The ring's indices and the reader's copy keep their types. *)
THEOREM RingTypeCorrect == RingSpec => []RingTypeOK
  BY InitRing, StepRing, TypesOfRing, PTL DEF RingSpec

(* A field of record j that a snapshot gets wrong is a later lap's, and put has by then come *)
(* round to j + N: nothing else is torn or stale. *)
THEOREM OnlyOverrunDamages == RingSpec => []DamagedOnlyByOverrun
  BY InitRing, StepRing, DamageIsAnOverrun, PTL DEF RingSpec

(* A snapshot no put overlaps is exactly the last records. *)
THEOREM QuietSnapshotExact == RingSpec => []UndisturbedExact
  BY InitRing, StepRing, QuietIsExact, PTL DEF RingSpec

(* What a snapshot promises whether or not puts overlap it, for every size. *)
THEOREM SnapshotsFaithful == RingSpec => []SnapshotFaithful
<1>1. RingInv => SnapshotFaithful
  BY TypesOfRing, DamageIsAnOverrun, QuietIsExact DEF SnapshotFaithful
<1>2. QED
  BY <1>1, InitRing, StepRing, PTL DEF RingSpec

-----------------------------------------------------------------------------
(* The SPSC demo. *)

\* The consecutive numbers from a up to b - 1.
Numbers(s, a, b) ==
  s \in Seq(Nat) /\ Len(s) = b - a /\ \A k \in 1 .. b - a : s[k] = a + k - 1

LEMMA NumbersAppend ==
  ASSUME NEW a \in Nat, NEW b \in Nat, a <= b, NEW s, Numbers(s, a, b)
  PROVE  Numbers(Append(s, b), a, b + 1)
<1>1. s \in Seq(Nat) /\ Len(s) = b - a /\ \A k \in 1 .. b - a : s[k] = a + k - 1  BY DEF Numbers
<1> DEFINE r == Append(s, b)
<1>2. /\ r \in Seq(Nat) /\ Len(r) = b + 1 - a
      /\ \A k \in 1 .. b - a : r[k] = s[k]
      /\ r[b + 1 - a] = b
  BY <1>1
<1> HIDE DEF r
<1>3. \A k \in 1 .. b + 1 - a : r[k] = a + k - 1
  <2> TAKE k \in 1 .. b + 1 - a
  <2>1. CASE k \in 1 .. b - a  BY <1>1, <1>2, <2>1
  <2>2. CASE k = b + 1 - a  BY <1>2, <2>2
  <2> QED  BY <2>1, <2>2
<1>4. Numbers(r, a, b + 1)  BY <1>2, <1>3 DEF Numbers
<1> QED  BY <1>4 DEF r

LEMMA NumbersTail ==
  ASSUME NEW a \in Nat, NEW b \in Nat, a <= b, NEW s, Numbers(s, a, b), s # << >>
  PROVE  a < b /\ Head(s) = a /\ Numbers(Tail(s), a + 1, b)
<1>1. s \in Seq(Nat) /\ Len(s) = b - a /\ \A k \in 1 .. b - a : s[k] = a + k - 1  BY DEF Numbers
<1>2. a < b  BY <1>1
<1> DEFINE r == Tail(s)
<1>3. /\ r \in Seq(Nat) /\ Len(r) = b - (a + 1)
      /\ \A k \in 1 .. b - (a + 1) : r[k] = s[k + 1]
      /\ Head(s) = s[1]
  BY <1>1, <1>2
<1> HIDE DEF r
<1>4. \A k \in 1 .. b - (a + 1) : r[k] = a + 1 + k - 1  BY <1>1, <1>3
<1>5. Head(s) = a  BY <1>1, <1>2, <1>3
<1>6. Numbers(r, a + 1, b)  BY <1>3, <1>4 DEF Numbers
<1> QED  BY <1>2, <1>5, <1>6 DEF r

LEMMA NumbersNone == ASSUME NEW a \in Nat PROVE Numbers(<< >>, a, a)
BY DEF Numbers

Idle == to_consumer = << >> /\ to_producer = << >>

\* Where the message of a round is.
UnderWay ==
  \/ to_consumer = <<i>> /\ to_producer = << >> /\ consumer = "pop" /\ served = i
  \/ Idle /\ consumer = "push" /\ m = i /\ served = i
  \/ /\ to_consumer = << >> /\ to_producer = <<i>> /\ served = i + 1
     /\ consumer = IF i + 1 < Rounds THEN "pop" ELSE "exited"

PingPongData ==
  /\ consumer_ready \in BOOLEAN /\ i \in Nat /\ i <= Rounds
  /\ Numbers(ponged, 0, i) /\ stream = << >> /\ streamed = << >>
  /\ total_ = IF i > Warmup THEN i - Warmup ELSE 0
PingPongAt ==
  \/ /\ main = "await ready" /\ i = 0 /\ served = 0 /\ Idle
     /\ consumer = IF consumer_ready THEN "pop" ELSE "created"
  \/ main = "ping" /\ i < Rounds /\ served = i /\ Idle /\ consumer = "pop"
  \/ main = "pong" /\ i < Rounds /\ UnderWay
  \/ main = "join" /\ i = Rounds /\ Idle /\ consumer = "exited"
InPingPong == PingPongData /\ PingPongAt

StreamData ==
  /\ Idle /\ Numbers(ponged, 0, Rounds) /\ total_ = PingPongs
  /\ i \in Nat /\ i <= Streamed /\ served \in Nat /\ served <= i
  /\ Numbers(streamed, 0, served) /\ Numbers(stream, served, i)
StreamMainAt ==
  \/ main = "await go" /\ i = 0
  \/ main = "stream" /\ i < Streamed
  \/ main = "last join" /\ i = Streamed
  \/ main = "done" /\ i = Streamed /\ consumer = "exited"
StreamConsumerAt ==
  \/ consumer = "streaming created" /\ served = 0
  \/ consumer = "drain" /\ served < Streamed
  \/ consumer = "exited" /\ served = Streamed
InStream == StreamData /\ StreamMainAt /\ StreamConsumerAt

DemoInv == InPingPong \/ InStream

LEMMA InitDemo == DemoInit => DemoInv
<1> SUFFICES ASSUME DemoInit PROVE InPingPong  BY DEF DemoInv
<1>1. /\ to_consumer = << >> /\ to_producer = << >> /\ ponged = << >>
      /\ stream = << >> /\ streamed = << >>
  BY DEF DemoInit, Ping!Init, Pong!Init, Stream!Init
<1>2. /\ i = 0 /\ served = 0 /\ main = "await ready" /\ consumer = "created"
      /\ consumer_ready = FALSE /\ total_ = 0
  BY DEF DemoInit, HistogramInit
<1>3. Rounds \in Nat \ {0} /\ Warmup \in Nat  BY SpscDemoAssumption DEF Rounds
<1>4. Numbers(ponged, 0, 0)  BY <1>1, NumbersNone
<1>5. PingPongData
  <2>1. i = 0 /\ total_ = 0 /\ consumer_ready \in BOOLEAN  BY <1>2
  <2>2. i \in Nat /\ i <= Rounds /\ total_ = IF i > Warmup THEN i - Warmup ELSE 0  BY <1>3, <2>1
  <2> QED  BY <1>1, <1>4, <2>1, <2>2 DEF PingPongData
<1>6. PingPongAt  BY <1>1, <1>2 DEF PingPongAt, Idle
<1> QED  BY <1>5, <1>6 DEF InPingPong

LEMMA Constants ==
  /\ Rounds \in Nat \ {0} /\ Rounds = PingPongs + Warmup
  /\ Warmup \in Nat /\ PingPongs \in Nat \ {0} /\ Streamed \in Nat \ {0}
BY SpscDemoAssumption DEF Rounds

LEMMA MainInPingPong == InPingPong /\ Main => DemoInv'
<1> SUFFICES ASSUME InPingPong, Main PROVE DemoInv'  OBVIOUS
<1> USE Constants
<1>1. CASE SeesReady
  <2>1. main' = "ping" /\ UNCHANGED <<queues, i, histogram, consumers>> /\ main = "await ready" /\ consumer_ready
    BY <1>1 DEF SeesReady
  <2>2. PingPongData'
    BY <1>1, <2>1 DEF SeesReady, InPingPong, PingPongData, queues, histogram
  <2>3. i = 0 /\ served = 0 /\ Idle /\ consumer = "pop"
    BY <2>1 DEF InPingPong, PingPongAt
  <2>4. PingPongAt'
    <3>1. i' = i /\ served' = served /\ Idle' /\ consumer' = "pop" /\ main' = "ping"
      BY <2>1, <2>3 DEF Idle, queues, consumers
    <3>2. i < Rounds  BY <2>3
    <3> QED  BY <2>3, <3>1, <3>2 DEF PingPongAt
  <2> QED  BY <2>2, <2>4 DEF DemoInv, InPingPong
<1>2. CASE SendPing
  <2>1. /\ main = "ping" /\ main' = "pong" /\ to_consumer' = Append(to_consumer, i)
        /\ UNCHANGED <<to_producer, ponged, stream, streamed, i, total_, served, consumer,
                       consumer_ready>>
    BY <1>2 DEF SendPing, Ping!Put, Others, histogram, consumers
  <2>2. i < Rounds /\ served = i /\ Idle /\ consumer = "pop"
    BY <2>1 DEF InPingPong, PingPongAt
  <2>3. to_consumer' = <<i>> /\ to_producer' = << >>  BY <2>1, <2>2 DEF Idle
  <2>4. UnderWay'  BY <2>1, <2>2, <2>3 DEF UnderWay
  <2>5. PingPongAt'  BY <2>1, <2>2, <2>4 DEF PingPongAt
  <2>6. PingPongData'  BY <2>1 DEF InPingPong, PingPongData
  <2> QED  BY <2>5, <2>6 DEF DemoInv, InPingPong
<1>3. CASE TakePong
  <2>1. /\ main = "pong" /\ i' = i + 1 /\ main' = IF i' < PingPongs + Warmup THEN "ping" ELSE "join"
        /\ to_producer # << >> /\ to_producer' = Tail(to_producer)
        /\ ponged' = Append(ponged, Head(to_producer))
        /\ UNCHANGED <<to_consumer, stream, streamed, served, consumer, consumer_ready>>
    BY <1>3 DEF TakePong, Pong!Get, Others, consumers
  <2>2. i \in Nat /\ i < Rounds /\ to_producer = <<i>> /\ to_consumer = << >> /\ served = i + 1
        /\ consumer = IF i + 1 < Rounds THEN "pop" ELSE "exited"
    <3>1. i \in Nat /\ i < Rounds /\ UnderWay  BY <2>1 DEF InPingPong, PingPongAt, PingPongData
    <3> QED  BY <2>1, <3>1 DEF UnderWay, Idle
  <2>3. to_producer' = << >> /\ Head(to_producer) = i  BY <2>1, <2>2
  <2>4. Numbers(ponged', 0, i + 1)
    <3>1. Numbers(ponged, 0, i)  BY DEF InPingPong, PingPongData
    <3> QED  BY <2>1, <2>2, <2>3, <3>1, NumbersAppend
  <2>5. total_' = IF i >= Warmup THEN total_ + 1 ELSE total_
    BY <1>3, <2>2 DEF TakePong, Recorded, Record, histogram
  <2>6. total_' = IF i' > Warmup THEN i' - Warmup ELSE 0
    BY <2>1, <2>2, <2>5 DEF InPingPong, PingPongData
  <2>7. stream' = << >> /\ streamed' = << >> /\ Idle' /\ consumer_ready' \in BOOLEAN
    BY <2>1, <2>2, <2>3 DEF InPingPong, PingPongData, Idle
  <2>8. i' \in Nat /\ i' <= Rounds  BY <2>1, <2>2
  <2>9. PingPongData'  BY <2>1, <2>4, <2>6, <2>7, <2>8 DEF PingPongData
  <2>10. PingPongAt'
    <3>1. CASE i' < Rounds
      <4>1. main' = "ping" /\ consumer' = "pop" /\ served' = i'  BY <2>1, <2>2, <3>1
      <4> QED  BY <2>7, <3>1, <4>1 DEF PingPongAt
    <3>2. CASE ~(i' < Rounds)
      <4>1. main' = "join" /\ consumer' = "exited" /\ i' = Rounds  BY <2>1, <2>2, <2>8, <3>2
      <4> QED  BY <2>7, <4>1 DEF PingPongAt
    <3> QED  BY <3>1, <3>2
  <2> QED  BY <2>9, <2>10 DEF DemoInv, InPingPong
<1>4. CASE NextMeasurement
  <2>1. /\ main = "join" /\ main' = "await go" /\ i' = 0 /\ served' = 0
        /\ consumer' = "streaming created" /\ UNCHANGED <<queues, histogram>>
    BY <1>4 DEF NextMeasurement
  <2>2. Idle /\ i = Rounds /\ stream = << >> /\ streamed = << >> /\ Numbers(ponged, 0, i)
    BY <2>1 DEF InPingPong, PingPongAt, PingPongData
  <2>3. total_ = PingPongs
    <3>1. total_ = IF i > Warmup THEN i - Warmup ELSE 0  BY DEF InPingPong, PingPongData
    <3> QED  BY <2>2, <3>1
  <2>4. /\ Idle' /\ Numbers(ponged', 0, Rounds) /\ total_' = PingPongs
        /\ stream' = << >> /\ streamed' = << >>
    BY <2>1, <2>2, <2>3 DEF Idle, queues, histogram
  <2>5. Numbers(<< >>, 0, 0)  BY NumbersNone
  <2>6. StreamData'
    <3>1. i' \in Nat /\ i' <= Streamed /\ served' \in Nat /\ served' <= i'
      <4>1. i' = 0 /\ served' = 0  BY <2>1
      <4> QED  BY <4>1
    <3> QED  BY <2>1, <2>4, <2>5, <3>1 DEF StreamData
  <2>7. StreamMainAt' /\ StreamConsumerAt'  BY <2>1 DEF StreamMainAt, StreamConsumerAt
  <2> QED  BY <2>6, <2>7 DEF DemoInv, InStream
<1>5. CASE SeesGo \/ Feed \/ LastJoin
  BY <1>5 DEF SeesGo, Feed, LastJoin, InPingPong, PingPongAt
<1> QED  BY <1>1, <1>2, <1>3, <1>4, <1>5 DEF Main

LEMMA ConsumerInPingPong == InPingPong /\ Consumer => DemoInv'
<1> SUFFICES ASSUME InPingPong, Consumer PROVE InPingPong'  BY DEF DemoInv
<1> USE Constants
<1>1. CASE Ready
  <2>1. /\ consumer = "created" /\ consumer' = "pop" /\ consumer_ready' = TRUE
        /\ UNCHANGED <<to_consumer, to_producer, ponged, stream, streamed, main, i, total_, served>>
    BY <1>1 DEF Ready, queues, mains, histogram
  <2>2. main = "await ready" /\ i = 0 /\ served = 0 /\ Idle
    BY <2>1 DEF InPingPong, PingPongAt, UnderWay
  <2>3. PingPongAt'  BY <2>1, <2>2 DEF PingPongAt, Idle
  <2>4. PingPongData'  BY <2>1 DEF InPingPong, PingPongData
  <2> QED  BY <2>3, <2>4 DEF InPingPong
<1>2. CASE TakePing
  <2>1. /\ consumer = "pop" /\ consumer' = "push" /\ m' = Head(to_consumer)
        /\ to_consumer # << >> /\ to_consumer' = Tail(to_consumer)
        /\ UNCHANGED <<to_producer, ponged, stream, streamed, main, i, total_, served, consumer_ready>>
    BY <1>2 DEF TakePing, Taken, Ping!Get, Others, mains, histogram
  <2>2. main = "pong" /\ to_consumer = <<i>> /\ to_producer = << >> /\ served = i
    BY <2>1 DEF InPingPong, PingPongAt, Idle, UnderWay
  <2>3. to_consumer' = << >> /\ m' = i  BY <2>1, <2>2
  <2>4. UnderWay'  BY <2>1, <2>2, <2>3 DEF UnderWay, Idle
  <2>5. PingPongAt'
    <3>1. i < Rounds  BY <2>2 DEF InPingPong, PingPongAt
    <3> QED  BY <2>1, <2>2, <2>4, <3>1 DEF PingPongAt
  <2>6. PingPongData'  BY <2>1 DEF InPingPong, PingPongData
  <2> QED  BY <2>5, <2>6 DEF InPingPong
<1>3. CASE Answer
  <2>1. /\ consumer = "push" /\ served' = served + 1
        /\ consumer' = IF served' < Rounds THEN "pop" ELSE "exited"
        /\ to_producer' = Append(to_producer, m)
        /\ UNCHANGED <<to_consumer, ponged, stream, streamed, main, i, total_, consumer_ready>>
    BY <1>3 DEF Answer, Pong!Put, Others, mains, histogram
  <2>2. main = "pong" /\ Idle /\ m = i /\ served = i
    BY <2>1 DEF InPingPong, PingPongAt, UnderWay
  <2>3. to_producer' = <<i>>  BY <2>1, <2>2 DEF Idle
  <2>4. UnderWay'  BY <2>1, <2>2, <2>3 DEF UnderWay, Idle
  <2>5. PingPongAt'
    <3>1. i < Rounds  BY <2>2 DEF InPingPong, PingPongAt
    <3> QED  BY <2>1, <2>2, <2>4, <3>1 DEF PingPongAt
  <2>6. PingPongData'  BY <2>1 DEF InPingPong, PingPongData
  <2> QED  BY <2>5, <2>6 DEF InPingPong
<1>4. CASE Go \/ Drain
  BY <1>4 DEF Go, Drain, InPingPong, PingPongAt, UnderWay
<1> QED  BY <1>1, <1>2, <1>3, <1>4 DEF Consumer

LEMMA MainInStream == InStream /\ Main => DemoInv'
<1> SUFFICES ASSUME InStream, Main PROVE InStream'  BY DEF DemoInv
<1> USE Constants
<1>1. CASE SeesGo
  <2>1. /\ main = "await go" /\ main' = "stream"
        /\ UNCHANGED <<to_consumer, to_producer, ponged, stream, streamed, i, total_, consumer, served>>
    BY <1>1 DEF SeesGo, queues, histogram, consumers
  <2>2. i = 0  BY <2>1 DEF InStream, StreamMainAt
  <2>3. i' < Streamed
    <3>1. i' = i  BY <2>1
    <3> QED  BY <2>2, <3>1
  <2>4. StreamMainAt'  BY <2>1, <2>3 DEF StreamMainAt
  <2>5. StreamConsumerAt'  BY <2>1 DEF InStream, StreamConsumerAt
  <2>6. StreamData'  BY <2>1 DEF InStream, StreamData, Idle
  <2> QED  BY <2>4, <2>5, <2>6 DEF InStream
<1>2. CASE Feed
  <2>1. /\ main = "stream" /\ i' = i + 1 /\ main' = IF i' < Streamed THEN "stream" ELSE "last join"
        /\ stream' = Append(stream, i)
        /\ UNCHANGED <<to_consumer, to_producer, ponged, streamed, total_, consumer, served>>
    BY <1>2 DEF Feed, Stream!Put, Others, histogram, consumers
  <2>2. i \in Nat /\ served \in Nat /\ served <= i /\ i < Streamed /\ Numbers(stream, served, i)
    BY <2>1 DEF InStream, StreamData, StreamMainAt
  <2>3. Numbers(stream', served, i + 1)  BY <2>1, <2>2, NumbersAppend
  <2>4. Idle' /\ Numbers(ponged', 0, Rounds) /\ total_' = PingPongs /\ Numbers(streamed', 0, served)
    BY <2>1 DEF InStream, StreamData, Idle
  <2>5. i' \in Nat /\ i' <= Streamed /\ served' \in Nat /\ served' <= i'
    <3>1. i' = i + 1 /\ served' = served  BY <2>1
    <3> QED  BY <2>2, <3>1
  <2>6. StreamData'  BY <2>1, <2>3, <2>4, <2>5 DEF StreamData
  <2>7. StreamMainAt'
    <3>1. CASE i' < Streamed  BY <2>1, <3>1 DEF StreamMainAt
    <3>2. CASE ~(i' < Streamed)
      <4>1. main' = "last join"  BY <2>1, <3>2
      <4>2. i' = Streamed  BY <2>5, <3>2
      <4> QED  BY <4>1, <4>2 DEF StreamMainAt
    <3> QED  BY <3>1, <3>2
  <2>8. StreamConsumerAt'  BY <2>1 DEF InStream, StreamConsumerAt
  <2> QED  BY <2>6, <2>7, <2>8 DEF InStream
<1>3. CASE LastJoin
  <2>1. /\ main = "last join" /\ main' = "done" /\ consumer = "exited"
        /\ UNCHANGED <<to_consumer, to_producer, ponged, stream, streamed, i, total_, consumer, served>>
    BY <1>3 DEF LastJoin, queues, histogram, consumers
  <2>2. StreamMainAt'  BY <2>1 DEF InStream, StreamMainAt
  <2>3. StreamConsumerAt'  BY <2>1 DEF InStream, StreamConsumerAt
  <2>4. StreamData'  BY <2>1 DEF InStream, StreamData, Idle
  <2> QED  BY <2>2, <2>3, <2>4 DEF InStream
<1>4. CASE SeesReady \/ SendPing \/ TakePong \/ NextMeasurement
  BY <1>4 DEF SeesReady, SendPing, TakePong, NextMeasurement, InStream, StreamMainAt
<1> QED  BY <1>1, <1>2, <1>3, <1>4 DEF Main

LEMMA ConsumerInStream == InStream /\ Consumer => DemoInv'
<1> SUFFICES ASSUME InStream, Consumer PROVE InStream'  BY DEF DemoInv
<1> USE Constants
<1>1. CASE Go
  <2>1. /\ consumer = "streaming created" /\ consumer' = "drain"
        /\ UNCHANGED <<to_consumer, to_producer, ponged, stream, streamed, main, i, total_, served>>
    BY <1>1 DEF Go, queues, mains, histogram
  <2>2. served = 0  BY <2>1 DEF InStream, StreamConsumerAt
  <2>3. served' < Streamed
    <3>1. served' = served  BY <2>1
    <3> QED  BY <2>2, <3>1
  <2>4. StreamConsumerAt'  BY <2>1, <2>3 DEF StreamConsumerAt
  <2>5. StreamMainAt'  BY <2>1 DEF InStream, StreamMainAt
  <2>6. StreamData'  BY <2>1 DEF InStream, StreamData, Idle
  <2> QED  BY <2>4, <2>5, <2>6 DEF InStream
<1>2. CASE Drain
  <2>1. /\ consumer = "drain" /\ served' = served + 1
        /\ consumer' = IF served' < Streamed THEN "drain" ELSE "exited"
        /\ stream # << >> /\ stream' = Tail(stream) /\ streamed' = Append(streamed, Head(stream))
        /\ UNCHANGED <<to_consumer, to_producer, ponged, main, i, total_>>
    BY <1>2 DEF Drain, Stream!Get, Others, mains, histogram
  <2>2. /\ i \in Nat /\ served \in Nat /\ served <= i /\ served < Streamed /\ i <= Streamed
        /\ Numbers(stream, served, i) /\ Numbers(streamed, 0, served)
    BY <2>1 DEF InStream, StreamData, StreamConsumerAt
  <2>3. served < i /\ Head(stream) = served /\ Numbers(stream', served + 1, i)
    BY <2>1, <2>2, NumbersTail
  <2>4. Numbers(streamed', 0, served + 1)  BY <2>1, <2>2, <2>3, NumbersAppend
  <2>5. Idle' /\ Numbers(ponged', 0, Rounds) /\ total_' = PingPongs
    BY <2>1 DEF InStream, StreamData, Idle
  <2>6. i' \in Nat /\ i' <= Streamed /\ served' \in Nat /\ served' <= i'  BY <2>1, <2>2, <2>3
  <2>7. StreamData'  BY <2>1, <2>3, <2>4, <2>5, <2>6 DEF StreamData
  <2>8. StreamMainAt'  BY <2>1 DEF InStream, StreamMainAt
  <2>9. StreamConsumerAt'
    <3>1. CASE served' < Streamed  BY <2>1, <3>1 DEF StreamConsumerAt
    <3>2. CASE ~(served' < Streamed)
      <4>1. consumer' = "exited" /\ served' = Streamed  BY <2>1, <2>6, <3>2
      <4> QED  BY <4>1 DEF StreamConsumerAt
    <3> QED  BY <3>1, <3>2
  <2> QED  BY <2>7, <2>8, <2>9 DEF InStream
<1>3. CASE Ready \/ TakePing \/ Answer
  BY <1>3 DEF Ready, TakePing, Answer, InStream, StreamConsumerAt
<1> QED  BY <1>1, <1>2, <1>3 DEF Consumer

LEMMA StepDemo == DemoInv /\ [DemoNext]_demo => DemoInv'
<1> SUFFICES ASSUME DemoInv, [DemoNext]_demo PROVE DemoInv'  OBVIOUS
<1>1. CASE UNCHANGED demo
  <2>1. UNCHANGED <<to_consumer, to_producer, ponged, stream, streamed, main, i, total_,
                    consumer, served, m, consumer_ready>>
    BY <1>1 DEF demo, queues, mains, consumers, histogram
  <2>2. InPingPong => InPingPong'  BY <2>1 DEF InPingPong, PingPongData, PingPongAt, Idle, UnderWay
  <2>3. InStream => InStream'
    BY <2>1 DEF InStream, StreamData, StreamMainAt, StreamConsumerAt, Idle
  <2> QED  BY <2>2, <2>3 DEF DemoInv
<1>2. CASE Main  BY <1>2, MainInPingPong, MainInStream DEF DemoInv
<1>3. CASE Consumer  BY <1>3, ConsumerInPingPong, ConsumerInStream DEF DemoInv
<1> QED  BY <1>1, <1>2, <1>3 DEF DemoNext

LEMMA DemoExact == DemoInv => HandoffsExact
<1> SUFFICES ASSUME DemoInv PROVE HandoffsExact  OBVIOUS
<1> USE Constants
<1>1. NeverBackedUp
  <2>1. CASE Idle  BY <2>1 DEF NeverBackedUp, Idle
  <2>2. CASE UnderWay
    <3>1. CASE to_consumer = <<i>> /\ to_producer = << >> /\ consumer = "pop"
      <4>1. Len(to_consumer) = 1 /\ Len(to_producer) = 0  BY <3>1
      <4>2. consumer # "push"  BY <3>1
      <4> QED  BY <4>1, <4>2 DEF NeverBackedUp
    <3>2. CASE Idle /\ consumer = "push"
      <4>1. Len(to_consumer) = 0 /\ Len(to_producer) = 0  BY <3>2 DEF Idle
      <4> QED  BY <3>2, <4>1 DEF NeverBackedUp
    <3>3. CASE to_consumer = << >> /\ to_producer = <<i>> /\ consumer # "push"
      <4>1. Len(to_consumer) = 0 /\ Len(to_producer) = 1  BY <3>3
      <4> QED  BY <3>3, <4>1 DEF NeverBackedUp
    <3> QED  BY <2>2, <3>1, <3>2, <3>3 DEF UnderWay
  <2> QED  BY <2>1, <2>2 DEF DemoInv, InPingPong, PingPongAt, InStream, StreamData
<1>2. PICK n \in Nat : Numbers(ponged, 0, n) /\ (main = "pong" => n = i)
  <2>1. CASE InPingPong  BY <2>1 DEF InPingPong, PingPongData
  <2>2. CASE InStream
    <3>1. main # "pong" /\ Numbers(ponged, 0, Rounds)  BY <2>2 DEF InStream, StreamData, StreamMainAt
    <3> QED  BY <3>1
  <2> QED  BY <2>1, <2>2 DEF DemoInv
<1>3. OwnReply
  <2>1. ponged \in Seq(Nat) /\ Len(ponged) = n /\ \A k \in 1 .. n : ponged[k] = k - 1
    BY <1>2 DEF Numbers
  <2> QED  BY <1>2, <2>1 DEF OwnReply
<1>4. Complete
  <2> SUFFICES ASSUME main = "done"
               PROVE  /\ total_ = PingPongs /\ stream = << >>
                      /\ streamed = [k \in 1 .. Streamed |-> k - 1]
    BY DEF Complete
  <2>1. /\ total_ = PingPongs /\ i = Streamed /\ served = Streamed
        /\ Numbers(streamed, 0, served) /\ Numbers(stream, served, i)
    <3>1. InStream  BY DEF DemoInv, InPingPong, PingPongAt
    <3> QED  BY <3>1 DEF InStream, StreamData, StreamMainAt, StreamConsumerAt
  <2>2. stream \in Seq(Nat) /\ Len(stream) = 0  BY <2>1 DEF Numbers
  <2>3. /\ streamed \in Seq(Nat) /\ Len(streamed) = Streamed
        /\ \A k \in 1 .. Streamed : streamed[k] = k - 1
    BY <2>1 DEF Numbers
  <2> QED  BY <2>1, <2>2, <2>3
<1> QED  BY <1>1, <1>3, <1>4 DEF HandoffsExact

\* The queue's exercise measures what it says, for every number of rounds and messages and
\* every capacity: one message under way, every reply of its own round, every sample taken
\* once, and the stream whole and in order (ping_pong and throughput of spsc_demo.cpp).
THEOREM HandoffsAlwaysExact == DemoSpec => []HandoffsExact
BY InitDemo, StepDemo, DemoExact, PTL DEF DemoSpec

-----------------------------------------------------------------------------
(* The histogram of both demos: every count is a sum of samples. *)

UpToBucket(b) == {ns \in 0 .. MaxNs : Bucket(ns) <= b}
Beyond == {ns \in 0 .. MaxNs : Saturates(ns)}

HistInv ==
  /\ samples \in [0 .. MaxNs -> Nat] /\ counts_ \in [0 .. Buckets - 1 -> Nat]
  /\ total_ = Total(samples, 0 .. MaxNs)
  /\ \A b \in 0 .. Buckets - 1 : Total(counts_, 0 .. b) = Total(samples, UpToBucket(b))
  /\ overflow_ = Total(samples, Beyond)

LEMMA BucketIs ==
  ASSUME NEW ns \in Nat
  PROVE  /\ Bucket(ns) \in 0 .. Buckets - 1
         /\ \A b \in Nat : b < Buckets - 1 =>
              (Bucket(ns) <= b <=> ns < NsPerBucket * (b + 1))
         /\ Bucket(ns) <= Buckets - 1
         /\ Saturates(ns) <=> ns >= Buckets * NsPerBucket
<1> DEFINE r == ns \div NsPerBucket
<1>1. /\ Buckets \in Nat \ {0} /\ NsPerBucket \in Nat \ {0}
  BY HistogramAssumption
<1>2. r \in Nat
  BY <1>1
<1>3. \A c \in Nat : r >= c <=> ns >= NsPerBucket * c
  <2>1. TAKE c \in Nat
  <2>2. NsPerBucket * c <= ns => c <= r
    BY <1>1, QuotientBounds
  <2>3. CASE ns < NsPerBucket * c
    <3>1. c # 0
      BY <1>1, <2>3
    <3>2. NsPerBucket * c = NsPerBucket * (c - 1) + NsPerBucket
      BY <1>1
    <3>3. r <= c - 1
      BY <1>1, <2>3, <3>1, <3>2, QuotientBounds
    <3>4. QED
      BY <1>1, <1>2, <2>3, <3>3
  <2>4. CASE ns >= NsPerBucket * c
    BY <2>2, <2>4
  <2>5. NsPerBucket * c \in Int
    BY <1>1
  <2>6. QED
    BY <2>3, <2>4, <2>5
<1>4. Saturates(ns) <=> ns >= Buckets * NsPerBucket
  <2>1. Buckets * NsPerBucket = NsPerBucket * Buckets
    BY <1>1
  <2>2. QED
    BY <1>1, <1>3, <2>1 DEF Saturates
<1>5. Bucket(ns) = IF r >= Buckets THEN Buckets - 1 ELSE r
  BY DEF Bucket
<1> HIDE DEF r
<1>6. Bucket(ns) \in 0 .. Buckets - 1
  BY <1>1, <1>2, <1>5
<1>7. ASSUME NEW b \in Nat, b < Buckets - 1
      PROVE  Bucket(ns) <= b <=> ns < NsPerBucket * (b + 1)
  <2>1. Bucket(ns) <= b <=> ~(r >= b + 1)
    BY <1>1, <1>2, <1>5, <1>7
  <2>2. r >= b + 1 <=> ns >= NsPerBucket * (b + 1)
    BY <1>3
  <2>3. NsPerBucket * (b + 1) \in Int
    BY <1>1
  <2>4. QED
    BY <2>1, <2>2, <2>3
<1>8. QED
  BY <1>1, <1>4, <1>6, <1>7

LEMMA HistogramRanges ==
  /\ MaxNs \in Nat /\ Buckets \in Nat \ {0} /\ NsPerBucket \in Nat \ {0}
  /\ IsFiniteSet(0 .. MaxNs) /\ IsFiniteSet(Beyond) /\ Beyond \subseteq 0 .. MaxNs
  /\ \A b \in Int : IsFiniteSet(0 .. b)
  /\ \A b : IsFiniteSet(UpToBucket(b)) /\ UpToBucket(b) \subseteq 0 .. MaxNs
  /\ \A ns \in 0 .. MaxNs : ns \in Nat
<1>1. MaxNs \in Nat /\ Buckets \in Nat \ {0} /\ NsPerBucket \in Nat \ {0}
  BY HistogramAssumption
<1>2. \A b \in Int : IsFiniteSet(0 .. b)
  BY FS_Interval
<1>3. IsFiniteSet(0 .. MaxNs)
  BY <1>1, <1>2
<1>4. Beyond \subseteq 0 .. MaxNs /\ \A b : UpToBucket(b) \subseteq 0 .. MaxNs
  BY DEF Beyond, UpToBucket
<1>5. IsFiniteSet(Beyond) /\ \A b : IsFiniteSet(UpToBucket(b))
  BY <1>3, <1>4, FS_Subset
<1>6. QED
  BY <1>1, <1>2, <1>3, <1>4, <1>5

LEMMA ZeroTotal ==
  ASSUME NEW S, IsFiniteSet(S), NEW g, \A x \in S : g[x] = 0
  PROVE  Total(g, S) = 0
<1>1. /\ Total(g, S) \in Nat /\ Total(g, S) <= Cardinality(S) * 0
  <2>1. (\A x \in S : g[x] \in Nat) /\ \A x \in S : g[x] \in 0 .. 0
    OBVIOUS
  <2>2. QED
    BY <2>1, TotalNat, TotalBounded
<1>2. Cardinality(S) * 0 = 0
  BY FS_CardinalityType
<1>3. QED
  BY <1>1, <1>2

LEMMA InitHistogram == HistogramInit => HistInv
<1> SUFFICES ASSUME HistogramInit PROVE HistInv
  OBVIOUS
<1>1. /\ \A x \in 0 .. MaxNs : samples[x] = 0
      /\ \A b \in 0 .. Buckets - 1 : counts_[b] = 0
  BY DEF HistogramInit
<1>2. /\ samples \in [0 .. MaxNs -> Nat] /\ counts_ \in [0 .. Buckets - 1 -> Nat]
  BY DEF HistogramInit
<1>3. Total(samples, 0 .. MaxNs) = 0
  BY <1>1, ZeroTotal, HistogramRanges
<1>4. Total(samples, Beyond) = 0
  <2>1. \A x \in Beyond : samples[x] = 0
    BY <1>1, HistogramRanges
  <2>2. QED
    BY <2>1, ZeroTotal, HistogramRanges
<1>5. ASSUME NEW b \in 0 .. Buckets - 1
      PROVE  Total(counts_, 0 .. b) = Total(samples, UpToBucket(b))
  <2>1. \A x \in UpToBucket(b) : samples[x] = 0
    BY <1>1, HistogramRanges
  <2>2. Total(samples, UpToBucket(b)) = 0
    BY <2>1, ZeroTotal, HistogramRanges
  <2>3. \A x \in 0 .. b : counts_[x] = 0
    BY <1>1, HistogramRanges
  <2>4. b \in Int
    BY HistogramRanges
  <2>5. Total(counts_, 0 .. b) = 0
    BY <2>3, <2>4, ZeroTotal, HistogramRanges
  <2>6. QED
    BY <2>2, <2>5
<1>6. total_ = 0 /\ overflow_ = 0
  BY DEF HistogramInit
<1>7. QED
  BY <1>2, <1>3, <1>4, <1>5, <1>6 DEF HistInv

LEMMA RecordKeeps ==
  ASSUME HistInv, NEW ns \in 0 .. MaxNs, Record(ns)
  PROVE  HistInv'
<1>1. /\ samples \in [0 .. MaxNs -> Nat] /\ counts_ \in [0 .. Buckets - 1 -> Nat]
      /\ total_ = Total(samples, 0 .. MaxNs)
      /\ overflow_ = Total(samples, Beyond)
      /\ \A b \in 0 .. Buckets - 1 : Total(counts_, 0 .. b) = Total(samples, UpToBucket(b))
  BY DEF HistInv
<1>2. ns \in Nat /\ Bucket(ns) \in 0 .. Buckets - 1
  BY HistogramRanges, BucketIs
<1>3. OneMore(samples, samples', ns) /\ OneMore(counts_, counts_', Bucket(ns))
  BY DEF Record, OneMore
<1>4. /\ samples' \in [0 .. MaxNs -> Nat] /\ counts_' \in [0 .. Buckets - 1 -> Nat]
  BY <1>1, <1>2 DEF Record
<1>a. \A S \in SUBSET (0 .. MaxNs) : IsFiniteSet(S) =>
        Total(samples', S) = Total(samples, S) + (IF ns \in S THEN 1 ELSE 0)
  <2> DEFINE D == 0 .. MaxNs
  <2>1. Counter(samples, D) /\ ns \in D
    BY <1>1 DEF Counter
  <2> HIDE DEF D
  <2>4. PICK v : v = ns
    OBVIOUS
  <2>5. Counter(samples, D) /\ v \in D /\ OneMore(samples, samples', v)
    BY <1>3, <2>1, <2>4
  <2>6. \A S \in SUBSET D : IsFiniteSet(S) =>
          Total(samples', S) = Total(samples, S) + (IF v \in S THEN 1 ELSE 0)
    BY ONLY <2>5, TotalOneMore
  <2>2. \A S \in SUBSET D : IsFiniteSet(S) =>
          Total(samples', S) = Total(samples, S) + (IF ns \in S THEN 1 ELSE 0)
    BY <2>4, <2>6
  <2>3. QED
    BY <2>2 DEF D
<1>b. \A S \in SUBSET (0 .. Buckets - 1) : IsFiniteSet(S) =>
        Total(counts_', S) = Total(counts_, S) + (IF Bucket(ns) \in S THEN 1 ELSE 0)
  <2> DEFINE D == 0 .. Buckets - 1
  <2>1. Counter(counts_, D) /\ Bucket(ns) \in D
    BY <1>1, <1>2 DEF Counter
  <2> HIDE DEF D
  <2>2. \A S \in SUBSET D : IsFiniteSet(S) =>
          Total(counts_', S) = Total(counts_, S) + (IF Bucket(ns) \in S THEN 1 ELSE 0)
    BY <1>3, <2>1, TotalOneMore
  <2>3. QED
    BY <2>2 DEF D
<1>5. total_' = Total(samples', 0 .. MaxNs)
  <2>1. Total(samples', 0 .. MaxNs) = Total(samples, 0 .. MaxNs) + (IF ns \in 0 .. MaxNs THEN 1 ELSE 0)
    BY <1>a, HistogramRanges
  <2>2. total_' = total_ + 1
    BY DEF Record
  <2>3. QED
    BY <1>1, <2>1, <2>2
<1>6. overflow_' = Total(samples', Beyond)
  <2>1. Total(samples', Beyond) = Total(samples, Beyond) + (IF ns \in Beyond THEN 1 ELSE 0)
    BY <1>a, HistogramRanges
  <2>2. overflow_' = IF Saturates(ns) THEN overflow_ + 1 ELSE overflow_
    BY DEF Record
  <2>3. ns \in Beyond <=> Saturates(ns)
    BY DEF Beyond
  <2>4. Total(samples, Beyond) \in Int
    <3>1. \A x \in Beyond : samples[x] \in Int
      BY <1>1, HistogramRanges
    <3>2. QED
      BY <3>1, TotalInt, HistogramRanges
  <2>5. QED
    BY <1>1, <2>1, <2>2, <2>3, <2>4
<1>7. ASSUME NEW b \in 0 .. Buckets - 1
      PROVE  Total(counts_', 0 .. b) = Total(samples', UpToBucket(b))
  <2>1. b \in Int /\ 0 .. b \in SUBSET (0 .. Buckets - 1)
    BY HistogramRanges
  <2>2. Total(counts_', 0 .. b) = Total(counts_, 0 .. b) + (IF Bucket(ns) \in 0 .. b THEN 1 ELSE 0)
    BY <1>b, <2>1, HistogramRanges
  <2>3. Total(samples', UpToBucket(b)) = Total(samples, UpToBucket(b)) + (IF ns \in UpToBucket(b) THEN 1 ELSE 0)
    BY <1>a, HistogramRanges
  <2>4. ns \in UpToBucket(b) <=> Bucket(ns) \in 0 .. b
    BY <1>2, HistogramRanges DEF UpToBucket
  <2>5. QED
    BY <1>1, <2>2, <2>3, <2>4
<1>8. QED
  BY <1>4, <1>5, <1>6, <1>7 DEF HistInv

LEMMA HistogramSteps == HistInv /\ [DemoNext]_demo => HistInv'
<1> SUFFICES ASSUME HistInv, [DemoNext]_demo PROVE HistInv'
  OBVIOUS
<1>1. ASSUME NEW elapsed \in 0 .. 2 * MaxNs, Record(elapsed \div 2)
      PROVE  HistInv'
  <2>1. elapsed \div 2 \in 0 .. MaxNs
    BY HistogramRanges
  <2>2. QED
    BY <1>1, <2>1, RecordKeeps
<1>2. UNCHANGED histogram \/ \E elapsed \in 0 .. 2 * MaxNs : Record(elapsed \div 2)
  BY DEF DemoNext, Main, Consumer, SeesReady, SendPing, TakePong, NextMeasurement, SeesGo,
         Feed, LastJoin, Ready, TakePing, Answer, Go, Drain, demo, mains
<1>3. ASSUME UNCHANGED histogram PROVE HistInv'
  BY <1>3 DEF histogram, HistInv
<1>4. QED
  BY <1>1, <1>2, <1>3

(* The percentiles, from the sums alone. *)
LEMMA TotalsOrdered ==
  ASSUME HistInv, NEW S \in SUBSET (0 .. MaxNs), NEW R \in SUBSET S
  PROVE  Total(samples, R) <= Total(samples, S) /\ Total(samples, S) \in Nat
         /\ Total(samples, R) \in Nat
<1>1. IsFiniteSet(S) /\ IsFiniteSet(R)
  BY HistogramRanges, FS_Subset
<1>2. (\A x \in S : samples[x] \in Nat) /\ \A x \in R : samples[x] \in Nat
  BY DEF HistInv
<1>3. QED
  BY <1>1, <1>2, TotalMonotone, TotalNat

LEMMA SeenIs ==
  ASSUME HistInv
  PROVE  /\ \A b \in 0 .. Buckets - 1 : Seen(b) = Total(samples, UpToBucket(b))
         /\ \A ns : AtMost(ns) = Total(samples, 0 .. ns)
         /\ Seen(Buckets - 1) = total_ /\ AtMost(MaxNs) = total_
         /\ total_ \in Nat
<1>1. \A b : Seen(b) = Total(counts_, 0 .. b)
  BY DEF Seen, Total
<1>2. \A ns : AtMost(ns) = Total(samples, 0 .. ns)
  BY DEF AtMost, Total
<1>3. UpToBucket(Buckets - 1) = 0 .. MaxNs
  BY HistogramRanges, BucketIs DEF UpToBucket
<1>4. Buckets - 1 \in 0 .. Buckets - 1
  BY HistogramRanges
<1>5. Total(samples, 0 .. MaxNs) \in Nat
  BY TotalsOrdered
<1>6. QED
  BY <1>1, <1>2, <1>3, <1>4, <1>5 DEF HistInv

LEMMA OfRank ==
  ASSUME HistInv, NEW target \in Nat, target # 0, target <= total_
  PROVE  /\ Percentile(target) <= KthSmallest(target)
         /\ \/ KthSmallest(target) < Percentile(target) + NsPerBucket
            \/ KthSmallest(target) >= Buckets * NsPerBucket
<1> DEFINE reached == {b \in 0 .. Buckets - 1 : Seen(b) >= target}
           ranks == {ns \in 0 .. MaxNs : AtMost(ns) >= target}
           r == Min(reached)
           s == Min(ranks)
<1>1. /\ \A b \in 0 .. Buckets - 1 : Seen(b) = Total(samples, UpToBucket(b))
      /\ \A ns : AtMost(ns) = Total(samples, 0 .. ns)
      /\ Seen(Buckets - 1) = total_ /\ AtMost(MaxNs) = total_ /\ total_ \in Nat
  BY SeenIs
<1>c. MaxNs \in Nat /\ Buckets \in Nat \ {0} /\ NsPerBucket \in Nat \ {0}
  BY HistogramRanges
<1>2. reached \subseteq Nat /\ Buckets - 1 \in reached
  BY <1>1, <1>c
<1>3. ranks \subseteq Nat /\ MaxNs \in ranks
  BY <1>1, <1>c
<1>4. r \in reached /\ \A b \in reached : r <= b
  <2> HIDE DEF reached
  <2>1. QED
    BY <1>2, MinNat
<1>5. s \in ranks /\ \A b \in ranks : s <= b
  <2> HIDE DEF ranks
  <2>1. QED
    BY <1>3, MinNat
<1>6. Percentile(target) = r * NsPerBucket /\ KthSmallest(target) = s
  BY <1>2 DEF Percentile, KthSmallest
<1>7. /\ r \in 0 .. Buckets - 1 /\ Seen(r) >= target
      /\ \A b \in 0 .. Buckets - 1 : b < r => ~(Seen(b) >= target)
  BY <1>4, <1>c
<1>8. /\ s \in 0 .. MaxNs /\ AtMost(s) >= target
      /\ \A b \in 0 .. MaxNs : b < s => ~(AtMost(b) >= target)
  BY <1>5, <1>c
<1> HIDE DEF r, s, reached, ranks
<1>9. r * NsPerBucket \in Int /\ Buckets * NsPerBucket \in Int
  BY <1>c, <1>7
<1>10. r * NsPerBucket <= s
  <2>1. SUFFICES ASSUME s < r * NsPerBucket PROVE FALSE
    BY <1>8, <1>9
  <2>2. r # 0
    BY <1>c, <1>8, <2>1
  <2>3. r - 1 \in 0 .. Buckets - 1 /\ r - 1 \in Nat /\ r - 1 < Buckets - 1
    BY <1>7, <1>c, <2>2
  <2>4. NsPerBucket * ((r - 1) + 1) = r * NsPerBucket
    BY <1>7, <1>c
  <2>5. 0 .. s \subseteq UpToBucket(r - 1)
    <3>1. SUFFICES ASSUME NEW v \in 0 .. s PROVE v \in UpToBucket(r - 1)
      OBVIOUS
    <3>2. v \in Nat /\ v \in 0 .. MaxNs /\ v < r * NsPerBucket
      BY <1>8, <1>9, <1>c, <2>1
    <3>3. Bucket(v) <= r - 1
      BY <2>3, <2>4, <3>2, BucketIs
    <3>4. QED
      BY <3>2, <3>3 DEF UpToBucket
  <2>6. AtMost(s) <= Seen(r - 1) /\ AtMost(s) \in Nat /\ Seen(r - 1) \in Nat
    <3>1. UpToBucket(r - 1) \in SUBSET (0 .. MaxNs)
      BY HistogramRanges
    <3>2. QED
      BY <1>1, <2>3, <2>5, <3>1, TotalsOrdered
  <2>7. ~(Seen(r - 1) >= target)
    BY <1>7, <2>3
  <2>8. QED
    BY <1>8, <2>6, <2>7
<1>11. s < r * NsPerBucket + NsPerBucket \/ s >= Buckets * NsPerBucket
  <2>1. SUFFICES ASSUME s >= r * NsPerBucket + NsPerBucket, s < Buckets * NsPerBucket
                 PROVE  FALSE
    BY <1>8, <1>9, <1>c
  <2>2. r < Buckets - 1
    <3>1. SUFFICES ASSUME r = Buckets - 1 PROVE FALSE
      BY <1>7, <1>c
    <3>2. r * NsPerBucket + NsPerBucket = Buckets * NsPerBucket
      BY <1>c, <3>1
    <3>3. QED
      BY <1>8, <1>9, <2>1, <3>2
  <2>3. NsPerBucket * (r + 1) = r * NsPerBucket + NsPerBucket
    BY <1>7, <1>c
  <2>4. s - 1 \in 0 .. MaxNs
    <3>1. r * NsPerBucket >= 0
      BY <1>7, <1>c
    <3>2. QED
      BY <1>8, <1>9, <1>c, <2>1, <3>1
  <2>5. UpToBucket(r) \subseteq 0 .. s - 1
    <3>1. SUFFICES ASSUME NEW v \in UpToBucket(r) PROVE v \in 0 .. s - 1
      OBVIOUS
    <3>2. v \in 0 .. MaxNs /\ Bucket(v) <= r /\ v \in Nat
      BY <1>c DEF UpToBucket
    <3>3. r \in Nat
      BY <1>7, <1>c
    <3>4. v < NsPerBucket * (r + 1)
      BY <2>2, <3>2, <3>3, BucketIs
    <3>5. QED
      BY <1>8, <1>9, <1>c, <2>1, <2>3, <3>2, <3>4
  <2>6. Seen(r) <= AtMost(s - 1) /\ AtMost(s - 1) \in Nat /\ Seen(r) \in Nat
    <3>1. 0 .. s - 1 \in SUBSET (0 .. MaxNs)
      BY <1>8, <1>c
    <3>2. QED
      BY <1>1, <1>7, <2>5, <3>1, TotalsOrdered
  <2>7. ~(AtMost(s - 1) >= target)
    BY <1>8, <2>4
  <2>8. QED
    BY <1>7, <2>6, <2>7
<1>12. QED
  BY <1>6, <1>10, <1>11

LEMMA TargetsWithin ==
  ASSUME HistInv, NEW p \in Percents, NEW target \in Targets(p)
  PROVE  target \in Nat /\ target <= total_
<1> DEFINE product == total_ * p.num
           exact == product \div p.den
<1>1. p.num \in Nat /\ p.den \in Nat \ {0} /\ p.num <= p.den /\ total_ \in Nat
  BY HistogramAssumption, SeenIs
<1>2. product \in Nat /\ product <= p.den * total_
  <2>1. /\ total_ * p.num \in Nat
        /\ p.den * total_ = total_ * p.num + total_ * (p.den - p.num)
        /\ total_ * (p.den - p.num) >= 0
    BY <1>1
  <2>2. total_ * (p.den - p.num) \in Int /\ p.den * total_ \in Int
    BY <1>1
  <2>3. QED
    BY <2>1, <2>2
<1> HIDE DEF product
<1>3. exact <= total_
  <2>1. product < p.den * total_ + p.den
    BY <1>1, <1>2
  <2>2. QED
    BY <1>1, <1>2, <2>1, QuotientBounds
<1>4. exact \in Nat
  BY <1>1, <1>2
<1>5. target = exact \/ (exact > 0 /\ target = exact - 1)
  BY DEF Targets, exact, product
<1> HIDE DEF exact
<1>6. QED
  BY <1>1, <1>3, <1>4, <1>5

LEMMA PercentilesFromSums == HistInv => PercentilesTrue
<1> SUFFICES ASSUME HistInv PROVE PercentilesTrue
  OBVIOUS
<1>1. PercentileIsFloorOfSample
  <2>1. SUFFICES ASSUME NEW p \in Percents, NEW target \in Targets(p), target > 0
                 PROVE  /\ Percentile(target) <= KthSmallest(target)
                        /\ \/ KthSmallest(target) < Percentile(target) + NsPerBucket
                           \/ KthSmallest(target) >= Buckets * NsPerBucket
    BY DEF PercentileIsFloorOfSample
  <2>2. target \in Nat /\ target <= total_
    BY TargetsWithin
  <2>3. QED
    BY <2>1, <2>2, OfRank
<1>2. OverflowVisible
  <2>c. MaxNs \in Nat /\ Buckets \in Nat \ {0} /\ NsPerBucket \in Nat \ {0}
        /\ Buckets * NsPerBucket \in Nat
    BY HistogramRanges
  <2>1. Beyond = {ns \in 0 .. MaxNs : ns >= Buckets * NsPerBucket}
    BY <2>c, BucketIs DEF Beyond
  <2>2. total_ = Total(samples, 0 .. MaxNs) /\ overflow_ = Total(samples, Beyond)
        /\ total_ \in Nat
    BY SeenIs DEF HistInv
  <2>3. CASE Buckets * NsPerBucket > MaxNs
    <3>1. Beyond = {}
      BY <2>c, <2>1, <2>3
    <3>2. overflow_ = 0
      BY <2>2, <3>1, TotalEmpty
    <3>3. QED
      BY <2>2, <2>3, <3>2 DEF OverflowVisible
  <2>4. CASE ~(Buckets * NsPerBucket > MaxNs)
    <3> DEFINE edge == Buckets * NsPerBucket - 1
               low == 0 .. edge
    <3>1. /\ low \cap Beyond = {} /\ low \cup Beyond = 0 .. MaxNs
      BY <2>c, <2>1, <2>4
    <3>2. IsFiniteSet(low) /\ IsFiniteSet(Beyond)
      BY <2>c, HistogramRanges
    <3>3. \A x \in low \cup Beyond : samples[x] \in Int
      BY <3>1 DEF HistInv
    <3>4. AtMost(edge) = Total(samples, low)
      BY SeenIs
    <3> HIDE DEF low
    <3>9. Total(samples, low \cup Beyond) = Total(samples, low) + Total(samples, Beyond)
      BY <3>1, <3>2, <3>3, TotalUnion
    <3>5. Total(samples, 0 .. MaxNs) = Total(samples, low) + Total(samples, Beyond)
      BY <3>1, <3>9
    <3>6. Total(samples, low) \in Int /\ Total(samples, Beyond) \in Int
      BY <3>2, <3>3, TotalInt
    <3>7. overflow_ = total_ - AtMost(edge)
      BY <2>2, <3>4, <3>5, <3>6
    <3>8. QED
      BY <2>4, <3>7 DEF OverflowVisible
  <2>5. QED
    BY <2>3, <2>4
<1>3. QED
  BY <1>1, <1>2 DEF PercentilesTrue

(* A percentile of rank one or more is the lower edge of the bucket of the sample of that  *)
(* rank, and the overflow it warns of is the number of samples no bucket holds, for every  *)
(* number of buckets, bucket width and run of samples.                                     *)
THEOREM PercentilesAlwaysTrue == DemoSpec => []PercentilesTrue
<1>1. DemoInit => HistInv
  BY InitHistogram DEF DemoInit
<1>2. DemoSpec => []HistInv
  BY <1>1, HistogramSteps, PTL DEF DemoSpec
<1>3. QED
  BY <1>2, PercentilesFromSums, PTL

-----------------------------------------------------------------------------
(* The tracing exercise. *)

Events == <<"wire_rx", "decoded", "book_applied", "signal", "order_sent">>

(* How many records of the message in hand are put. *)
PutOfIt == [wire_rx |-> 0, decode |-> 1, book |-> 1, decoded |-> 1, book_applied |-> 2,
            strat |-> 3, signal |-> 3, send |-> 4, order_sent |-> 4]

Index(s, r) == 5 * (s - 1) + r
Stamp(s, r) == written[Index(s, r)].tsc

RecordsRight ==
  \A s \in 1 .. Messages, r \in 1 .. 5 : Index(s, r) <= Len(written) =>
    /\ written[Index(s, r)].ev = Events[r] /\ written[Index(s, r)].a = s
    /\ Stamp(s, r) \in Nat \ {0}

Timed1(s) == Stamp(s, 2) = Stamp(s, 1) + spent[s].decode + spent[s].book
Timed2(s) == Timed1(s) /\ Stamp(s, 3) = Stamp(s, 2)
Timed3(s) == Timed2(s) /\ Stamp(s, 4) = Stamp(s, 3) + spent[s].strat
Timed(s) == Timed3(s) /\ Stamp(s, 5) = Stamp(s, 4) + spent[s].send

InHand(s) ==
  /\ doing = "decode" => tsc = Stamp(s, 1)
  /\ doing = "book" => tsc = Stamp(s, 1) + spent[s].decode
  /\ doing = "decoded" => tsc = Stamp(s, 1) + spent[s].decode + spent[s].book
  /\ doing = "book_applied" => Timed1(s) /\ tsc = Stamp(s, 2)
  /\ doing = "strat" => Timed2(s) /\ tsc = Stamp(s, 3)
  /\ doing = "signal" => Timed2(s) /\ tsc = Stamp(s, 3) + spent[s].strat
  /\ doing = "send" => Timed3(s) /\ tsc = Stamp(s, 4)
  /\ doing = "order_sent" => Timed3(s) /\ tsc = Stamp(s, 4) + spent[s].send

JourneyOf(s) ==
  [seq |-> s, decode |-> spent[s].decode + spent[s].book, book |-> 0,
   strat |-> spent[s].strat, send |-> spent[s].send,
   total |-> spent[s].decode + spent[s].book + spent[s].strat + spent[s].send]

Kept == IF 5 * Messages < kRingSlots THEN 5 * Messages ELSE kRingSlots
Whole == Kept \div 5
Assembled == [n \in 1 .. Whole |-> JourneyOf(Messages - Whole + n)]

TraceTypes ==
  /\ tsc \in Nat \ {0} /\ seq \in 1 .. Messages + 1 /\ doing \in DOMAIN Follows
  /\ (seq > Messages => doing = "wire_rx")
  /\ spent \in [1 .. Messages -> [Work -> Nat]]
  /\ written \in Seq([tsc : Nat, ev : DOMAIN Follows, a : Nat])

TraceInv ==
  /\ TraceTypes
  /\ Len(written) = 5 * (seq - 1) + PutOfIt[doing]
  /\ RecordsRight
  /\ \A s \in 1 .. Messages : s < seq => Timed(s)
  /\ seq <= Messages => InHand(seq)
  /\ journeys = << >> \/ (seq > Messages /\ journeys = Assembled)

LEMMA TraceConstants ==
  /\ kRingSlots \in Nat \ {0} /\ Cost \subseteq Nat /\ Messages \in Nat
  BY DemoAssumption

LEMMA Stages ==
  /\ DOMAIN Follows = {"wire_rx", "decode", "book", "decoded", "book_applied", "strat",
                       "signal", "send", "order_sent"}
  /\ \A d \in DOMAIN Follows : Follows[d] \in DOMAIN Follows /\ PutOfIt[d] \in 0 .. 4
  /\ \A d \in DOMAIN Follows : d \in Work => PutOfIt[Follows[d]] = PutOfIt[d]
  /\ \A d \in DOMAIN Follows : d \notin Work =>
       /\ Events[PutOfIt[d] + 1] = d
       /\ d # "order_sent" => PutOfIt[Follows[d]] = PutOfIt[d] + 1
  /\ PutOfIt["order_sent"] = 4 /\ PutOfIt["wire_rx"] = 0
  /\ Follows["order_sent"] = "wire_rx"
<1>1. DOMAIN Follows = {"wire_rx", "decode", "book", "decoded", "book_applied", "strat",
                        "signal", "send", "order_sent"}
  BY DEF Follows
<1>2. \A d \in DOMAIN Follows : Follows[d] \in DOMAIN Follows
  BY DEF Follows
<1>3. \A d \in DOMAIN Follows : PutOfIt[d] \in 0 .. 4
  BY DEF Follows, PutOfIt
<1>4. \A d \in DOMAIN Follows : d \in Work => PutOfIt[Follows[d]] = PutOfIt[d]
  BY DEF Follows, PutOfIt, Work
<1>5. \A d \in DOMAIN Follows : d \notin Work =>
        d \in {"wire_rx", "decoded", "book_applied", "signal", "order_sent"}
  BY <1>1 DEF Work
<1>6. /\ Events[PutOfIt["wire_rx"] + 1] = "wire_rx"
      /\ Events[PutOfIt["decoded"] + 1] = "decoded"
      /\ Events[PutOfIt["book_applied"] + 1] = "book_applied"
      /\ Events[PutOfIt["signal"] + 1] = "signal"
      /\ Events[PutOfIt["order_sent"] + 1] = "order_sent"
  BY DEF PutOfIt, Events
<1>7. \A d \in {"wire_rx", "decoded", "book_applied", "signal"} :
        PutOfIt[Follows[d]] = PutOfIt[d] + 1
  BY DEF Follows, PutOfIt
<1>8. /\ PutOfIt["order_sent"] = 4 /\ PutOfIt["wire_rx"] = 0
      /\ Follows["order_sent"] = "wire_rx"
  BY DEF PutOfIt, Follows
<1>9. QED
  BY <1>1, <1>2, <1>3, <1>4, <1>5, <1>6, <1>7, <1>8

LEMMA InitTrace == TraceInit => TraceInv
<1> SUFFICES ASSUME TraceInit PROVE TraceInv
  OBVIOUS
<1>1. /\ tsc = 1 /\ seq = 1 /\ doing = "wire_rx" /\ written = << >> /\ journeys = << >>
  BY DEF TraceInit
<1>2. TraceTypes
  <2>1. spent \in [1 .. Messages -> [Work -> Nat]]
    BY DEF TraceInit
  <2>2. QED
    BY <1>1, <2>1, TraceConstants, Stages DEF TraceTypes
<1>3. Len(written) = 5 * (seq - 1) + PutOfIt[doing]
  BY <1>1, Stages
<1>4. RecordsRight
  <2>1. SUFFICES ASSUME NEW s \in 1 .. Messages, NEW r \in 1 .. 5, Index(s, r) <= Len(written)
                 PROVE  FALSE
    BY DEF RecordsRight
  <2>2. Len(written) = 0
    BY <1>1
  <2>3. QED
    BY <2>1, <2>2, TraceConstants DEF Index
<1>5. InHand(seq)
  BY <1>1 DEF InHand
<1>6. \A s \in 1 .. Messages : ~(s < seq)
  BY <1>1, TraceConstants
<1>7. QED
  BY <1>1, <1>2, <1>3, <1>4, <1>5, <1>6 DEF TraceInv

LEMMA RunKeeps ==
  ASSUME TraceInv, Run
  PROVE  TraceInv'
<1>1. PICK cost \in Cost : /\ tsc' = tsc + cost
                           /\ spent' = [spent EXCEPT ![seq][doing] = cost]
  BY DEF Run
<1>2. /\ seq <= Messages /\ doing \in Work /\ doing' = Follows[doing]
      /\ seq' = seq /\ written' = written /\ journeys' = journeys
  BY DEF Run
<1>3. /\ tsc \in Nat \ {0} /\ seq \in 1 .. Messages + 1 /\ doing \in DOMAIN Follows
      /\ spent \in [1 .. Messages -> [Work -> Nat]]
      /\ written \in Seq([tsc : Nat, ev : DOMAIN Follows, a : Nat])
      /\ RecordsRight /\ InHand(seq)
      /\ \A s \in 1 .. Messages : s < seq => Timed(s)
      /\ Len(written) = 5 * (seq - 1) + PutOfIt[doing]
      /\ journeys = << >>
  BY <1>2, TraceConstants DEF TraceInv, TraceTypes
<1>4. cost \in Nat /\ seq \in 1 .. Messages /\ tsc \in Nat /\ ~(seq > Messages)
  BY <1>2, <1>3, TraceConstants
<1>5. /\ spent' \in [1 .. Messages -> [Work -> Nat]]
      /\ \A s \in 1 .. Messages : s # seq => spent'[s] = spent[s]
      /\ spent'[seq][doing] = cost
      /\ \A w \in Work : w # doing => spent'[seq][w] = spent[seq][w]
  BY <1>1, <1>2, <1>3, <1>4
<1>6. TraceTypes'
  <2>1. tsc' \in Nat \ {0}
    BY <1>1, <1>3, <1>4
  <2>2. doing' \in DOMAIN Follows
    BY <1>2, <1>3, Stages
  <2>3. QED
    BY <1>2, <1>3, <1>4, <1>5, <2>1, <2>2 DEF TraceTypes
<1>7. Len(written') = 5 * (seq' - 1) + PutOfIt[doing']
  BY <1>2, <1>3, Stages
<1>8. \A s, r : Stamp(s, r)' = Stamp(s, r)
  BY <1>2 DEF Stamp, Index
<1>9. RecordsRight'
  BY <1>2, <1>3, <1>8 DEF RecordsRight, Index, Stamp
<1>10. \A s \in 1 .. Messages : s < seq' => Timed(s)'
  <2>1. SUFFICES ASSUME NEW s \in 1 .. Messages, s < seq PROVE Timed(s)'
    BY <1>2
  <2>2. Timed(s) /\ spent'[s] = spent[s]
    BY <1>3, <1>5, <2>1
  <2>3. QED
    BY <1>8, <2>2 DEF Timed, Timed3, Timed2, Timed1
<1>11. InHand(seq)'
  <2> DEFINE c == spent[seq]
             d == spent'[seq]
  <2>1. \A r \in 1 .. 5 : r <= PutOfIt[doing] => Stamp(seq, r) \in Nat
    <3>1. SUFFICES ASSUME NEW r \in 1 .. 5, r <= PutOfIt[doing] PROVE Stamp(seq, r) \in Nat
      OBVIOUS
    <3>4. PutOfIt[doing] \in 0 .. 4
      BY <1>3, Stages
    <3>2. Index(seq, r) <= Len(written)
      <4>1. PICK k, p : k = 5 * (seq - 1) /\ p = PutOfIt[doing]
        OBVIOUS
      <4>2. k \in Int /\ p \in 0 .. 4 /\ r \in 1 .. 5 /\ r <= p
        BY <1>3, <3>1, <3>4, <4>1
      <4>3. Len(written) = k + p /\ Index(seq, r) = k + r
        BY <1>3, <1>4, <4>1 DEF Index
      <4>4. QED
        BY <4>2, <4>3
    <3>3. QED
      BY <1>3, <1>4, <3>2 DEF RecordsRight
  <2>t. \A w \in Work : c[w] \in Nat
    BY <1>3, <1>4
  <2>w. Work = {"decode", "book", "strat", "send"}
    BY DEF Work
  <2>2. CASE doing = "decode"
    <3>1. doing' = "book" /\ tsc = Stamp(seq, 1) /\ d.decode = cost
      BY <1>2, <1>3, <1>5, <2>2 DEF InHand, Follows
    <3>2. tsc' = Stamp(seq, 1) + d.decode
      BY <1>1, <3>1
    <3>3. QED
      BY <1>2, <1>8, <3>1, <3>2 DEF InHand
  <2>3. CASE doing = "book"
    <3>1. /\ doing' = "decoded" /\ tsc = Stamp(seq, 1) + c.decode /\ d.book = cost
          /\ d.decode = c.decode
      BY <1>2, <1>3, <1>5, <2>3, <2>w DEF InHand, Follows
    <3>4. c.decode \in Nat
      BY <2>t, <2>w
    <3>5. Stamp(seq, 1) \in Nat
      <4>1. PutOfIt[doing] = 1
        BY <2>3 DEF PutOfIt
      <4>2. QED
        BY <2>1, <4>1
    <3>2. tsc' = Stamp(seq, 1) + d.decode + d.book
      BY <1>1, <3>1, <3>4, <3>5, <1>4
    <3>3. QED
      BY <1>2, <1>8, <3>1, <3>2 DEF InHand
  <2>4. CASE doing = "strat"
    <3>1. /\ doing' = "signal" /\ tsc = Stamp(seq, 3) /\ Timed2(seq) /\ d.strat = cost
          /\ d.decode = c.decode /\ d.book = c.book
      BY <1>2, <1>3, <1>5, <2>4, <2>w DEF InHand, Follows
    <3>2. tsc' = Stamp(seq, 3) + d.strat
      BY <1>1, <3>1
    <3>4. Timed2(seq)'
      BY <1>2, <1>8, <3>1 DEF Timed2, Timed1
    <3>3. QED
      BY <1>2, <1>8, <3>1, <3>2, <3>4 DEF InHand
  <2>5. CASE doing = "send"
    <3>1. /\ doing' = "order_sent" /\ tsc = Stamp(seq, 4) /\ Timed3(seq) /\ d.send = cost
          /\ d.decode = c.decode /\ d.book = c.book /\ d.strat = c.strat
      BY <1>2, <1>3, <1>5, <2>5, <2>w DEF InHand, Follows
    <3>2. tsc' = Stamp(seq, 4) + d.send
      BY <1>1, <3>1
    <3>4. Timed3(seq)'
      BY <1>2, <1>8, <3>1 DEF Timed3, Timed2, Timed1
    <3>3. QED
      BY <1>2, <1>8, <3>1, <3>2, <3>4 DEF InHand
  <2>6. QED
    BY <1>2, <2>2, <2>3, <2>4, <2>5, <2>w
<1>12. QED
  BY <1>2, <1>3, <1>6, <1>7, <1>9, <1>10, <1>11 DEF TraceInv

LEMMA PutKeepsTrace ==
  ASSUME TraceInv, Put
  PROVE  TraceInv'
<1> DEFINE rec == [tsc |-> tsc, ev |-> doing, a |-> seq]
<1>2. /\ seq <= Messages /\ doing \notin Work /\ doing' = Follows[doing]
      /\ written' = Append(written, rec)
      /\ seq' = (IF doing = "order_sent" THEN seq + 1 ELSE seq)
      /\ tsc' = tsc /\ spent' = spent /\ journeys' = journeys
  BY DEF Put
<1>p. PICK s, p : s = seq /\ p = PutOfIt[doing]
  OBVIOUS
<1>3. /\ tsc \in Nat \ {0} /\ seq \in 1 .. Messages + 1 /\ doing \in DOMAIN Follows
      /\ spent \in [1 .. Messages -> [Work -> Nat]]
      /\ written \in Seq([tsc : Nat, ev : DOMAIN Follows, a : Nat])
      /\ RecordsRight /\ InHand(s)
      /\ \A n \in 1 .. Messages : n < s => Timed(n)
      /\ Len(written) = 5 * (s - 1) + p
      /\ journeys = << >>
  BY <1>2, <1>p, TraceConstants DEF TraceInv, TraceTypes
<1>4. s \in 1 .. Messages /\ tsc \in Nat /\ ~(seq > Messages) /\ s \in Nat /\ Messages \in Nat
  BY <1>2, <1>p, <1>3, TraceConstants
<1>5. /\ p \in 0 .. 4 /\ Events[p + 1] = doing /\ doing' \in DOMAIN Follows
      /\ doing # "order_sent" => PutOfIt[doing'] = p + 1
      /\ doing = "order_sent" => p = 4 /\ doing' = "wire_rx"
      /\ PutOfIt["wire_rx"] = 0
  BY <1>2, <1>p, <1>3, Stages
<1>6. rec \in [tsc : Nat, ev : DOMAIN Follows, a : Nat]
  BY <1>3, <1>4, <1>p
<1>7. /\ rec.tsc = tsc /\ rec.ev = doing /\ rec.a = s
  BY <1>p
<1> HIDE DEF rec
<1>8. /\ written' \in Seq([tsc : Nat, ev : DOMAIN Follows, a : Nat])
      /\ Len(written') = Len(written) + 1
      /\ written'[Len(written) + 1] = rec
      /\ \A n \in 1 .. Len(written) : written'[n] = written[n]
      /\ Len(written) \in Nat
  BY <1>2, <1>3, <1>6, AppendProperties
<1>9. TraceTypes'
  <2>1. seq' \in 1 .. Messages + 1 /\ (seq' > Messages => doing' = "wire_rx")
    BY <1>2, <1>p, <1>4, <1>5
  <2>2. QED
    BY <1>2, <1>3, <1>5, <1>8, <2>1 DEF TraceTypes
<1>10. Len(written') = 5 * (seq' - 1) + PutOfIt[doing']
  <2>1. CASE doing = "order_sent"
    <3>1. seq' = s + 1 /\ PutOfIt[doing'] = 0 /\ p = 4
      BY <1>2, <1>p, <1>5, <2>1
    <3>2. QED
      BY <1>3, <1>4, <1>8, <3>1
  <2>2. CASE doing # "order_sent"
    <3>1. seq' = s /\ PutOfIt[doing'] = p + 1
      BY <1>2, <1>p, <1>5, <2>2
    <3>2. QED
      BY <1>3, <1>4, <1>5, <1>8, <3>1
  <2>3. QED
    BY <2>1, <2>2
<1>11. ASSUME NEW n \in 1 .. Messages, NEW r \in 1 .. 5, Index(n, r) <= Len(written)
       PROVE  written'[Index(n, r)] = written[Index(n, r)] /\ Stamp(n, r)' = Stamp(n, r)
  <2>1. Index(n, r) \in 1 .. Len(written)
    BY <1>4, <1>8, <1>11 DEF Index
  <2>2. written'[Index(n, r)] = written[Index(n, r)]
    BY <1>8, <2>1
  <2>3. QED
    BY <2>2 DEF Stamp, Index
<1>12. /\ Index(s, p + 1) = Len(written) + 1
       /\ written'[Index(s, p + 1)] = rec
       /\ Stamp(s, p + 1)' = tsc
  <2>1. Index(s, p + 1) = Len(written) + 1
    BY <1>3, <1>4, <1>5 DEF Index
  <2>2. written'[Index(s, p + 1)] = rec
    BY <1>8, <2>1
  <2>3. Stamp(s, p + 1)' = written'[Index(s, p + 1)].tsc
    BY DEF Stamp, Index
  <2>4. QED
    BY <1>7, <2>1, <2>2, <2>3
<1>13. RecordsRight'
  <2>1. SUFFICES ASSUME NEW n \in 1 .. Messages, NEW r \in 1 .. 5, Index(n, r) <= Len(written')
                 PROVE  /\ written'[Index(n, r)].ev = Events[r] /\ written'[Index(n, r)].a = n
                        /\ Stamp(n, r)' \in Nat \ {0}
    BY DEF RecordsRight, Index
  <2>2. CASE Index(n, r) <= Len(written)
    <3>1. /\ written[Index(n, r)].ev = Events[r] /\ written[Index(n, r)].a = n
          /\ Stamp(n, r) \in Nat \ {0}
      BY <1>3, <2>2 DEF RecordsRight
    <3>2. written'[Index(n, r)] = written[Index(n, r)] /\ Stamp(n, r)' = Stamp(n, r)
      BY <1>11, <2>2
    <3>3. QED
      BY <3>1, <3>2
  <2>3. CASE ~(Index(n, r) <= Len(written))
    <3>1. n = s /\ r = p + 1
      <4>1. Index(n, r) = 5 * (s - 1) + p + 1
        BY <1>3, <1>4, <1>5, <1>8, <2>1, <2>3 DEF Index
      <4>2. 5 * (n - 1) + r = 5 * (s - 1) + p + 1
        BY <4>1 DEF Index
      <4>3. QED
        BY <1>4, <1>5, <4>2
    <3>2. QED
      BY <1>3, <1>5, <1>7, <1>12, <3>1
  <2>4. QED
    BY <2>2, <2>3
<1>14. \A n \in 1 .. Messages, r \in 1 .. 5 : n < s \/ (n = s /\ r <= p) => Stamp(n, r)' = Stamp(n, r)
  <2>1. SUFFICES ASSUME NEW n \in 1 .. Messages, NEW r \in 1 .. 5, n < s \/ (n = s /\ r <= p)
                 PROVE  Stamp(n, r)' = Stamp(n, r)
    OBVIOUS
  <2>2. Index(n, r) <= Len(written)
    BY <1>3, <1>4, <1>5, <2>1 DEF Index
  <2>3. QED
    BY <1>11, <2>2
<1>15. \A n \in 1 .. Messages : n < s => Timed(n)'
  <2>1. SUFFICES ASSUME NEW n \in 1 .. Messages, n < s PROVE Timed(n)'
    OBVIOUS
  <2>2. Timed(n)
    BY <1>3, <2>1
  <2>3. \A r \in 1 .. 5 : Stamp(n, r)' = Stamp(n, r)
    BY <1>14, <2>1
  <2>4. /\ Stamp(n, 1)' = Stamp(n, 1) /\ Stamp(n, 2)' = Stamp(n, 2) /\ Stamp(n, 3)' = Stamp(n, 3)
        /\ Stamp(n, 4)' = Stamp(n, 4) /\ Stamp(n, 5)' = Stamp(n, 5)
    BY <2>3
  <2>5. QED
    BY <1>2, <2>2, <2>4 DEF Timed, Timed3, Timed2, Timed1
<1>w. doing \in {"wire_rx", "decoded", "book_applied", "signal", "order_sent"}
  BY <1>2, <1>3, Stages DEF Work
<1>16. CASE doing = "order_sent"
  <2>1. p = 4 /\ doing' = "wire_rx" /\ seq' = s + 1
    BY <1>2, <1>p, <1>5, <1>16
  <2>2. Timed(s)'
    <3>1. Timed3(s) /\ tsc = Stamp(s, 4) + spent[s].send
      BY <1>3, <1>16 DEF InHand
    <3>2. /\ Stamp(s, 1)' = Stamp(s, 1) /\ Stamp(s, 2)' = Stamp(s, 2)
          /\ Stamp(s, 3)' = Stamp(s, 3) /\ Stamp(s, 4)' = Stamp(s, 4)
      BY <1>4, <1>14, <2>1
    <3>3. Stamp(s, 5)' = tsc
      BY <1>12, <2>1
    <3>4. QED
      BY <1>2, <3>1, <3>2, <3>3 DEF Timed, Timed3, Timed2, Timed1
  <2>3. \A n \in 1 .. Messages : n < seq' => Timed(n)'
    <3>1. \A n \in 1 .. Messages : n < seq' => n < s \/ n = s
      BY <1>4, <2>1
    <3>2. QED
      BY <1>15, <2>2, <3>1
  <2>4. (seq <= Messages => InHand(seq))'
    BY <2>1 DEF InHand
  <2>5. QED
    BY <1>2, <1>3, <1>9, <1>10, <1>13, <2>3, <2>4 DEF TraceInv
<1>17. CASE doing # "order_sent"
  <2>1. seq' = s /\ PutOfIt[doing'] = p + 1 /\ s = seq
    BY <1>2, <1>p, <1>5, <1>17
  <2>2. InHand(s)'
    <3>1. CASE doing = "wire_rx"
      <4>1. p = 0 /\ doing' = "decode"
        BY <1>2, <1>p, <3>1 DEF Follows, PutOfIt
      <4>2. Stamp(s, 1)' = tsc
        BY <1>12, <4>1
      <4>3. QED
        BY <1>2, <4>1, <4>2 DEF InHand
    <3>2. CASE doing = "decoded"
      <4>1. p = 1 /\ doing' = "book_applied"
        BY <1>2, <1>p, <3>2 DEF Follows, PutOfIt
      <4>2. Stamp(s, 2)' = tsc /\ Stamp(s, 1)' = Stamp(s, 1)
        BY <1>4, <1>12, <1>14, <4>1
      <4>4. Timed1(s)'
        BY <1>2, <1>3, <3>2, <4>2 DEF InHand, Timed1
      <4>3. QED
        BY <1>2, <4>1, <4>2, <4>4 DEF InHand
    <3>3. CASE doing = "book_applied"
      <4>1. p = 2 /\ doing' = "strat"
        BY <1>2, <1>p, <3>3 DEF Follows, PutOfIt
      <4>2. Stamp(s, 3)' = tsc /\ Stamp(s, 1)' = Stamp(s, 1) /\ Stamp(s, 2)' = Stamp(s, 2)
        BY <1>4, <1>12, <1>14, <4>1
      <4>4. Timed2(s)'
        BY <1>2, <1>3, <3>3, <4>2 DEF InHand, Timed2, Timed1
      <4>3. QED
        BY <1>2, <4>1, <4>2, <4>4 DEF InHand
    <3>4. CASE doing = "signal"
      <4>1. p = 3 /\ doing' = "send"
        BY <1>2, <1>p, <3>4 DEF Follows, PutOfIt
      <4>2. Stamp(s, 4)' = tsc /\ Stamp(s, 1)' = Stamp(s, 1) /\ Stamp(s, 2)' = Stamp(s, 2)
            /\ Stamp(s, 3)' = Stamp(s, 3)
        BY <1>4, <1>12, <1>14, <4>1
      <4>4. Timed3(s)'
        BY <1>2, <1>3, <3>4, <4>2 DEF InHand, Timed3, Timed2, Timed1
      <4>3. QED
        BY <1>2, <4>1, <4>2, <4>4 DEF InHand
    <3>5. QED
      BY <1>w, <1>17, <3>1, <3>2, <3>3, <3>4
  <2>3. (seq <= Messages => InHand(seq))'
    BY <2>1, <2>2
  <2>4. QED
    BY <1>2, <1>3, <1>9, <1>10, <1>13, <1>15, <2>1, <2>3 DEF TraceInv
<1>18. QED
  BY <1>16, <1>17

(* The decoder. *)
Journeys == [seq : Nat, decode : Int, book : Int, strat : Int, send : Int, total : Int]
Decoders == [cur : Journeys, rx : Nat, dec : Nat, book : Nat, sig : Nat, done : Seq(Journeys)]
Records == [tsc : Nat, ev : {"wire_rx", "decoded", "book_applied", "signal", "order_sent"},
            a : Nat]

LEMMA JourneyIs ==
  ASSUME NEW d \in Decoders, NEW now \in Nat
  PROVE  /\ Journey(d, now) =
              [seq |-> d.cur.seq, decode |-> d.dec - d.rx, book |-> d.book - d.dec,
               strat |-> d.sig - d.book, send |-> now - d.sig, total |-> now - d.rx]
         /\ Journey(d, now) \in Journeys
<1>1. d.cur \in Journeys /\ d.dec \in Nat /\ d.rx \in Nat /\ d.book \in Nat /\ d.sig \in Nat
  BY DEF Decoders
<1>2. PICK a, b, c, e, f : a = d.dec - d.rx /\ b = d.book - d.dec /\ c = d.sig - d.book
                           /\ e = now - d.sig /\ f = now - d.rx
  OBVIOUS
<1>3. a \in Int /\ b \in Int /\ c \in Int /\ e \in Int /\ f \in Int
  BY <1>1, <1>2
<1>4. Journey(d, now) = [d.cur EXCEPT !.decode = a, !.book = b, !.strat = c, !.send = e, !.total = f]
  BY <1>2 DEF Journey
<1>5. Journey(d, now) = [seq |-> d.cur.seq, decode |-> a, book |-> b, strat |-> c,
                         send |-> e, total |-> f]
  BY ONLY <1>1, <1>4 DEF Journeys
<1>6. d.cur.seq \in Nat
  BY ONLY <1>1 DEF Journeys
<1>7. Journey(d, now) \in Journeys
  BY ONLY <1>3, <1>5, <1>6 DEF Journeys
<1>8. QED
  BY <1>2, <1>5, <1>7

(* What Decode does to each field, event by event. *)
LEMMA DecodeIs ==
  ASSUME NEW d \in Decoders, NEW r \in Records
  PROVE  /\ Decode(d, r) \in Decoders
         /\ r.ev = "wire_rx" =>
              /\ Decode(d, r).cur = [NoJourney EXCEPT !.seq = r.a] /\ Decode(d, r).rx = r.tsc
              /\ Decode(d, r).done = d.done
         /\ r.ev = "decoded" => Decode(d, r) = [d EXCEPT !.dec = r.tsc]
         /\ r.ev = "book_applied" => Decode(d, r) = [d EXCEPT !.book = r.tsc]
         /\ r.ev = "signal" => Decode(d, r) = [d EXCEPT !.sig = r.tsc]
         /\ r.ev = "order_sent" =>
              /\ Decode(d, r).rx = 0
              /\ d.rx = 0 => Decode(d, r).done = d.done
              /\ d.rx # 0 /\ d.dec >= d.rx =>
                   Decode(d, r).done = Append(d.done, Journey(d, r.tsc))
<1>1. CASE r.ev = "wire_rx"
  <2>1. Decode(d, r) = [d EXCEPT !.cur = [NoJourney EXCEPT !.seq = r.a], !.rx = r.tsc]
    BY <1>1 DEF Decode, Records
  <2>2. [NoJourney EXCEPT !.seq = r.a] \in Journeys
    BY DEF NoJourney, Records, Journeys
  <2>3. r.tsc \in Nat
    BY DEF Records
  <2> HIDE DEF Journeys
  <2>4. QED
    BY <1>1, <2>1, <2>2, <2>3 DEF Decoders
<1>2. CASE r.ev = "decoded"
  <2>1. Decode(d, r) = [d EXCEPT !.dec = r.tsc]
    BY <1>2 DEF Decode, Records
  <2>2. QED
    BY <1>2, <2>1 DEF Decoders, Records
<1>3. CASE r.ev = "book_applied"
  <2>1. Decode(d, r) = [d EXCEPT !.book = r.tsc]
    BY <1>3 DEF Decode, Records
  <2>2. QED
    BY <1>3, <2>1 DEF Decoders, Records
<1>4. CASE r.ev = "signal"
  <2>1. Decode(d, r) = [d EXCEPT !.sig = r.tsc]
    BY <1>4 DEF Decode, Records
  <2>2. QED
    BY <1>4, <2>1 DEF Decoders, Records
<1>5. CASE r.ev = "order_sent"
  <2>1. Decode(d, r) = Finished(d, r)
    BY <1>5 DEF Decode, Records
  <2>2. Journey(d, r.tsc) \in Journeys
    BY JourneyIs DEF Records
  <2>3. r.tsc \in Nat /\ d.rx \in Nat /\ d.dec \in Nat /\ d.done \in Seq(Journeys)
    BY DEF Records, Decoders
  <2>4. Append(d.done, Journey(d, r.tsc)) \in Seq(Journeys)
    BY <2>2, <2>3, AppendProperties
  <2>5. CASE d.rx # 0 /\ d.dec >= d.rx
    <3>1. PICK more : more = Append(d.done, Journey(d, r.tsc))
      OBVIOUS
    <3>2. Decode(d, r) = [d EXCEPT !.done = more, !.rx = 0]
      BY <2>1, <2>5, <3>1 DEF Finished, Decoders
    <3>3. more \in Seq(Journeys)
      BY <2>4, <3>1
    <3>4. Decode(d, r) \in Decoders /\ Decode(d, r).rx = 0 /\ Decode(d, r).done = more
      <4> HIDE DEF Journeys
      <4>1. PICK js : js = Seq(Journeys)
        OBVIOUS
      <4>2. d \in [cur : Journeys, rx : Nat, dec : Nat, book : Nat, sig : Nat, done : js]
        BY <4>1 DEF Decoders
      <4>3. more \in js
        BY <3>3, <4>1
      <4>4. Decode(d, r) = [cur |-> d.cur, rx |-> 0, dec |-> d.dec, book |-> d.book,
                            sig |-> d.sig, done |-> more]
        BY ONLY <3>2, <4>2
      <4>5. /\ d.cur \in Journeys /\ d.dec \in Nat /\ d.book \in Nat /\ d.sig \in Nat
        BY ONLY <4>2
      <4>6. Decode(d, r) \in [cur : Journeys, rx : Nat, dec : Nat, book : Nat, sig : Nat, done : js]
        BY ONLY <4>3, <4>4, <4>5
      <4>7. Decode(d, r).rx = 0 /\ Decode(d, r).done = more
        BY ONLY <4>4
      <4>8. QED
        BY <4>1, <4>6, <4>7 DEF Decoders
    <3>5. QED
      BY <1>5, <2>5, <3>1, <3>4
  <2>6. CASE ~(d.rx # 0 /\ d.dec >= d.rx)
    <3>1. Decode(d, r) = [d EXCEPT !.rx = 0]
      BY <2>1, <2>6 DEF Finished
    <3> HIDE DEF Journeys
    <3>2. QED
      BY <1>5, <2>6, <3>1 DEF Decoders
  <2>7. QED
    BY <2>5, <2>6
<1>6. QED
  BY <1>1, <1>2, <1>3, <1>4, <1>5 DEF Records

LEMMA DecodeType ==
  ASSUME NEW d \in Decoders, NEW r \in Records PROVE Decode(d, r) \in Decoders
BY DecodeIs

(* The fold of the decoder over a snapshot, step by step. *)
Steps(f, S) ==
  /\ f \in [0 .. Len(S) -> Decoders] /\ f[0] = Start
  /\ \A k \in 1 .. Len(S) : f[k] = Decode(f[k - 1], S[k])

LEMMA DecodedIs ==
  ASSUME NEW S \in Seq(Records)
  PROVE  \E f : Steps(f, S) /\ FoldLeft(Decode, Start, S) = f[Len(S)]
<1> DEFINE n == Len(S)
           D == 1 .. n
           ch == [t \in SUBSET D |-> Max(t)]
           F == [q \in D \X Decoders |-> Decode(q[2], S[q[1]])]
           Is(W) == W = [t \in SUBSET D |-> IF t = {} THEN Start
                            ELSE LET e == Max(t) IN Decode(W[t \ {e}], S[e])]
           Table == CHOOSE W : Is(W)
           f == [k \in 0 .. n |-> Table[1 .. k]]
<1>1. n \in Nat /\ D = DOMAIN S /\ IsFiniteSet(D) /\ \A e \in D : S[e] \in Records
  BY FS_Interval
<1>2. FoldLeft(Decode, Start, S) = Table[D]
  BY <1>1 DEF FoldLeft, MapThenFoldSet
<1>s. Start \in Decoders
  BY EmptySeq DEF Start, Decoders, Journeys, NoJourney
<1>3. \A t \in SUBSET D : t # {} => ch[t] \in t
  BY <1>1, LastTaken
<1>4. \A e \in D, v \in Decoders : F[<<e, v>>] \in Decoders /\ F[<<e, v>>] = Decode(v, S[e])
  BY <1>1, DecodeIs
<1>5. \A t \in SUBSET D : ch[t] = Max(t)
  OBVIOUS
<1> HIDE DEF n, D, F, ch
<1>6. PICK W \in [SUBSET D -> Decoders] : IsFold(W, D, Start, F, ch)
  <2>1. \A e \in D, v \in Decoders : F[<<e, v>>] \in Decoders
    BY <1>4
  <2> HIDE DEF Is
  <2>2. QED
    BY <1>1, <1>3, <1>s, <2>1, FoldTableExists
<1>7. Is(W)
  <2>1. ASSUME NEW t \in SUBSET D, t # {}
        PROVE  F[<<ch[t], W[t \ {ch[t]}]>>] = Decode(W[t \ {Max(t)}], S[Max(t)])
    <3>1. ch[t] \in D /\ W[t \ {ch[t]}] \in Decoders
      BY <1>3, <2>1
    <3>2. QED
      BY <1>4, <1>5, <3>1
  <2>2. [t \in SUBSET D |-> IF t = {} THEN Start ELSE F[<<ch[t], W[t \ {ch[t]}]>>]]
          = [t \in SUBSET D |-> IF t = {} THEN Start ELSE LET e == Max(t) IN Decode(W[t \ {e}], S[e])]
    BY <2>1
  <2>3. QED
    BY <1>6, <2>2 DEF IsFold
<1>8. Is(Table)
  <2> HIDE DEF Is
  <2>1. QED
    BY <1>7
<1> HIDE DEF Table
<1>9. f[0] = Start /\ f[n] = Table[D]
  <2>1. /\ {} \in SUBSET D /\ 1 .. 0 = {} /\ 0 \in 0 .. n /\ n \in 0 .. n
    BY <1>1
  <2>2. Table[{}] = Start
    BY <1>8, <2>1
  <2>3. QED
    BY <2>1, <2>2 DEF D
<1>10. ASSUME NEW k \in 1 .. n PROVE f[k] = Decode(f[k - 1], S[k])
  <2>1. /\ k \in Nat /\ k # 0 /\ k \in 0 .. n /\ k - 1 \in 0 .. n /\ 1 .. k \in SUBSET D
    BY <1>1 DEF D
  <2>2. Max(1 .. k) = k /\ (1 .. k) \ {k} = 1 .. k - 1 /\ 1 .. k # {}
    BY <2>1, Intervals
  <2>3. Table[1 .. k] = Decode(Table[(1 .. k) \ {Max(1 .. k)}], S[Max(1 .. k)])
    BY <1>8, <2>1, <2>2
  <2>4. Table[1 .. k] = Decode(Table[1 .. k - 1], S[k])
    BY <2>2, <2>3
  <2>5. QED
    BY <2>1, <2>4
<1>11. \A k \in 0 .. n : f[k] \in Decoders
  <2> DEFINE P == {k \in 0 .. n : f[k] \in Decoders}
  <2>1. 0 \in P
    BY <1>1, <1>9, <1>s
  <2>2. ASSUME NEW k \in 0 .. n - 1, k \in P PROVE k + 1 \in P
    <3>1. k + 1 \in 1 .. n /\ k + 1 \in 0 .. n /\ (k + 1) - 1 = k
      BY <1>1
    <3>2. f[k + 1] = Decode(f[k], S[k + 1])
      BY <1>10, <3>1
    <3> HIDE DEF f
    <3>3. S[k + 1] \in Records /\ f[k] \in Decoders
      BY <1>1, <2>2, <3>1 DEF D
    <3>4. f[k + 1] \in Decoders
      BY <3>2, <3>3, DecodeType
    <3>5. QED
      BY <3>1, <3>4
  <2> HIDE DEF P
  <2>3. \A k \in 0 .. n : k \in P
    BY <1>1, <2>1, <2>2, Upward
  <2>4. QED
    BY <2>3 DEF P
<1>12. f \in [0 .. n -> Decoders]
  BY <1>11
<1> HIDE DEF f
<1>13. Steps(f, S)
  BY <1>9, <1>10, <1>12 DEF Steps, n
<1>14. QED
  BY <1>2, <1>9, <1>13 DEF n

(* Five records of one message, decoded in turn, add its journey. *)
AreRecords(r1, r2, r3, r4, r5, s) ==
  /\ r1 \in Records /\ r2 \in Records /\ r3 \in Records /\ r4 \in Records /\ r5 \in Records
  /\ r1.ev = "wire_rx" /\ r2.ev = "decoded" /\ r3.ev = "book_applied"
  /\ r4.ev = "signal" /\ r5.ev = "order_sent" /\ r1.a = s
AreDecoded(d, d1, d2, d3, d4, d5, r1, r2, r3, r4, r5) ==
  /\ d1 = Decode(d, r1) /\ d2 = Decode(d1, r2) /\ d3 = Decode(d2, r3)
  /\ d4 = Decode(d3, r4) /\ d5 = Decode(d4, r5)

LEMMA OneMessage ==
  ASSUME NEW d, d \in Decoders, NEW s, NEW r1, NEW r2, NEW r3, NEW r4, NEW r5,
         AreRecords(r1, r2, r3, r4, r5, s), r1.tsc # 0, r2.tsc >= r1.tsc,
         NEW d1, NEW d2, NEW d3, NEW d4, NEW d5,
         AreDecoded(d, d1, d2, d3, d4, d5, r1, r2, r3, r4, r5)
  PROVE  /\ d5.rx = 0
         /\ d5.done = Append(d.done,
              [seq |-> s, decode |-> r2.tsc - r1.tsc, book |-> r3.tsc - r2.tsc,
               strat |-> r4.tsc - r3.tsc, send |-> r5.tsc - r4.tsc, total |-> r5.tsc - r1.tsc])
<1>a. /\ r1 \in Records /\ r2 \in Records /\ r3 \in Records /\ r4 \in Records /\ r5 \in Records
      /\ r1.ev = "wire_rx" /\ r2.ev = "decoded" /\ r3.ev = "book_applied"
      /\ r4.ev = "signal" /\ r5.ev = "order_sent" /\ r1.a = s
  BY DEF AreRecords
<1>b. /\ d1 = Decode(d, r1) /\ d2 = Decode(d1, r2) /\ d3 = Decode(d2, r3)
      /\ d4 = Decode(d3, r4) /\ d5 = Decode(d4, r5)
  BY DEF AreDecoded
<1>1. d1 \in Decoders /\ d1.rx = r1.tsc /\ d1.done = d.done
      /\ d1.cur = [NoJourney EXCEPT !.seq = s]
  BY <1>a, <1>b, DecodeIs
<1>2. d2 = [d1 EXCEPT !.dec = r2.tsc] /\ d2 \in Decoders
  BY <1>a, <1>b, <1>1, DecodeIs
<1>3. d2.rx = r1.tsc /\ d2.done = d.done /\ d2.cur = d1.cur /\ d2.dec = r2.tsc
  BY <1>1, <1>2 DEF Decoders
<1>4. d3 = [d2 EXCEPT !.book = r3.tsc] /\ d3 \in Decoders
  BY <1>a, <1>b, <1>2, DecodeIs
<1>5. d3.rx = r1.tsc /\ d3.done = d.done /\ d3.cur = d1.cur /\ d3.dec = r2.tsc /\ d3.book = r3.tsc
  BY <1>2, <1>3, <1>4 DEF Decoders
<1>6. d4 = [d3 EXCEPT !.sig = r4.tsc] /\ d4 \in Decoders
  BY <1>a, <1>b, <1>4, DecodeIs
<1>7. /\ d4.rx = r1.tsc /\ d4.done = d.done /\ d4.cur = d1.cur /\ d4.dec = r2.tsc
      /\ d4.book = r3.tsc /\ d4.sig = r4.tsc
  BY <1>4, <1>5, <1>6 DEF Decoders
<1>8. d5.rx = 0 /\ d5.done = Append(d4.done, Journey(d4, r5.tsc))
  BY <1>a, <1>b, <1>6, <1>7, DecodeIs
<1>9. d4.cur.seq = s
  BY <1>1, <1>7 DEF NoJourney
<1>10. r5.tsc \in Nat
  BY <1>a DEF Records
<1>11. Journey(d4, r5.tsc) =
         [seq |-> s, decode |-> r2.tsc - r1.tsc, book |-> r3.tsc - r2.tsc,
          strat |-> r4.tsc - r3.tsc, send |-> r5.tsc - r4.tsc, total |-> r5.tsc - r1.tsc]
  <2>1. Journey(d4, r5.tsc) =
          [seq |-> d4.cur.seq, decode |-> d4.dec - d4.rx, book |-> d4.book - d4.dec,
           strat |-> d4.sig - d4.book, send |-> r5.tsc - d4.sig, total |-> r5.tsc - d4.rx]
    BY <1>6, <1>10, JourneyIs
  <2>2. QED
    BY ONLY <2>1, <1>7, <1>9
<1>12. QED
  BY <1>7, <1>8, <1>11

(* How much of the feed the ring still holds when it has ended. *)
LEMMA KeptIs ==
  /\ Kept \in Nat /\ Kept <= 5 * Messages /\ Kept <= kRingSlots
  /\ Whole \in 0 .. Messages /\ Kept - 5 * Whole \in 0 .. 4
  /\ (Kept # 5 * Messages => Kept = kRingSlots)
<1>1. kRingSlots \in Nat \ {0} /\ Messages \in Nat
  BY TraceConstants
<1>2. Kept \in Nat /\ Kept <= 5 * Messages /\ Kept <= kRingSlots
      /\ (Kept # 5 * Messages => Kept = kRingSlots)
  BY <1>1 DEF Kept
<1>3. Whole \in 0 .. Messages /\ Kept - 5 * Whole \in 0 .. 4
  BY <1>1, <1>2 DEF Whole
<1>4. QED
  BY <1>2, <1>3

LEMMA SnapshotIs ==
  ASSUME TraceInv, seq > Messages
  PROVE  /\ Len(written) = 5 * Messages
         /\ Snapshot \in Seq(Records) /\ Len(Snapshot) = Kept
         /\ \A k \in 1 .. Kept : Snapshot[k] = written[5 * Messages - Kept + k]
         /\ \A n \in 1 .. 5 * Messages : written[n] \in Records
<1>1. /\ seq = Messages + 1 /\ doing = "wire_rx" /\ Messages \in Nat
      /\ Len(written) = 5 * (seq - 1) + PutOfIt[doing] /\ RecordsRight
      /\ written \in Seq([tsc : Nat, ev : DOMAIN Follows, a : Nat])
  BY TraceConstants DEF TraceInv, TraceTypes
<1>2. Len(written) = 5 * Messages
  <2>1. PutOfIt[doing] = 0
    BY <1>1, Stages
  <2>2. QED
    BY <1>1, <2>1
<1>3. \A n \in 1 .. 5 * Messages : written[n] \in Records
  <2>1. SUFFICES ASSUME NEW n \in 1 .. 5 * Messages PROVE written[n] \in Records
    OBVIOUS
  <2>2. PICK s \in 1 .. Messages, r \in 1 .. 5 : n = Index(s, r)
    <3> DEFINE s == ((n - 1) \div 5) + 1
               r == n - 5 * (s - 1)
    <3>1. s \in 1 .. Messages /\ r \in 1 .. 5
      BY <1>1
    <3> HIDE DEF s
    <3>2. n = Index(s, r)
      BY <3>1, <1>1 DEF Index
    <3> HIDE DEF r
    <3>3. QED
      BY <3>1, <3>2
  <2>3. written[n].ev = Events[r]
    <3>1. Index(s, r) <= Len(written) /\ RecordsRight
      BY <1>1, <1>2, <2>2
    <3>2. QED
      BY <2>2, <3>1 DEF RecordsRight
  <2>4. Events[r] \in {"wire_rx", "decoded", "book_applied", "signal", "order_sent"}
    <3>1. r = 1 \/ r = 2 \/ r = 3 \/ r = 4 \/ r = 5
      OBVIOUS
    <3>2. QED
      BY <3>1 DEF Events
  <2>5. written[n] \in [tsc : Nat, ev : DOMAIN Follows, a : Nat]
    BY <1>1, <1>2, ElementOfSeq
  <2>6. QED
    BY <2>3, <2>4, <2>5 DEF Records
<1>4. Snapshot = SubSeq(written, 5 * Messages - Kept + 1, 5 * Messages)
  <2>1. (IF Len(written) < kRingSlots THEN Len(written) ELSE kRingSlots) = Kept
    BY <1>2 DEF Kept
  <2>2. QED
    BY <1>2, <2>1 DEF Snapshot
<1>5. Kept \in Nat /\ Kept <= 5 * Messages
  BY KeptIs
<1>6. /\ Len(Snapshot) = Kept
      /\ \A k \in 1 .. Kept : Snapshot[k] = written[5 * Messages - Kept + k]
      /\ Snapshot \in Seq(Records)
  <2> DEFINE lo == 5 * Messages - Kept + 1
             hi == 5 * Messages
  <2>1. lo \in Int /\ hi \in Int /\ hi - lo + 1 = Kept /\ (lo <= hi <=> Kept # 0)
    BY <1>1, <1>5
  <2>2. Snapshot = SubSeq(written, lo, hi)
    BY <1>4
  <2>3. \A k \in lo .. hi : written[k] \in Records
    <3>1. lo .. hi \subseteq 1 .. 5 * Messages
      BY <1>1, <1>5
    <3>2. QED
      BY <1>3, <3>1
  <2>4. \A k \in 1 .. Kept : lo + k - 1 = 5 * Messages - Kept + k
    BY <1>1, <1>5
  <2> HIDE DEF lo, hi
  <2>5. /\ SubSeq(written, lo, hi) \in Seq(Records)
        /\ Len(SubSeq(written, lo, hi)) = IF lo <= hi THEN hi - lo + 1 ELSE 0
        /\ \A k \in 1 .. hi - lo + 1 : SubSeq(written, lo, hi)[k] = written[lo + k - 1]
    BY <2>1, <2>3, SubSeqProperties
  <2>6. Len(Snapshot) = Kept
    BY <2>1, <2>2, <2>5
  <2>7. \A k \in 1 .. Kept : Snapshot[k] = written[5 * Messages - Kept + k]
    BY <2>1, <2>2, <2>4, <2>5
  <2>8. QED
    BY <2>2, <2>5, <2>6, <2>7
<1>8. QED
  BY <1>2, <1>3, <1>6

(* The decoder passes over the rest of a message that was cut off, then takes one journey *)
(* from every five records. *)
LEMMA AssembledIs ==
  ASSUME TraceInv, seq > Messages
  PROVE  FoldLeft(Decode, Start, Snapshot).done = Assembled
<1> DEFINE skip == Kept - 5 * Whole
<1>1. /\ Len(written) = 5 * Messages /\ Snapshot \in Seq(Records) /\ Len(Snapshot) = Kept
      /\ \A k \in 1 .. Kept : Snapshot[k] = written[5 * Messages - Kept + k]
      /\ \A n \in 1 .. 5 * Messages : written[n] \in Records
  BY SnapshotIs
<1>2. /\ Messages \in Nat /\ Kept \in Nat /\ Kept <= 5 * Messages /\ Whole \in 0 .. Messages
      /\ skip \in 0 .. 4 /\ Kept = skip + 5 * Whole
  BY TraceConstants, KeptIs
<1> HIDE DEF skip
<1>3. PICK f : Steps(f, Snapshot) /\ FoldLeft(Decode, Start, Snapshot) = f[Len(Snapshot)]
  BY <1>1, DecodedIs
<1>4. /\ f \in [0 .. Kept -> Decoders] /\ f[0] = Start
      /\ \A k \in 1 .. Kept : f[k] = Decode(f[k - 1], Snapshot[k])
  BY <1>1, <1>3 DEF Steps
<1>5. /\ RecordsRight /\ (\A s \in 1 .. Messages : Timed(s))
      /\ spent \in [1 .. Messages -> [Work -> Nat]]
  <2>1. \A s \in 1 .. Messages : s < seq
    BY <1>2 DEF TraceInv, TraceTypes
  <2>2. QED
    BY <2>1 DEF TraceInv, TraceTypes
<1>6. \A k \in 0 .. skip : f[k].rx = 0 /\ f[k].done = << >>
  <2> DEFINE P == {k \in 0 .. skip : f[k].rx = 0 /\ f[k].done = << >>}
  <2>1. 0 \in P
    BY <1>2, <1>4 DEF Start
  <2>2. ASSUME NEW k \in 0 .. skip - 1, k \in P PROVE k + 1 \in P
    <3>1. k + 1 \in 1 .. Kept /\ (k + 1) - 1 = k /\ k \in 0 .. Kept /\ k + 1 \in 0 .. skip
      BY <1>2
    <3> DEFINE s == Messages - Whole
               r == 5 - skip + k + 1
    <3>2. /\ s \in 1 .. Messages /\ r \in 2 .. 5 /\ Index(s, r) = 5 * Messages - Kept + (k + 1)
          /\ Index(s, r) <= 5 * Messages
      BY <1>2 DEF Index
    <3> HIDE DEF s, r
    <3>3. Snapshot[k + 1] = written[Index(s, r)] /\ Snapshot[k + 1] \in Records
      <4>1. Index(s, r) \in 1 .. 5 * Messages
        BY <1>2, <3>2 DEF Index
      <4>2. QED
        BY <1>1, <3>1, <3>2, <4>1
    <3>4. Snapshot[k + 1].ev = Events[r]
      <4>1. r \in 1 .. 5
        BY <3>2
      <4>2. QED
        BY <1>1, <1>5, <3>2, <3>3, <4>1 DEF RecordsRight
    <3>5. Events[r] \in {"decoded", "book_applied", "signal", "order_sent"}
      <4>1. r = 2 \/ r = 3 \/ r = 4 \/ r = 5
        BY <3>2
      <4>2. QED
        BY <4>1 DEF Events
    <3>6. f[k + 1] = Decode(f[k], Snapshot[k + 1]) /\ f[k] \in Decoders
          /\ f[k].rx = 0 /\ f[k].done = << >>
      BY <1>4, <2>2, <3>1
    <3>7. PICK d, e, q : d = f[k] /\ e = f[k + 1] /\ q = Snapshot[k + 1]
      OBVIOUS
    <3>8. /\ d \in Decoders /\ q \in Records /\ e = Decode(d, q) /\ d.rx = 0 /\ d.done = << >>
          /\ q.ev \in {"decoded", "book_applied", "signal", "order_sent"}
      BY <3>3, <3>4, <3>5, <3>6, <3>7
    <3>9. e.rx = 0 /\ e.done = << >>
      <4>1. CASE q.ev = "order_sent"
        BY <3>8, <4>1, DecodeIs
      <4>2. CASE q.ev = "decoded"
        <5>1. e = [d EXCEPT !.dec = q.tsc]
          BY <3>8, <4>2, DecodeIs
        <5>2. QED
          BY <3>8, <5>1 DEF Decoders
      <4>3. CASE q.ev = "book_applied"
        <5>1. e = [d EXCEPT !.book = q.tsc]
          BY <3>8, <4>3, DecodeIs
        <5>2. QED
          BY <3>8, <5>1 DEF Decoders
      <4>4. CASE q.ev = "signal"
        <5>1. e = [d EXCEPT !.sig = q.tsc]
          BY <3>8, <4>4, DecodeIs
        <5>2. QED
          BY <3>8, <5>1 DEF Decoders
      <4>5. QED
        BY <3>8, <4>1, <4>2, <4>3, <4>4
    <3>10. QED
      BY <3>1, <3>7, <3>9
  <2> HIDE DEF P
  <2>3. \A k \in 0 .. skip : k \in P
    BY <1>2, <2>1, <2>2, Upward
  <2>4. QED
    BY <2>3 DEF P
<1> DEFINE Done(j) == [n \in 1 .. j |-> JourneyOf(Messages - Whole + n)]
<1>7. \A j \in 0 .. Whole : f[skip + 5 * j].rx = 0 /\ f[skip + 5 * j].done = Done(j)
  <2> DEFINE P == {j \in 0 .. Whole : f[skip + 5 * j].rx = 0 /\ f[skip + 5 * j].done = Done(j)}
  <2>1. 0 \in P
    <3>1. Done(0) = << >>
      OBVIOUS
    <3>2. skip + 5 * 0 = skip /\ skip \in 0 .. skip /\ 0 \in 0 .. Whole
      BY <1>2
    <3>3. QED
      BY <1>6, <3>1, <3>2
  <2>2. ASSUME NEW j \in 0 .. Whole - 1, j \in P PROVE j + 1 \in P
    <3> DEFINE k == skip + 5 * j
               s == Messages - Whole + (j + 1)
    <3>1. /\ k \in Nat /\ k + 5 <= Kept /\ k + 5 = skip + 5 * (j + 1)
          /\ s \in 1 .. Messages /\ s \in Nat /\ j + 1 \in 0 .. Whole
          /\ \A r \in 1 .. 5 : /\ k + r \in 1 .. Kept /\ k + r - 1 \in 0 .. Kept
                               /\ Index(s, r) = 5 * Messages - Kept + (k + r)
                               /\ Index(s, r) \in 1 .. 5 * Messages
      BY <1>2 DEF Index
    <3>2. f[k].rx = 0 /\ f[k].done = Done(j)
      BY <2>2
    <3> HIDE DEF k, s, Done
    <3>3. \A r \in 1 .. 5 : /\ Snapshot[k + r] = written[Index(s, r)]
                            /\ Snapshot[k + r] \in Records
                            /\ Snapshot[k + r].ev = Events[r] /\ Snapshot[k + r].a = s
                            /\ Snapshot[k + r].tsc = Stamp(s, r) /\ Stamp(s, r) \in Nat \ {0}
      <4>1. TAKE r \in 1 .. 5
      <4>2. Snapshot[k + r] = written[Index(s, r)] /\ Snapshot[k + r] \in Records
        BY <1>1, <3>1
      <4>3. Index(s, r) <= Len(written)
        BY <1>1, <1>2, <3>1
      <4>4. s \in 1 .. Messages /\ RecordsRight
        BY <1>5, <3>1
      <4>5. written[Index(s, r)].ev = Events[r] /\ written[Index(s, r)].a = s
            /\ Stamp(s, r) \in Nat \ {0}
        BY <4>3, <4>4 DEF RecordsRight
      <4>6. Stamp(s, r) = written[Index(s, r)].tsc
        BY DEF Stamp
      <4>7. QED
        BY <4>2, <4>5, <4>6
    <3>4. PICK r1, r2, r3, r4, r5 : /\ r1 = Snapshot[k + 1] /\ r2 = Snapshot[k + 2]
                                    /\ r3 = Snapshot[k + 3] /\ r4 = Snapshot[k + 4]
                                    /\ r5 = Snapshot[k + 5]
      OBVIOUS
    <3>5. PICK d, d1, d2, d3, d4, d5 : /\ d = f[k] /\ d1 = f[k + 1] /\ d2 = f[k + 2]
                                       /\ d3 = f[k + 3] /\ d4 = f[k + 4] /\ d5 = f[k + 5]
      OBVIOUS
    <3>6. /\ 1 \in 1 .. 5 /\ 2 \in 1 .. 5 /\ 3 \in 1 .. 5 /\ 4 \in 1 .. 5 /\ 5 \in 1 .. 5
          /\ Events[1] = "wire_rx" /\ Events[2] = "decoded" /\ Events[3] = "book_applied"
          /\ Events[4] = "signal" /\ Events[5] = "order_sent"
      BY DEF Events
    <3>7. /\ r1 \in Records /\ r2 \in Records /\ r3 \in Records /\ r4 \in Records /\ r5 \in Records
          /\ r1.ev = "wire_rx" /\ r2.ev = "decoded" /\ r3.ev = "book_applied"
          /\ r4.ev = "signal" /\ r5.ev = "order_sent" /\ r1.a = s
      BY <3>3, <3>4, <3>6
    <3>8. /\ r1.tsc = Stamp(s, 1) /\ r2.tsc = Stamp(s, 2) /\ r3.tsc = Stamp(s, 3)
          /\ r4.tsc = Stamp(s, 4) /\ r5.tsc = Stamp(s, 5)
          /\ Stamp(s, 1) \in Nat \ {0} /\ Stamp(s, 2) \in Nat /\ Stamp(s, 3) \in Nat
          /\ Stamp(s, 4) \in Nat /\ Stamp(s, 5) \in Nat
      BY <3>3, <3>4, <3>6
    <3>9. /\ d1 = Decode(d, r1) /\ d2 = Decode(d1, r2) /\ d3 = Decode(d2, r3)
          /\ d4 = Decode(d3, r4) /\ d5 = Decode(d4, r5)
      <4>1. \A r \in 1 .. 5 : f[k + r] = Decode(f[k + r - 1], Snapshot[k + r])
        <5>1. TAKE r \in 1 .. 5
        <5>2. PICK n : n = k + r
          OBVIOUS
        <5>3. n \in 1 .. Kept
          BY <3>1, <5>2
        <5>4. f[n] = Decode(f[n - 1], Snapshot[n])
          BY <1>4, <5>3
        <5>5. k + r - 1 = n - 1
          <6>1. k \in Nat
            BY <3>1
          <6>2. QED
            BY ONLY <5>2, <6>1
        <5>6. QED
          BY ONLY <5>2, <5>4, <5>5
      <4>2. /\ k + 1 - 1 = k /\ k + 2 - 1 = k + 1 /\ k + 3 - 1 = k + 2 /\ k + 4 - 1 = k + 3
            /\ k + 5 - 1 = k + 4
        BY <3>1
      <4>3. /\ f[k + 1] = Decode(f[k], Snapshot[k + 1]) /\ f[k + 2] = Decode(f[k + 1], Snapshot[k + 2])
            /\ f[k + 3] = Decode(f[k + 2], Snapshot[k + 3])
            /\ f[k + 4] = Decode(f[k + 3], Snapshot[k + 4])
            /\ f[k + 5] = Decode(f[k + 4], Snapshot[k + 5])
        BY <3>6, <4>1, <4>2
      <4>4. QED
        BY <3>4, <3>5, <4>3
    <3>10. d \in Decoders /\ d.rx = 0 /\ d.done = Done(j)
      <4>1. k \in 0 .. Kept
        BY <1>2, <3>1
      <4>2. QED
        BY <1>4, <3>2, <3>5, <4>1
    <3>11. PICK c : c = spent[s]
      OBVIOUS
    <3>12. /\ c.decode \in Nat /\ c.book \in Nat /\ c.strat \in Nat /\ c.send \in Nat
      BY <1>5, <3>1, <3>11 DEF Work
    <3>13. /\ r2.tsc = r1.tsc + c.decode + c.book /\ r3.tsc = r2.tsc
           /\ r4.tsc = r3.tsc + c.strat /\ r5.tsc = r4.tsc + c.send
      BY <1>5, <3>1, <3>8, <3>11 DEF Timed, Timed3, Timed2, Timed1
    <3>14. r1.tsc # 0 /\ r2.tsc >= r1.tsc
      BY <3>8, <3>12, <3>13
    <3>15. /\ d5.rx = 0
           /\ d5.done = Append(d.done,
                [seq |-> s, decode |-> r2.tsc - r1.tsc, book |-> r3.tsc - r2.tsc,
                 strat |-> r4.tsc - r3.tsc, send |-> r5.tsc - r4.tsc, total |-> r5.tsc - r1.tsc])
      <4>1. AreRecords(r1, r2, r3, r4, r5, s)
        BY <3>7 DEF AreRecords
      <4>2. AreDecoded(d, d1, d2, d3, d4, d5, r1, r2, r3, r4, r5)
        BY <3>9 DEF AreDecoded
      <4>3. QED
        BY ONLY <3>10, <3>14, <4>1, <4>2, OneMessage
    <3>16. /\ r2.tsc - r1.tsc = c.decode + c.book /\ r3.tsc - r2.tsc = 0
           /\ r4.tsc - r3.tsc = c.strat /\ r5.tsc - r4.tsc = c.send
           /\ r5.tsc - r1.tsc = c.decode + c.book + c.strat + c.send
      <4>1. PICK t1, t2, t3, t4, t5 : /\ t1 = r1.tsc /\ t2 = r2.tsc /\ t3 = r3.tsc /\ t4 = r4.tsc
                                      /\ t5 = r5.tsc
        OBVIOUS
      <4>2. PICK w1, w2, w3, w4 : /\ w1 = c.decode /\ w2 = c.book /\ w3 = c.strat /\ w4 = c.send
        OBVIOUS
      <4>3. /\ t1 \in Nat /\ w1 \in Nat /\ w2 \in Nat /\ w3 \in Nat /\ w4 \in Nat
            /\ t2 = t1 + w1 + w2 /\ t3 = t2 /\ t4 = t3 + w3 /\ t5 = t4 + w4
        BY <3>8, <3>12, <3>13, <4>1, <4>2
      <4>4. /\ t2 - t1 = w1 + w2 /\ t3 - t2 = 0 /\ t4 - t3 = w3 /\ t5 - t4 = w4
            /\ t5 - t1 = w1 + w2 + w3 + w4
        BY ONLY <4>3
      <4>5. QED
        BY ONLY <4>1, <4>2, <4>4
    <3>17. d5.done = Append(Done(j), JourneyOf(s))
      BY <3>10, <3>11, <3>15, <3>16 DEF JourneyOf
    <3>18. Append(Done(j), JourneyOf(s)) = Done(j + 1)
      <4>1. Done(j + 1) = [n \in 1 .. j + 1 |-> JourneyOf(Messages - Whole + n)]
            /\ Done(j) = [n \in 1 .. j |-> JourneyOf(Messages - Whole + n)]
            /\ JourneyOf(s) = JourneyOf(Messages - Whole + (j + 1)) /\ j \in Nat
        BY <1>2 DEF Done, s
      <4>2. QED
        BY <4>1
    <3>19. f[skip + 5 * (j + 1)].rx = 0 /\ f[skip + 5 * (j + 1)].done = Done(j + 1)
      <4>1. skip + 5 * (j + 1) = k + 5
        BY <3>1
      <4>2. QED
        BY <3>5, <3>15, <3>17, <3>18, <4>1
    <3>20. QED
      BY <3>1, <3>19
  <2> HIDE DEF P, Done
  <2>3. \A j \in 0 .. Whole : j \in P
    <3>1. Whole \in Nat
      BY <1>2
    <3>2. QED
      BY <2>1, <2>2, <3>1, Upward
  <2>4. QED
    BY <2>3 DEF P
<1>8. f[Kept].done = Done(Whole)
  <2>1. Whole \in 0 .. Whole /\ skip + 5 * Whole = Kept
    BY <1>2
  <2> HIDE DEF Done
  <2>2. QED
    BY <1>7, <2>1
<1>9. QED
  BY <1>1, <1>3, <1>8 DEF Assembled

LEMMA AssembleKeeps ==
  ASSUME TraceInv, Assemble
  PROVE  TraceInv'
<1>1. /\ seq > Messages /\ journeys' = Assembled
      /\ tsc' = tsc /\ seq' = seq /\ doing' = doing /\ written' = written /\ spent' = spent
  BY AssembledIs DEF Assemble
<1>2. Assembled' = Assembled
  BY <1>1 DEF Assembled, JourneyOf, Whole, Kept
<1>3. TraceTypes' /\ RecordsRight'
  BY <1>1 DEF TraceInv, TraceTypes, RecordsRight, Stamp, Index
<1>4. \A s \in 1 .. Messages : s < seq' => Timed(s)'
  BY <1>1 DEF TraceInv, Timed, Timed3, Timed2, Timed1, Stamp, Index
<1>5. ~(seq <= Messages)
  BY <1>1, TraceConstants DEF TraceInv, TraceTypes
<1>6. QED
  BY <1>1, <1>2, <1>3, <1>4, <1>5 DEF TraceInv

LEMMA StepTrace == TraceInv /\ [TraceNext]_trace => TraceInv'
<1> SUFFICES ASSUME TraceInv, [TraceNext]_trace PROVE TraceInv'
  OBVIOUS
<1>1. ASSUME UNCHANGED trace PROVE TraceInv'
  <2>1. /\ tsc' = tsc /\ seq' = seq /\ doing' = doing /\ written' = written /\ spent' = spent
        /\ journeys' = journeys
    BY <1>1 DEF trace
  <2>2. Assembled' = Assembled
    BY <2>1 DEF Assembled, JourneyOf, Whole, Kept
  <2>3. TraceTypes' /\ RecordsRight'
    BY <2>1 DEF TraceInv, TraceTypes, RecordsRight, Stamp, Index
  <2>4. \A s \in 1 .. Messages : s < seq' => Timed(s)'
    BY <2>1 DEF TraceInv, Timed, Timed3, Timed2, Timed1, Stamp, Index
  <2>5. (seq <= Messages => InHand(seq))'
    BY <2>1 DEF TraceInv, InHand, Timed, Timed3, Timed2, Timed1, Stamp, Index
  <2>6. QED
    BY <2>1, <2>2, <2>3, <2>4, <2>5 DEF TraceInv
<1>2. QED
  BY <1>1, RunKeeps, PutKeepsTrace, AssembleKeeps DEF TraceNext

LEMMA TrueFromAssembled == TraceInv => JourneysTrue
<1> SUFFICES ASSUME TraceInv PROVE JourneysTrue
  OBVIOUS
<1>0. /\ Messages \in Nat /\ Kept \in Nat /\ Kept <= 5 * Messages /\ Whole \in 0 .. Messages
      /\ Kept - 5 * Whole \in 0 .. 4 /\ Kept <= kRingSlots
      /\ (Kept # 5 * Messages => Kept = kRingSlots) /\ kRingSlots \in Nat
  BY TraceConstants, KeptIs
<1>1. CASE journeys = << >>
  BY <1>1 DEF JourneysTrue, JourneysComplete, TotalsAreOwn
<1>2. CASE journeys # << >>
  <2>1. journeys = Assembled /\ Len(journeys) = Whole /\ DOMAIN journeys = 1 .. Whole
        /\ \A n \in 1 .. Whole : journeys[n] = JourneyOf(Messages - Whole + n)
    <3>1. journeys = Assembled
      BY <1>2 DEF TraceInv
    <3>2. journeys = [n \in 1 .. Whole |-> JourneyOf(Messages - Whole + n)]
      BY <3>1 DEF Assembled
    <3>3. Whole \in Nat
      BY <1>0
    <3>4. QED
      BY <3>1, <3>2, <3>3
  <2>2. Cardinality(WholeMessages) = Whole
    <3>1. WholeMessages = Messages - Whole + 1 .. Messages
      BY <1>0 DEF WholeMessages
    <3>2. Cardinality(Messages - Whole + 1 .. Messages) = Messages - (Messages - Whole + 1) + 1
      <4>1. Messages - Whole + 1 \in Int /\ Messages \in Int /\ ~(Messages - Whole + 1 > Messages + 1)
        BY <1>0
      <4>2. CASE Whole = 0
        <5>1. Messages - Whole + 1 .. Messages = {}
          BY <1>0, <4>2
        <5>2. QED
          BY <1>0, <4>2, <5>1, FS_EmptySet
      <4>3. CASE Whole # 0
        <5>1. ~(Messages - Whole + 1 > Messages)
          BY <1>0, <4>3
        <5>2. QED
          BY <4>1, <5>1, FS_Interval
      <4>4. QED
        BY <4>2, <4>3
    <3>3. QED
      BY <1>0, <3>1, <3>2
  <2>3. ASSUME NEW n \in 1 .. Whole
        PROVE  /\ journeys[n].seq = Messages - Whole + n
               /\ journeys[n].total = spent[journeys[n].seq].decode + spent[journeys[n].seq].book
                                       + spent[journeys[n].seq].strat + spent[journeys[n].seq].send
               /\ journeys[n].decode = spent[journeys[n].seq].decode + spent[journeys[n].seq].book
               /\ journeys[n].book = 0
               /\ journeys[n].strat = spent[journeys[n].seq].strat
               /\ journeys[n].send = spent[journeys[n].seq].send
    <3>1. PICK s : s = Messages - Whole + n
      OBVIOUS
    <3>2. journeys[n] = JourneyOf(s)
      BY <2>1, <3>1
    <3>3. journeys[n].seq = s
      BY <3>2 DEF JourneyOf
    <3>4. QED
      BY <3>1, <3>2, <3>3 DEF JourneyOf
  <2>4. JourneysComplete
    BY <2>1, <2>2, <2>3 DEF JourneysComplete
  <2>5. TotalsAreOwn
    BY <2>1, <2>3 DEF TotalsAreOwn
  <2>6. QED
    BY <2>4, <2>5 DEF JourneysTrue
<1>3. QED
  BY <1>1, <1>2

(* What the dump reassembles is one journey for each message all of whose records the ring *)
(* still holds, in order and with that message's own times, for every size of the ring and *)
(* number of messages.                                                                     *)
THEOREM JourneysAlwaysTrue == TraceSpec => []JourneysTrue
<1>1. TraceSpec => []TraceInv
  BY InitTrace, StepTrace, PTL DEF TraceSpec
<1>2. QED
  BY <1>1, TrueFromAssembled, PTL
=============================================================================
