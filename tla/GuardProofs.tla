---------------------------- MODULE GuardProofs ----------------------------
(***************************************************************************)
(* What stands before and behind the book.  The sequence guard, whatever   *)
(* the line loses, repeats and reorders: as long as numbers do not wrap,   *)
(* its counters are exact, which ties expected_ to the greatest number     *)
(* delivered; a feed reported clean has given the book of the feed's own   *)
(* orders, and a lost message touches only the order it was about and those *)
(* for which the slots of cancelled orders are then missing.  The          *)
(* strategy and the risk gate, whatever the touch and the limits are and   *)
(* however orders are refused and filled: a quote lies inside the touch,   *)
(* the position stays within one clip, a filled quote is replaced, and a   *)
(* second sees at most two windows of orders.                              *)
(***************************************************************************)
EXTENDS LossyFeed, Quoting, SequenceTheorems, DataLemmas

-----------------------------------------------------------------------------
(* The sequence guard. *)

(* No number of the feed, nor the one expected after it, exceeds the word. *)
NoWrap == MaxMessage + 1 < SeqWord

(* expected_ is one past the greatest number delivered, which got ahead when it came. *)
ExpectsNext ==
  /\ delivered = << >> <=> expected_ = 0
  /\ delivered # << >> => /\ \E i \in Ahead : delivered[i] = expected_ - 1
                          /\ \A j \in DOMAIN delivered : delivered[j] <= expected_ - 1

GuardInv == GuardTypeOK /\ ExpectsNext /\ CountersExact

LEMMA InitGuard == NoWrap /\ GuardInit => GuardInv
<1> SUFFICES ASSUME NoWrap, GuardInit PROVE GuardInv
  OBVIOUS
<1>1. Ahead = {} /\ Skipped = {}
  BY DEF GuardInit, Ahead, Skipped
<1>2. Cardinality({}) = 0
  BY FS_EmptySet
<1>3. CountersExact
  BY <1>1, <1>2 DEF GuardInit, CountersExact
<1>4. GuardTypeOK /\ ExpectsNext
  BY GuardAssumption DEF GuardInit, GuardTypeOK, ExpectsNext, NoWrap
<1>5. QED
  BY <1>3, <1>4 DEF GuardInv

(* The number on the wire is the message's own. *)
LEMMA Unwrapped ==
  ASSUME NoWrap, NEW n \in 1 .. MaxMessage
  PROVE  n % SeqWord = n /\ After(n) = n + 1
<1>1. /\ n \in Nat /\ SeqWord \in Nat \ {0}
      /\ n < SeqWord /\ n + 1 < SeqWord
  BY GuardAssumption DEF NoWrap
<1>2. ASSUME NEW a \in Nat, a < SeqWord
      PROVE  a % SeqWord = a
  <2> DEFINE q == a \div SeqWord
             r == a % SeqWord
  <2>1. q \in Int /\ r \in 0 .. SeqWord - 1 /\ a = SeqWord * q + r
    BY <1>1
  <2> HIDE DEF q, r
  <2>2. CASE q >= 1
    <3>1. SeqWord * q >= SeqWord
      BY <1>1, <2>1, <2>2
    <3>2. QED
      BY <1>1, <1>2, <2>1, <3>1
  <2>3. CASE q <= -1
    <3>1. SeqWord * q <= - SeqWord
      BY <1>1, <2>1, <2>3
    <3>2. QED
      BY <1>1, <2>1, <3>1
  <2>4. CASE q = 0
    BY <1>1, <2>1, <2>4 DEF r
  <2>5. QED
    BY <2>1, <2>2, <2>3, <2>4
<1>3. QED
  BY <1>1, <1>2 DEF After

LEMMA Appended ==
  ASSUME GuardTypeOK, NEW n \in 1 .. MaxMessage, delivered' = Append(delivered, n)
  PROVE  /\ Len(delivered) \in Nat /\ DOMAIN delivered = 1 .. Len(delivered)
         /\ Len(delivered') = Len(delivered) + 1
         /\ DOMAIN delivered' = 1 .. Len(delivered) + 1
         /\ delivered'[Len(delivered) + 1] = n
         /\ \A j \in 1 .. Len(delivered) : /\ delivered'[j] = delivered[j]
                                           /\ delivered[j] \in 1 .. MaxMessage
         /\ delivered' # << >> /\ delivered' \in Seq(1 .. MaxMessage)
<1>1. delivered \in Seq(1 .. MaxMessage)
  BY DEF GuardTypeOK
<1>2. Len(delivered) \in Nat /\ DOMAIN delivered = 1 .. Len(delivered)
  BY <1>1
<1>3. \A j \in 1 .. Len(delivered) : delivered[j] \in 1 .. MaxMessage
  BY <1>1, LenProperties
<1>4. /\ delivered' \in Seq(1 .. MaxMessage) /\ delivered' # << >>
      /\ Len(delivered') = Len(delivered) + 1
      /\ delivered'[Len(delivered) + 1] = n
      /\ \A j \in 1 .. Len(delivered) : delivered'[j] = delivered[j]
  BY <1>1, AppendProperties
<1>5. DOMAIN delivered' = 1 .. Len(delivered) + 1
  <2>1. DOMAIN delivered' = 1 .. Len(delivered')
    BY <1>4, LenProperties
  <2>2. QED
    BY <1>4, <2>1
<1>6. QED
  BY <1>2, <1>3, <1>4, <1>5

LEMMA AheadFinite ==
  ASSUME GuardTypeOK
  PROVE  IsFiniteSet(Ahead) /\ Cardinality(Ahead) \in Nat /\ Ahead \subseteq DOMAIN delivered
<1>1. Ahead \subseteq 1 .. Len(delivered) /\ Len(delivered) \in Nat
      /\ DOMAIN delivered = 1 .. Len(delivered)
  BY DEF GuardTypeOK, Ahead
<1>2. IsFiniteSet(1 .. Len(delivered))
  BY <1>1, FS_Interval
<1>3. IsFiniteSet(Ahead)
  BY <1>1, <1>2, FS_Subset
<1>4. QED
  BY <1>1, <1>3, FS_CardinalityType

(* A message newer than all before it gets ahead. *)
LEMMA GetsAhead ==
  ASSUME GuardTypeOK, NEW n \in 1 .. MaxMessage, delivered' = Append(delivered, n), Newest(n)
  PROVE  /\ Ahead' = Ahead \cup {Len(delivered) + 1}
         /\ Cardinality(Ahead') = Cardinality(Ahead) + 1
<1> DEFINE len == Len(delivered)
<1>1. Ahead' \subseteq Ahead \cup {len + 1}
  <2>1. SUFFICES ASSUME NEW i \in Ahead', i # len + 1 PROVE i \in Ahead
    OBVIOUS
  <2>2. i \in 1 .. len /\ \A j \in 1 .. i - 1 : delivered'[j] < delivered'[i]
    BY <2>1, Appended DEF Ahead
  <2>3. \A j \in 1 .. i - 1 : j \in 1 .. len
    BY <2>2, Appended
  <2>4. QED
    BY <2>2, <2>3, Appended DEF Ahead
<1>2. Ahead \subseteq Ahead'
  <2>1. SUFFICES ASSUME NEW i \in Ahead PROVE i \in Ahead'
    OBVIOUS
  <2>2. i \in 1 .. len /\ \A j \in 1 .. i - 1 : delivered[j] < delivered[i]
    BY Appended DEF Ahead
  <2>3. \A j \in 1 .. i - 1 : j \in 1 .. len
    BY <2>2, Appended
  <2>4. QED
    BY <2>2, <2>3, Appended DEF Ahead
<1>3. len + 1 \in Ahead'
  <2>1. \A j \in 1 .. len : delivered'[j] < n
    BY Appended DEF Newest
  <2>2. len + 1 - 1 = len
    BY Appended
  <2>3. QED
    BY <2>1, <2>2, Appended DEF Ahead
<1>4. len + 1 \notin Ahead
  BY Appended DEF Ahead
<1>5. QED
  BY <1>1, <1>2, <1>3, <1>4, AheadFinite, FS_AddElement

(* One that is not newer changes neither who got ahead nor what was skipped. *)
LEMMA FallsBehind ==
  ASSUME GuardInv, NEW n \in 1 .. MaxMessage, delivered' = Append(delivered, n), n < expected_
  PROVE  Ahead' = Ahead /\ Skipped' = Skipped
<1> DEFINE len == Len(delivered)
<1>1. PICK top \in Ahead : delivered[top] = expected_ - 1
  BY DEF GuardInv, ExpectsNext
<1>2. top \in 1 .. len /\ expected_ \in Nat
  BY <1>1, AheadFinite, Appended, GuardAssumption DEF GuardInv, GuardTypeOK
<1>3. len + 1 \notin Ahead'
  <2>1. SUFFICES ASSUME \A j \in 1 .. len + 1 - 1 : delivered'[j] < delivered'[len + 1]
                 PROVE  FALSE
    BY DEF Ahead
  <2>2. delivered[top] < n
    BY <1>2, <2>1, Appended DEF GuardInv
  <2>3. QED
    BY <1>1, <1>2, <2>2
<1>4. ASSUME NEW i \in 1 .. len
      PROVE  i \in Ahead' <=> i \in Ahead
  <2>1. \A j \in 1 .. i - 1 : j \in 1 .. len
    BY Appended DEF GuardInv
  <2>2. QED
    BY <2>1, Appended DEF GuardInv, Ahead
<1>5. Ahead' = Ahead
  <2>1. Ahead \subseteq 1 .. len /\ Ahead' \subseteq 1 .. len + 1 /\ len \in Nat
    BY AheadFinite, Appended DEF GuardInv, Ahead
  <2>2. ASSUME NEW i, i \in Ahead' PROVE i \in Ahead
    <3>1. i \in 1 .. len
      BY <1>3, <2>1, <2>2
    <3>2. QED
      BY <1>4, <2>2, <3>1
  <2>3. ASSUME NEW i, i \in Ahead PROVE i \in Ahead'
    BY <1>4, <2>1, <2>3
  <2>4. QED
    BY <2>2, <2>3
<1>6. /\ delivered # << >> /\ delivered' # << >> /\ delivered'[1] = delivered[1]
      /\ \A i \in Ahead : delivered'[i] = delivered[i]
  BY <1>2, AheadFinite, Appended DEF GuardInv
<1>7. QED
  BY <1>5, <1>6 DEF Skipped

(* One that jumps ahead skips all the numbers from the expected one up to its own. *)
LEMMA Skips ==
  ASSUME GuardInv, NEW n \in 1 .. MaxMessage, delivered' = Append(delivered, n),
         expected_ # 0, expected_ <= n
  PROVE  Cardinality(Skipped') = Cardinality(Skipped) + (n - expected_)
<1> DEFINE len == Len(delivered)
           new == expected_ .. n - 1
<1>1. PICK top \in Ahead : delivered[top] = expected_ - 1
  BY DEF GuardInv, ExpectsNext
<1>2. top \in 1 .. len /\ expected_ \in Nat \ {0} /\ 1 \in 1 .. len /\ len \in Nat
  <2>1. top \in 1 .. len /\ len \in Nat
    BY <1>1, AheadFinite, Appended DEF GuardInv
  <2>2. QED
    BY <2>1, GuardAssumption DEF GuardInv, GuardTypeOK
<1>3. \A j \in 1 .. len : delivered[j] <= expected_ - 1 /\ delivered[j] \in Nat
  BY <1>2, Appended DEF GuardInv, ExpectsNext
<1>4. Ahead' = Ahead \cup {len + 1}
  <2>1. Newest(n)
    BY <1>2, <1>3, Appended DEF Newest, GuardInv
  <2>2. QED
    BY <2>1, GetsAhead DEF GuardInv
<1>5. /\ Ahead \subseteq 1 .. len /\ delivered # << >> /\ delivered' # << >>
      /\ delivered'[1] = delivered[1] /\ delivered'[len + 1] = n
      /\ \A i \in Ahead : delivered'[i] = delivered[i]
  BY <1>2, AheadFinite, Appended DEF GuardInv
<1>6. \A m \in Skipped : m \in Nat /\ m < expected_ - 1
  BY <1>2, <1>3, <1>5 DEF Skipped
<1>7. Skipped \cup new \subseteq Skipped'
  <2>1. ASSUME NEW m \in Skipped PROVE m \in Skipped'
    BY <1>2, <1>4, <1>5, <1>6 DEF Skipped
  <2>2. ASSUME NEW m \in new PROVE m \in Skipped'
    <3>1. m \in 1 .. MaxMessage /\ m >= expected_ /\ m < n
      BY <1>2, GuardAssumption
    <3>2. m > delivered[1] /\ \A i \in Ahead : delivered[i] # m
      BY <1>2, <1>3, <1>5, <3>1
    <3>3. QED
      BY <1>4, <1>5, <3>1, <3>2 DEF Skipped
  <2>3. QED
    BY <2>1, <2>2
<1>8. Skipped' \subseteq Skipped \cup new
  <2>1. SUFFICES ASSUME NEW m \in Skipped', m \notin new PROVE m \in Skipped
    OBVIOUS
  <2>2. /\ m \in 1 .. MaxMessage /\ m > delivered[1]
        /\ \E i \in Ahead' : delivered'[i] > m
        /\ \A i \in Ahead' : delivered'[i] # m
    BY <1>5 DEF Skipped
  <2>3. m < n
    BY <1>2, <1>3, <1>4, <1>5, <2>2
  <2>4. m < expected_ /\ m # delivered[top]
    BY <1>1, <1>2, <1>4, <1>5, <2>1, <2>2, <2>3
  <2>5. delivered[top] > m
    BY <1>1, <1>2, <2>2, <2>4
  <2>6. QED
    BY <1>1, <1>4, <1>5, <2>2, <2>5 DEF Skipped
<1>9. IsFiniteSet(Skipped) /\ Skipped \cap new = {}
  <2>1. IsFiniteSet(1 .. MaxMessage)
    BY FS_Interval, GuardAssumption
  <2>2. IsFiniteSet(Skipped)
    <3>1. Skipped \subseteq 1 .. MaxMessage
      BY DEF Skipped
    <3>2. QED
      BY <2>1, <3>1, FS_Subset
  <2>3. Skipped \cap new = {}
    BY <1>2, <1>6
  <2>4. QED
    BY <2>2, <2>3
<1>10. IsFiniteSet(new) /\ Cardinality(new) = n - expected_
  <2>1. expected_ \in Int /\ n - 1 \in Int /\ n \in Int
    BY <1>2
  <2>2. /\ IsFiniteSet(new)
        /\ Cardinality(new) = IF expected_ > n - 1 THEN 0 ELSE (n - 1) - expected_ + 1
    BY <2>1, FS_Interval
  <2>3. QED
    BY <2>1, <2>2
<1> HIDE DEF new
<1>11. Cardinality(Skipped \cup new) = Cardinality(Skipped) + Cardinality(new)
  <2>1. Cardinality(Skipped) \in Nat /\ Cardinality(new) \in Nat
    BY <1>9, <1>10, FS_CardinalityType
  <2>2. Cardinality(Skipped \cap new) = 0
    BY <1>9, FS_EmptySet
  <2>3. Cardinality(Skipped \cup new)
          = Cardinality(Skipped) + Cardinality(new) - Cardinality(Skipped \cap new)
    BY <1>9, <1>10, FS_Union
  <2>4. QED
    BY <2>1, <2>2, <2>3
<1>12. QED
  BY <1>7, <1>8, <1>10, <1>11

LEMMA SkippedFinite == IsFiniteSet(Skipped) /\ Cardinality(Skipped) \in Nat
<1>1. IsFiniteSet(1 .. MaxMessage)
  BY FS_Interval, GuardAssumption
<1>2. Skipped \subseteq 1 .. MaxMessage
  BY DEF Skipped
<1>3. IsFiniteSet(Skipped)
  BY <1>1, <1>2, FS_Subset
<1>4. QED
  BY <1>3, FS_CardinalityType

(* The first message only sets the guard. *)
LEMMA StartKeeps ==
  ASSUME NoWrap, GuardInv, NEW n \in 1 .. MaxMessage, Start(n), delivered' = Append(delivered, n)
  PROVE  GuardInv'
<1>1. delivered = << >> /\ expected_' = n + 1 /\ gaps_' = gaps_ /\ duplicates_' = duplicates_
      /\ verdict' = TRUE
  BY Unwrapped DEF Start, GuardInv, ExpectsNext
<1>2. delivered' = <<n>> /\ DOMAIN delivered' = {1} /\ delivered'[1] = n
      /\ Len(delivered') = 1 /\ delivered' # << >> /\ delivered' \in Seq(1 .. MaxMessage)
  <2>1. Append(<< >>, n) = <<n>>
    OBVIOUS
  <2>2. QED
    BY <1>1, <2>1
<1>3. Ahead' = {1} /\ Cardinality({1}) = 1
  <2>1. Ahead' = {1}
    BY <1>2 DEF Ahead
  <2>2. QED
    BY <2>1, FS_Singleton
<1>4. Skipped' = {} /\ Cardinality({}) = 0
  <2>1. Skipped' = {}
    BY <1>2, <1>3 DEF Skipped
  <2>2. QED
    BY <2>1, FS_EmptySet
<1>5. Ahead = {} /\ Skipped = {} /\ Len(delivered) = 0
  BY <1>1 DEF Ahead, Skipped
<1>6. gaps_ = 0 /\ duplicates_ = 0
  BY <1>4, <1>5 DEF GuardInv, CountersExact
<1>7. CountersExact'
  BY <1>1, <1>2, <1>3, <1>4, <1>6 DEF CountersExact
<1>8. GuardTypeOK'
  BY <1>1, <1>2, GuardAssumption DEF NoWrap, GuardInv, GuardTypeOK
<1>9. ExpectsNext'
  BY <1>1, <1>2, <1>3 DEF ExpectsNext
<1>10. QED
  BY <1>7, <1>8, <1>9 DEF GuardInv

(* The next message, or one that leaves a gap. *)
LEMMA AdvanceKeeps ==
  ASSUME NoWrap, GuardInv, NEW n \in 1 .. MaxMessage, InOrder(n) \/ Gap(n),
         delivered' = Append(delivered, n)
  PROVE  GuardInv'
<1>1. /\ expected_ # 0 /\ expected_ <= n /\ expected_' = n + 1 /\ verdict' \in BOOLEAN
      /\ gaps_' = gaps_ + (n - expected_) /\ duplicates_' = duplicates_
      /\ expected_ \in Nat /\ gaps_ \in Nat
  <2>1. n \in Nat /\ expected_ \in Nat /\ gaps_ \in Nat
    BY GuardAssumption DEF GuardInv, GuardTypeOK
  <2>2. CASE InOrder(n)
    <3>1. expected_ = n /\ After(expected_) = n + 1
      BY <2>2, Unwrapped DEF InOrder
    <3>2. QED
      BY <2>1, <2>2, <3>1 DEF InOrder
  <2>3. CASE Gap(n)
    <3>1. expected_' = n + 1
      BY <2>3, Unwrapped DEF Gap
    <3>2. expected_ < n /\ gaps_' = gaps_ + (n - expected_)
      BY <2>1, <2>3 DEF Gap
    <3>3. expected_ # 0 /\ verdict' \in BOOLEAN /\ duplicates_' = duplicates_
      BY <2>3 DEF Gap
    <3>4. expected_ <= n
      BY <2>1, <3>2
    <3>5. QED
      BY <2>1, <3>1, <3>2, <3>3, <3>4
  <2>4. QED
    BY <2>2, <2>3
<1>2. \A j \in DOMAIN delivered : delivered[j] < n /\ delivered[j] \in Nat
  BY <1>1, Appended DEF GuardInv, ExpectsNext
<1>3. Newest(n)
  BY <1>2 DEF Newest
<1>4. Ahead' = Ahead \cup {Len(delivered) + 1} /\ Cardinality(Ahead') = Cardinality(Ahead) + 1
  BY <1>3, GetsAhead DEF GuardInv
<1>5. CountersExact'
  <2>1. gaps_' = Cardinality(Skipped')
    BY <1>1, Skips DEF GuardInv, CountersExact
  <2>2. duplicates_' = Len(delivered') - Cardinality(Ahead')
    BY <1>1, <1>4, Appended, AheadFinite DEF GuardInv, CountersExact
  <2>3. QED
    BY <2>1, <2>2 DEF CountersExact
<1>6. GuardTypeOK'
  BY <1>1, Appended, GuardAssumption DEF NoWrap, GuardInv, GuardTypeOK
<1>7. ExpectsNext'
  <2>1. delivered'[Len(delivered) + 1] = expected_' - 1 /\ delivered' # << >>
    BY <1>1, Appended DEF GuardInv
  <2>2. \A j \in DOMAIN delivered' : delivered'[j] <= expected_' - 1
    BY <1>1, <1>2, Appended DEF GuardInv
  <2>3. QED
    BY <1>1, <1>4, <2>1, <2>2 DEF ExpectsNext
<1>8. QED
  BY <1>5, <1>6, <1>7 DEF GuardInv

LEMMA DuplicateKeeps ==
  ASSUME NoWrap, GuardInv, NEW n \in 1 .. MaxMessage, Duplicate(n), delivered' = Append(delivered, n)
  PROVE  GuardInv'
<1>1. /\ n < expected_ /\ expected_' = expected_ /\ gaps_' = gaps_ /\ verdict' = FALSE
      /\ duplicates_' = duplicates_ + 1 /\ expected_ \in Nat /\ expected_ # 0
  BY GuardAssumption DEF Duplicate, GuardInv, GuardTypeOK
<1>2. Ahead' = Ahead /\ Skipped' = Skipped
  BY <1>1, FallsBehind
<1>3. CountersExact'
  BY <1>1, <1>2, Appended, AheadFinite DEF GuardInv, CountersExact
<1>4. GuardTypeOK'
  <2>1. duplicates_' \in Nat
    BY <1>1 DEF GuardInv, GuardTypeOK
  <2>2. verdict' \in BOOLEAN
    BY <1>1
  <2>3. delivered' \in Seq(1 .. MaxMessage)
    BY Appended DEF GuardInv
  <2>4. QED
    BY <1>1, <2>1, <2>2, <2>3 DEF GuardInv, GuardTypeOK
<1>5. ExpectsNext'
  <2>1. PICK i \in Ahead : delivered[i] = expected_ - 1
    BY <1>1 DEF GuardInv, ExpectsNext
  <2>2. i \in Ahead' /\ delivered'[i] = expected_' - 1
    BY <1>1, <1>2, <2>1, Appended, AheadFinite DEF GuardInv
  <2>3. \A j \in DOMAIN delivered' : delivered'[j] <= expected_' - 1
    BY <1>1, Appended DEF GuardInv, ExpectsNext
  <2>4. QED
    BY <1>1, <2>2, <2>3, Appended DEF GuardInv, ExpectsNext
<1>6. QED
  BY <1>3, <1>4, <1>5 DEF GuardInv

LEMMA StepGuard == NoWrap /\ GuardInv /\ [GuardNext]_guardVars => GuardInv'
<1> SUFFICES ASSUME NoWrap, GuardInv, [GuardNext]_guardVars PROVE GuardInv'
  OBVIOUS
<1>1. ASSUME NEW n \in 1 .. MaxMessage, Deliver(n) PROVE GuardInv'
  <2>1. delivered' = Append(delivered, n) /\ Accept(n)
    BY <1>1, Unwrapped DEF Deliver
  <2>2. QED
    BY <2>1, StartKeeps, AdvanceKeeps, DuplicateKeeps DEF Accept
<1>2. CASE UNCHANGED guardVars
  BY <1>2 DEF guardVars, GuardInv, GuardTypeOK, ExpectsNext, CountersExact, Ahead, Skipped
<1>3. QED
  BY <1>1, <1>2 DEF GuardNext

(* Nothing newer has come, and the predecessor has: exactly what accept compares. *)
LEMMA VerdictTells ==
  ASSUME NoWrap, GuardInv, GuardNext, NEW n \in 1 .. MaxMessage,
         delivered # << >>, delivered' = Append(delivered, n)
  PROVE  verdict' <=> Newest(n) /\ \E i \in DOMAIN delivered : delivered[i] = n - 1
<1>1. PICK m \in 1 .. MaxMessage : Deliver(m)
  BY DEF GuardNext
<1>2. m = n
  <2>1. Append(delivered, m) = Append(delivered, n)
    BY <1>1 DEF Deliver
  <2>2. Append(delivered, m)[Len(delivered) + 1] = m
        /\ Append(delivered, n)[Len(delivered) + 1] = n
    BY AppendProperties DEF GuardInv, GuardTypeOK
  <2>3. QED
    BY <2>1, <2>2
<1>3. Accept(n) /\ expected_ # 0 /\ expected_ \in Nat
  BY <1>1, <1>2, Unwrapped, GuardAssumption DEF Deliver, GuardInv, ExpectsNext, GuardTypeOK
<1>4. verdict' <=> n = expected_
  BY <1>3, GuardAssumption DEF Accept, Start, InOrder, Duplicate, Gap
<1>5. PICK top \in Ahead : delivered[top] = expected_ - 1
  BY DEF GuardInv, ExpectsNext
<1>6. top \in DOMAIN delivered
  BY AheadFinite DEF GuardInv
<1>7. \A j \in DOMAIN delivered : delivered[j] <= expected_ - 1 /\ delivered[j] \in Nat
  BY Appended DEF GuardInv, ExpectsNext
<1>8. Newest(n) <=> expected_ <= n
  BY <1>3, <1>5, <1>6, <1>7 DEF Newest
<1>9. (\E i \in DOMAIN delivered : delivered[i] = n - 1) => n <= expected_
  BY <1>3, <1>7
<1>10. n = expected_ => \E i \in DOMAIN delivered : delivered[i] = n - 1
  BY <1>5, <1>6
<1>11. QED
  BY <1>3, <1>4, <1>8, <1>9, <1>10

(* The guard's state keeps its types on any line. *)
THEOREM GuardTypeCorrect == NoWrap => (GuardSpec => []GuardTypeOK)
<1> SUFFICES ASSUME NoWrap PROVE GuardSpec => []GuardTypeOK
  OBVIOUS
<1>1. GuardInit => GuardInv
  BY InitGuard
<1>2. GuardInv /\ [GuardNext]_guardVars => GuardInv'
  BY StepGuard
<1>3. GuardInv => GuardTypeOK
  BY DEF GuardInv
<1>4. QED
  BY <1>1, <1>2, <1>3, PTL DEF GuardSpec

(* gaps() counts the messages that were not there when a later one came, duplicates() the *)
(* other deliveries, on any line that does not wrap. *)
THEOREM CountersAreExact == NoWrap => (GuardSpec => []CountersExact)
<1> SUFFICES ASSUME NoWrap PROVE GuardSpec => []CountersExact
  OBVIOUS
<1>1. GuardInit => GuardInv
  BY InitGuard
<1>2. GuardInv /\ [GuardNext]_guardVars => GuardInv'
  BY StepGuard
<1>3. GuardInv => CountersExact
  BY DEF GuardInv
<1>4. QED
  BY <1>1, <1>2, <1>3, PTL DEF GuardSpec

(* accept says TRUE exactly for the successor of the greatest number delivered. *)
THEOREM IrregularIsTold == NoWrap => (GuardSpec => TellsIrregular)
<1> SUFFICES ASSUME NoWrap PROVE GuardSpec => TellsIrregular
  OBVIOUS
<1>1. GuardInit => GuardInv
  BY InitGuard
<1>2. GuardInv /\ [GuardNext]_guardVars => GuardInv'
  BY StepGuard
<1>3. GuardInv /\ [GuardNext]_guardVars
        => [\A n \in 1 .. MaxMessage :
              delivered # << >> /\ delivered' = Append(delivered, n)
                => (verdict' <=> Newest(n) /\ \E i \in DOMAIN delivered : delivered[i] = n - 1)
           ]_guardVars
  BY VerdictTells
<1>4. QED
  BY <1>1, <1>2, <1>3, PTL DEF GuardSpec, TellsIrregular

-----------------------------------------------------------------------------
(* The strategy and the risk gate. *)

(* What the strategy remembers of the last order, and the position it left. *)
LastOrder ==
  out = Nothing \/ /\ out.valid
                   /\ out.touch \in Touches /\ out.px \in Int /\ out.side \in Side
                   /\ out.verdict \in Verdicts /\ out.filled \in BOOLEAN
                   /\ last_side_ = out.side
                   /\ out.filled => position_ = (IF out.side = "Buy" THEN OrderQty ELSE 0)

QuotingInv == TypeOK /\ LastOrder /\ InsideTouch /\ OneClip

LEMMA InitQuoting == Init => QuotingInv
<1> SUFFICES ASSUME Init PROVE QuotingInv
  OBVIOUS
<1>1. out = Nothing /\ ~out.valid
  BY DEF Init, Nothing
<1>2. /\ measure \in BOOLEAN /\ killed_ \in BOOLEAN
      /\ out = Nothing \/ out.verdict \in Verdicts
  BY <1>1 DEF Init
<1>3. /\ position_ \in Int /\ last_px_ \in Int /\ last_side_ \in Side
      /\ window_start_ns_ \in 0 .. MaxTime /\ in_window_ \in 0 .. MaxOrdersPerSec + 1
      /\ quote_number \in 0 .. FillPeriod - 1 /\ clock \in 0 .. MaxTime
      /\ accepted \in [0 .. MaxTime -> Nat]
  BY QuotingAssumption DEF Init, NoPrice, Side
<1>4. TypeOK
  BY <1>2, <1>3 DEF TypeOK
<1>5. QED
  BY <1>1, <1>4 DEF Init, QuotingInv, LastOrder, InsideTouch, OneClip

(* The two clamps of the quoted price. *)
LEMMA Clamped ==
  ASSUME NEW t \in Touches, NEW side \in Side, t.ask - t.bid >= MinSpread
  PROVE  /\ QuotePrice(side, t) \in Int
         /\ t.bid < QuotePrice(side, t) /\ QuotePrice(side, t) < t.ask
<1>1. t.bid \in Nat /\ t.ask \in Nat /\ t.bq \in Nat /\ t.aq \in Nat
  BY QuotingAssumption
<1>2. Micro(t) \in Int
  <2>1. CASE t.bq + t.aq > 0
    <3> DEFINE a == t.bid * t.aq + t.ask * t.bq
               b == t.bq + t.aq
    <3>1. a \in Int /\ b \in Int /\ b > 0
      BY <1>1, <2>1
    <3>2. a \div b \in Int
      <4> HIDE DEF a, b
      <4> QED BY <3>1
    <3>3. QED
      BY <2>1, <3>2 DEF Micro
  <2>2. CASE ~(t.bq + t.aq > 0)
    BY <1>1, <2>2 DEF Micro
  <2>3. QED
    BY <2>1, <2>2
<1>3. t.bid + 1 < t.ask /\ JoinOffset \in Int
  BY <1>1, QuotingAssumption
<1>4. QED
  BY <1>1, <1>2, <1>3 DEF QuotePrice

LEMMA WindowTyped ==
  ASSUME TypeOK
  PROVE  WindowStart \in 0 .. MaxTime /\ InWindow \in 0 .. MaxOrdersPerSec + 1
  BY QuotingAssumption DEF TypeOK, WindowStart, InWindow, NewWindow, Now

(* Leaning: flat buys, one clip long sells. *)
LEMMA Leaning ==
  ASSUME OneClip
  PROVE  /\ LeanSide \in Side
         /\ position_ + Signed(LeanSide, OrderQty) = IF LeanSide = "Buy" THEN OrderQty ELSE 0
         /\ OrderQty <= MaxPosition => ~OverPosition(LeanSide)
  BY QuotingAssumption DEF OneClip, LeanSide, Side, Signed, OverPosition

LEMMA OrderKeeps ==
  ASSUME QuotingInv, NEW t \in Touches, Order(t)
  PROVE  QuotingInv'
<1> DEFINE side == LeanSide
           px == QuotePrice(side, t)
           answer == Verdict(px, side, IF side = "Buy" THEN t.bid ELSE t.ask)
           filled == answer = "Accept" /\ Fills
<1>1. /\ side \in Side
      /\ position_ + Signed(side, OrderQty) = IF side = "Buy" THEN OrderQty ELSE 0
      /\ OrderQty <= MaxPosition => ~OverPosition(side)
  BY Leaning DEF QuotingInv
<1>2. px \in Int /\ t.bid < px /\ px < t.ask
  BY <1>1, Clamped DEF Order, Quotes
<1>3. answer \in Verdicts /\ (OrderQty <= MaxPosition => answer # "PositionLimit")
  BY <1>1 DEF Verdict, Verdicts
<1>4. /\ out' = [valid |-> TRUE, px |-> px, side |-> side, verdict |-> answer,
                 filled |-> filled, touch |-> t]
      /\ last_px_' = px /\ last_side_' = side
      /\ position_' = IF filled THEN position_ + Signed(side, OrderQty) ELSE position_
      /\ measure' = measure /\ killed_' = killed_ /\ clock' = clock
  BY DEF Order
<1>5. /\ window_start_ns_' \in 0 .. MaxTime
      /\ in_window_' \in 0 .. MaxOrdersPerSec + 1
  BY WindowTyped DEF Order, QuotingInv, TypeOK
<1>6. quote_number' \in 0 .. FillPeriod - 1
  BY QuotingAssumption DEF Order, QuotingInv, TypeOK
<1>7. accepted' \in [0 .. MaxTime -> Nat]
  BY DEF Order, QuotingInv, TypeOK
<1>8. filled \in BOOLEAN /\ position_' \in {0, OrderQty}
  BY <1>1, <1>4 DEF QuotingInv, OneClip, Side
<1> HIDE DEF side, px, answer, filled
<1>9. TypeOK'
  BY <1>1, <1>2, <1>3, <1>4, <1>5, <1>6, <1>7, <1>8, QuotingAssumption DEF QuotingInv, TypeOK
<1>10. LastOrder'
  BY <1>1, <1>2, <1>3, <1>4, <1>8 DEF LastOrder
<1>11. InsideTouch' /\ OneClip'
  BY <1>2, <1>3, <1>4, <1>8 DEF InsideTouch, OneClip
<1>12. QED
  BY <1>9, <1>10, <1>11 DEF QuotingInv

LEMMA StepQuoting == QuotingInv /\ [Next]_vars => QuotingInv'
<1> SUFFICES ASSUME QuotingInv, [Next]_vars PROVE QuotingInv'
  OBVIOUS
<1> USE DEF QuotingInv, TypeOK, LastOrder, InsideTouch, OneClip
<1>1. ASSUME NEW t \in Touches, OnTouch(t) PROVE QuotingInv'
  <2>1. CASE Quiet(t)
    BY <2>1 DEF Quiet, vars, strategy, gate
  <2>2. CASE Order(t)
    BY <2>2, OrderKeeps
  <2>3. QED
    BY <1>1, <2>1, <2>2 DEF OnTouch
<1>2. CASE OneSided
  BY <1>2 DEF OneSided, vars, strategy, gate
<1>3. CASE Kill
  BY <1>3 DEF Kill, strategy
<1>4. CASE Tick
  BY <1>4, QuotingAssumption DEF Tick, strategy, gate
<1>5. CASE UNCHANGED vars
  BY <1>5 DEF vars, strategy, gate
<1>6. QED
  BY <1>1, <1>2, <1>3, <1>4, <1>5 DEF Next

(* The position a filled quote leaves makes the strategy lean the other way. *)
LEMMA FillTurnsSide ==
  ASSUME QuotingInv
  PROVE  FilledQuoteReplaced
<1> SUFFICES ASSUME out.valid, out.filled, NEW t \in Touches, t.ask - t.bid >= MinSpread
             PROVE  Quotes(t)
  BY DEF FilledQuoteReplaced
<1>1. out.side \in Side /\ last_side_ = out.side
      /\ position_ = (IF out.side = "Buy" THEN OrderQty ELSE 0)
  BY DEF QuotingInv, LastOrder, Nothing
<1>2. ~AtLimit(LeanSide) /\ LeanSide # last_side_
  BY <1>1, QuotingAssumption DEF AtLimit, LeanSide, Side
<1>3. QED
  BY <1>2 DEF Quotes

------------------------------------------------------------------------------
(* The gate's window.  It begins at W, n orders have been counted in it, and a says how many *)
(* were accepted at each instant. *)

Stretch(t) == {u \in 0 .. MaxTime : t <= u /\ u < t + Second}

Windowed(a, W, n) ==
  /\ a \in [0 .. MaxTime -> Nat] /\ W \in 0 .. MaxTime /\ n \in Nat
  /\ \A u \in 0 .. MaxTime : u >= W + Second => a[u] = 0
  /\ Total(a, W .. MaxTime) <= n /\ Total(a, W .. MaxTime) <= MaxOrdersPerSec
  /\ \A t \in 0 .. MaxTime : W < t + Second => Total(a, t .. W - 1) <= MaxOrdersPerSec
  /\ \A t \in 0 .. MaxTime : Total(a, Stretch(t)) <= 2 * MaxOrdersPerSec

\* A clock that stands still never closes the first window.
OneWindow(a, n) == /\ a \in [0 .. MaxTime -> Nat] /\ n \in Nat
                   /\ Total(a, 0 .. MaxTime) <= n /\ Total(a, 0 .. MaxTime) <= MaxOrdersPerSec

Burst ==
  /\ window_start_ns_ <= clock
  /\ measure => Windowed(accepted, window_start_ns_, in_window_)
  /\ ~measure => window_start_ns_ = 0 /\ OneWindow(accepted, in_window_)

\* b counts one more order than a, at c.
Bumped(a, b, c) == b = [a EXCEPT ![c] = @ + 1]

LEMMA TimesFinite ==
  ASSUME NEW S \in SUBSET (0 .. MaxTime), NEW a \in [0 .. MaxTime -> Nat]
  PROVE  IsFiniteSet(S) /\ Total(a, S) \in Nat /\ \A u \in S : a[u] \in Nat /\ a[u] \in Int
<1>1. IsFiniteSet(0 .. MaxTime)  BY QuotingAssumption, FS_Interval
<1>2. IsFiniteSet(S)  BY <1>1, FS_Subset
<1>3. \A u \in S : a[u] \in Nat /\ a[u] \in Int  OBVIOUS
<1> QED  BY <1>2, <1>3, TotalNat

\* One more order at c counts once in every set of instants with c.
LEMMA OneMoreAt ==
  ASSUME NEW a \in [0 .. MaxTime -> Nat], NEW c \in 0 .. MaxTime,
         NEW S \in SUBSET (0 .. MaxTime), NEW b, Bumped(a, b, c)
  PROVE  /\ b \in [0 .. MaxTime -> Nat]
         /\ Total(b, S) = Total(a, S) + (IF c \in S THEN 1 ELSE 0)
<1>1. /\ b \in [0 .. MaxTime -> Nat] /\ b[c] = a[c] + 1
      /\ \A u \in 0 .. MaxTime : u # c => b[u] = a[u]
  BY DEF Bumped
<1>2. IsFiniteSet(S) /\ Total(a, S) \in Nat /\ \A u \in S : a[u] \in Int  BY TimesFinite
<1>3. \A u \in S : b[u] \in Int  BY <1>1, TimesFinite
<1>4. CASE c \notin S
  <2>1. \A u \in S : b[u] = a[u]  BY <1>1, <1>4
  <2>2. Total(b, S) = Total(a, S)  BY <1>2, <2>1, TotalsAgree
  <2> QED  BY <1>1, <1>2, <1>4, <2>2
<1>5. CASE c \in S
  <2> DEFINE R == S \ {c}
  <2>1. Total(a, S) = a[c] + Total(a, R) /\ Total(b, S) = b[c] + Total(b, R)
    BY <1>2, <1>3, <1>5, TotalWithout
  <2>2. R \in SUBSET (0 .. MaxTime) /\ \A u \in R : b[u] = a[u]  BY <1>1
  <2> HIDE DEF R
  <2>3. IsFiniteSet(R) /\ Total(a, R) \in Nat  BY <2>2, TimesFinite
  <2>4. Total(b, R) = Total(a, R)  BY <2>2, <2>3, TotalsAgree
  <2>5. a[c] \in Nat  OBVIOUS
  <2> QED  BY <1>1, <1>5, <2>1, <2>3, <2>4, <2>5
<1> QED  BY <1>4, <1>5

\* A window opens at c when none has been open for some time.
LEMMA Reopened ==
  ASSUME NEW a, NEW W, NEW n, Windowed(a, W, n), NEW c \in 0 .. MaxTime, c >= W + Second
  PROVE  Windowed(a, c, 0)
<1> USE QuotingAssumption
<1>0. a \in [0 .. MaxTime -> Nat] /\ W \in 0 .. MaxTime  BY DEF Windowed
<1>1. \A u \in 0 .. MaxTime : u >= c + Second => a[u] = 0
  BY <1>0 DEF Windowed
<1>2. Total(a, c .. MaxTime) = 0
  <2> DEFINE S == c .. MaxTime
             z == [u \in S |-> 0]
  <2>1. S \in SUBSET (0 .. MaxTime) /\ \A u \in S : a[u] = 0
    BY <1>0 DEF Windowed
  <2> HIDE DEF S
  <2>2. IsFiniteSet(S) /\ Total(a, S) \in Nat  BY <1>0, <2>1, TimesFinite
  <2>3. \A u \in S : a[u] \in 0 .. 0  BY <2>1
  <2>4. Total(a, S) <= Cardinality(S) * 0  BY <2>2, <2>3, TotalBounded
  <2>5. Cardinality(S) * 0 = 0  BY <2>2, FS_CardinalityType
  <2> QED  BY <2>2, <2>4, <2>5 DEF S
<1>3. ASSUME NEW t \in 0 .. MaxTime, c < t + Second PROVE Total(a, t .. c - 1) <= MaxOrdersPerSec
  <2>1. t .. c - 1 \subseteq W .. MaxTime /\ W .. MaxTime \subseteq 0 .. MaxTime  BY <1>0, <1>3
  <2>2. Total(a, t .. c - 1) <= Total(a, W .. MaxTime)  BY <1>0, <2>1, TimesFinite, TotalMonotone
  <2>3. Total(a, t .. c - 1) \in Nat /\ Total(a, W .. MaxTime) \in Nat  BY <1>0, <2>1, TimesFinite
  <2> QED  BY <2>2, <2>3 DEF Windowed
<1>4. \A t \in 0 .. MaxTime : Total(a, Stretch(t)) <= 2 * MaxOrdersPerSec  BY DEF Windowed
<1> QED  BY <1>0, <1>1, <1>2, <1>3, <1>4 DEF Windowed

\* An order is accepted at c, in the window that is open.
LEMMA LetThrough ==
  ASSUME NEW a, NEW W, NEW n, Windowed(a, W, n), NEW c \in W .. MaxTime, c < W + Second,
         n + 1 <= MaxOrdersPerSec, NEW b, Bumped(a, b, c)
  PROVE  Windowed(b, W, n + 1)
<1> USE QuotingAssumption
<1>0. a \in [0 .. MaxTime -> Nat] /\ W \in 0 .. MaxTime /\ n \in Nat /\ c \in 0 .. MaxTime
  BY DEF Windowed
<1>1. b \in [0 .. MaxTime -> Nat] /\ \A u \in 0 .. MaxTime : u # c => b[u] = a[u]
  BY <1>0 DEF Bumped
<1>2. \A u \in 0 .. MaxTime : u >= W + Second => b[u] = 0
  BY <1>0, <1>1 DEF Windowed
<1>3. /\ Total(b, W .. MaxTime) <= n + 1
      /\ Total(b, W .. MaxTime) \in Nat
  <2> DEFINE S == W .. MaxTime
  <2>1. S \in SUBSET (0 .. MaxTime) /\ Total(a, S) <= n  BY <1>0 DEF Windowed
  <2> HIDE DEF S
  <2>2. Total(b, S) = Total(a, S) + (IF c \in S THEN 1 ELSE 0)  BY <1>0, <2>1, OneMoreAt
  <2>3. Total(a, S) \in Nat  BY <1>0, <2>1, TimesFinite
  <2> QED  BY <1>0, <2>1, <2>2, <2>3 DEF S
<1>4. ASSUME NEW t \in 0 .. MaxTime, W < t + Second
      PROVE  Total(b, t .. W - 1) <= MaxOrdersPerSec /\ Total(b, t .. W - 1) \in Nat
  <2> DEFINE S == t .. W - 1
  <2>1. S \in SUBSET (0 .. MaxTime) /\ c \notin S /\ Total(a, S) <= MaxOrdersPerSec
    BY <1>0, <1>4 DEF Windowed
  <2> HIDE DEF S
  <2>2. Total(b, S) = Total(a, S) + (IF c \in S THEN 1 ELSE 0)  BY <1>0, <2>1, OneMoreAt
  <2>3. Total(a, S) \in Nat  BY <1>0, <2>1, TimesFinite
  <2> QED  BY <2>1, <2>2, <2>3 DEF S
<1>5. ASSUME NEW t \in 0 .. MaxTime PROVE Total(b, Stretch(t)) <= 2 * MaxOrdersPerSec
  <2>0. Stretch(t) \in SUBSET (0 .. MaxTime)  BY DEF Stretch
  <2>1. CASE W < t + Second
    <3> DEFINE A == t .. W - 1
               B == W .. MaxTime
    <3>1. Stretch(t) \subseteq A \cup B /\ A \cap B = {} /\ A \cup B \in SUBSET (0 .. MaxTime)
          /\ A \in SUBSET (0 .. MaxTime) /\ B \in SUBSET (0 .. MaxTime)
      BY <1>0 DEF Stretch
    <3>2. Total(b, A) <= MaxOrdersPerSec /\ Total(b, A) \in Nat
          /\ Total(b, B) <= n + 1 /\ Total(b, B) \in Nat
      BY <1>3, <1>4, <2>1
    <3> HIDE DEF A, B
    <3>3. Total(b, A \cup B) = Total(b, A) + Total(b, B)
      <4>1. IsFiniteSet(A) /\ IsFiniteSet(B) /\ \A u \in A \cup B : b[u] \in Int
        BY <1>1, <3>1, TimesFinite
      <4> QED  BY <3>1, <4>1, TotalUnion
    <3>4. Total(b, Stretch(t)) <= Total(b, A \cup B)  BY <1>1, <3>1, TimesFinite, TotalMonotone
    <3>5. Total(b, Stretch(t)) \in Nat  BY <1>1, <2>0, TimesFinite
    <3> QED  BY <1>0, <3>2, <3>3, <3>4, <3>5
  <2>2. CASE ~(W < t + Second)
    <3>1. c \notin Stretch(t)  BY <1>0, <2>2 DEF Stretch
    <3>2. Total(b, Stretch(t)) = Total(a, Stretch(t)) + 0  BY <1>0, <2>0, <3>1, OneMoreAt
    <3>3. Total(a, Stretch(t)) \in Nat  BY <1>0, <2>0, TimesFinite
    <3>4. Total(a, Stretch(t)) <= 2 * MaxOrdersPerSec  BY DEF Windowed
    <3> QED  BY <3>2, <3>3, <3>4
  <2> QED  BY <2>1, <2>2
<1>6. Total(b, W .. MaxTime) <= MaxOrdersPerSec  BY <1>0, <1>3
<1> QED  BY <1>0, <1>1, <1>2, <1>3, <1>4, <1>5, <1>6 DEF Windowed

LEMMA OneMoreInOneWindow ==
  ASSUME NEW a, NEW n, OneWindow(a, n), NEW c \in 0 .. MaxTime, n + 1 <= MaxOrdersPerSec,
         NEW b, Bumped(a, b, c)
  PROVE  OneWindow(b, n + 1)
<1>0. a \in [0 .. MaxTime -> Nat] /\ n \in Nat /\ Total(a, 0 .. MaxTime) <= n  BY DEF OneWindow
<1> DEFINE S == 0 .. MaxTime
<1>1. S \in SUBSET (0 .. MaxTime) /\ c \in S  OBVIOUS
<1> HIDE DEF S
<1>2. Total(b, S) = Total(a, S) + 1 /\ b \in [0 .. MaxTime -> Nat]  BY <1>0, <1>1, OneMoreAt
<1>3. Total(a, S) \in Nat  BY <1>0, <1>1, TimesFinite
<1> QED  BY <1>0, <1>2, <1>3, QuotingAssumption DEF OneWindow, S

LEMMA InitBurst == Init => Burst
<1> SUFFICES ASSUME Init PROVE Burst  OBVIOUS
<1> USE QuotingAssumption
<1>1. /\ accepted = [t \in 0 .. MaxTime |-> 0] /\ window_start_ns_ = 0 /\ in_window_ = 0
      /\ clock = 0 /\ accepted \in [0 .. MaxTime -> Nat]
  BY DEF Init
<1>2. ASSUME NEW S \in SUBSET (0 .. MaxTime) PROVE Total(accepted, S) = 0
  <2>1. IsFiniteSet(S) /\ Total(accepted, S) \in Nat  BY <1>1, TimesFinite
  <2>2. \A u \in S : accepted[u] \in 0 .. 0  BY <1>1
  <2>3. Total(accepted, S) <= Cardinality(S) * 0  BY <2>1, <2>2, TotalBounded
  <2>4. Cardinality(S) * 0 = 0  BY <2>1, FS_CardinalityType
  <2> QED  BY <2>1, <2>3, <2>4
<1>3. Total(accepted, 0 .. MaxTime) = 0  BY <1>2
<1>4. \A t \in 0 .. MaxTime : Total(accepted, t .. 0 - 1) = 0 /\ Total(accepted, Stretch(t)) = 0
  <2> TAKE t \in 0 .. MaxTime
  <2>1. t .. 0 - 1 \in SUBSET (0 .. MaxTime) /\ Stretch(t) \in SUBSET (0 .. MaxTime)
    BY DEF Stretch
  <2> QED  BY <1>2, <2>1
<1>5. Windowed(accepted, 0, 0)  BY <1>1, <1>3, <1>4 DEF Windowed
<1>6. OneWindow(accepted, 0)  BY <1>1, <1>3 DEF OneWindow
<1> QED  BY <1>1, <1>5, <1>6 DEF Burst

\* Counting an order that is refused loses nothing.
LEMMA CountedMore ==
  ASSUME NEW a, NEW W, NEW n, NEW m \in Nat, m >= n
  PROVE  /\ Windowed(a, W, n) => Windowed(a, W, m)
         /\ OneWindow(a, n) => OneWindow(a, m)
<1>1. ASSUME Windowed(a, W, n) PROVE Windowed(a, W, m)
  <2>1. W .. MaxTime \in SUBSET (0 .. MaxTime) /\ a \in [0 .. MaxTime -> Nat] /\ n \in Nat
    BY <1>1, QuotingAssumption DEF Windowed
  <2>2. Total(a, W .. MaxTime) \in Nat  BY <2>1, TimesFinite
  <2> QED  BY <1>1, <2>1, <2>2 DEF Windowed
<1>2. ASSUME OneWindow(a, n) PROVE OneWindow(a, m)
  <2>1. 0 .. MaxTime \in SUBSET (0 .. MaxTime) /\ a \in [0 .. MaxTime -> Nat] /\ n \in Nat
    BY <1>2 DEF OneWindow
  <2>2. Total(a, 0 .. MaxTime) \in Nat  BY <2>1, TimesFinite
  <2> QED  BY <1>2, <2>1, <2>2 DEF OneWindow
<1> QED  BY <1>1, <1>2

LEMMA OrderKeepsBurst ==
  ASSUME QuotingInv, Burst, NEW t \in Touches, Order(t)
  PROVE  Burst'
<1> DEFINE side == LeanSide
           answer == Verdict(QuotePrice(side, t), side, IF side = "Buy" THEN t.bid ELSE t.ask)
<1> USE QuotingAssumption
<1>1. /\ measure' = measure /\ clock' = clock
      /\ IF Counted(answer) THEN window_start_ns_' = WindowStart /\ in_window_' = InWindow
         ELSE window_start_ns_' = window_start_ns_ /\ in_window_' = in_window_
      /\ accepted' = IF answer = "Accept" THEN [accepted EXCEPT ![clock] = @ + 1] ELSE accepted
  BY DEF Order
<1>2. answer = "Accept" => Counted(answer) /\ InWindow <= MaxOrdersPerSec
  BY WindowTyped DEF Verdict, Counted, QuotingInv
<1> HIDE DEF answer
<1>3. /\ measure \in BOOLEAN /\ clock \in 0 .. MaxTime /\ window_start_ns_ \in 0 .. MaxTime
      /\ in_window_ \in 0 .. MaxOrdersPerSec + 1 /\ window_start_ns_ <= clock
  BY DEF QuotingInv, TypeOK, Burst
<1>4. CASE ~Counted(answer)  BY <1>1, <1>2, <1>4 DEF Burst
<1>5. CASE Counted(answer) /\ measure
  <2> DEFINE W == WindowStart
             n == IF NewWindow THEN 0 ELSE in_window_
  <2>1. Now = clock  BY <1>5 DEF Now
  <2>2. /\ W \in 0 .. MaxTime /\ W <= clock /\ clock < W + Second
        /\ InWindow \in Nat /\ n \in Nat /\ InWindow >= n
        /\ InWindow <= MaxOrdersPerSec => InWindow = n + 1
    BY <1>3, <2>1 DEF WindowStart, InWindow, NewWindow
  <2>3. Windowed(accepted, W, n)
    <3>1. Windowed(accepted, window_start_ns_, in_window_)  BY <1>5 DEF Burst
    <3>2. CASE NewWindow
      <4>1. clock >= window_start_ns_ + Second /\ W = clock  BY <1>3, <2>1, <3>2 DEF NewWindow, WindowStart
      <4> QED  BY <1>3, <3>1, <3>2, <4>1, Reopened
    <3>3. CASE ~NewWindow  BY <3>1, <3>3 DEF WindowStart
    <3> QED  BY <3>2, <3>3
  <2> HIDE DEF W, n
  <2>4. Windowed(accepted', W, InWindow)
    <3>1. CASE answer = "Accept"
      <4>1. clock \in W .. MaxTime /\ InWindow = n + 1 /\ n + 1 <= MaxOrdersPerSec
        BY <1>2, <1>3, <2>2, <3>1
      <4>2. Windowed(accepted', W, n + 1)  BY <1>1, <2>2, <2>3, <3>1, <4>1, LetThrough DEF Bumped
      <4> QED  BY <4>1, <4>2
    <3>2. CASE answer # "Accept"
      <4>1. accepted' = accepted  BY <1>1, <3>2
      <4> QED  BY <2>2, <2>3, <4>1, CountedMore
    <3> QED  BY <3>1, <3>2
  <2> QED  BY <1>1, <1>5, <2>2, <2>4 DEF Burst, W
<1>6. CASE Counted(answer) /\ ~measure
  <2>1. Now = 0 /\ window_start_ns_ = 0 /\ OneWindow(accepted, in_window_)  BY <1>6 DEF Now, Burst
  <2>2. /\ ~NewWindow /\ WindowStart = 0 /\ InWindow \in Nat /\ InWindow >= in_window_
        /\ InWindow <= MaxOrdersPerSec => InWindow = in_window_ + 1
    BY <1>3, <2>1 DEF NewWindow, WindowStart, InWindow
  <2>3. OneWindow(accepted', InWindow)
    <3>1. CASE answer = "Accept"
      <4>1. InWindow = in_window_ + 1 /\ in_window_ + 1 <= MaxOrdersPerSec  BY <1>2, <2>2, <3>1
      <4>2. OneWindow(accepted', in_window_ + 1)
        BY <1>1, <1>3, <2>1, <3>1, <4>1, OneMoreInOneWindow DEF Bumped
      <4> QED  BY <4>1, <4>2
    <3>2. CASE answer # "Accept"
      <4>1. accepted' = accepted  BY <1>1, <3>2
      <4> QED  BY <2>1, <2>2, <4>1, CountedMore
    <3> QED  BY <3>1, <3>2
  <2> QED  BY <1>1, <1>3, <1>6, <2>2, <2>3 DEF Burst
<1> QED  BY <1>3, <1>4, <1>5, <1>6

LEMMA StepBurst == QuotingInv /\ Burst /\ [Next]_vars => Burst'
<1> SUFFICES ASSUME QuotingInv, Burst, [Next]_vars PROVE Burst'  OBVIOUS
<1>0. clock \in 0 .. MaxTime /\ window_start_ns_ \in 0 .. MaxTime  BY DEF QuotingInv, TypeOK
<1>1. ASSUME NEW t \in Touches, OnTouch(t) PROVE Burst'
  <2>1. CASE Quiet(t)  BY <2>1 DEF Quiet, vars, gate, Burst
  <2>2. CASE Order(t)  BY <2>2, OrderKeepsBurst
  <2> QED  BY <1>1, <2>1, <2>2 DEF OnTouch
<1>2. CASE OneSided  BY <1>2 DEF OneSided, vars, gate, Burst
<1>3. CASE Kill  BY <1>3 DEF Kill, Burst
<1>4. CASE Tick  BY <1>0, <1>4 DEF Tick, gate, Burst
<1>5. CASE UNCHANGED vars  BY <1>5 DEF vars, gate, Burst
<1> QED  BY <1>1, <1>2, <1>3, <1>4, <1>5 DEF Next

LEMMA BurstIsBounded == QuotingInv /\ Burst => BurstBounded
<1> SUFFICES ASSUME QuotingInv, Burst PROVE BurstBounded  OBVIOUS
<1>0. /\ measure \in BOOLEAN /\ accepted \in [0 .. MaxTime -> Nat]
      /\ MaxOrdersPerSec \in Nat
  BY QuotingAssumption DEF QuotingInv, TypeOK
<1>1. \A t \in 0 .. MaxTime : Within(t) = Total(accepted, Stretch(t))
  BY DEF Within, Total, Stretch
<1>2. MapThenSumSet(LAMBDA u : accepted[u], 0 .. MaxTime) = Total(accepted, 0 .. MaxTime)
  BY DEF Total
<1>3. ASSUME NEW t \in 0 .. MaxTime PROVE Total(accepted, Stretch(t)) <= 2 * MaxOrdersPerSec
  <2>1. CASE measure  BY <2>1 DEF Burst, Windowed
  <2>2. CASE ~measure
    <3>1. Stretch(t) \in SUBSET (0 .. MaxTime) /\ 0 .. MaxTime \in SUBSET (0 .. MaxTime)  BY DEF Stretch
    <3>2. Total(accepted, Stretch(t)) <= Total(accepted, 0 .. MaxTime)
      <4>1. IsFiniteSet(0 .. MaxTime) /\ \A u \in 0 .. MaxTime : accepted[u] \in Nat
        BY <1>0, <3>1, TimesFinite
      <4> QED  BY <3>1, <4>1, TotalMonotone
    <3>3. Total(accepted, Stretch(t)) \in Nat /\ Total(accepted, 0 .. MaxTime) \in Nat
      BY <1>0, <3>1, TimesFinite
    <3>4. Total(accepted, 0 .. MaxTime) <= MaxOrdersPerSec  BY <2>2 DEF Burst, OneWindow
    <3> QED  BY <1>0, <3>2, <3>3, <3>4
  <2> QED  BY <1>0, <2>1, <2>2
<1> QED  BY <1>1, <1>2, <1>3 DEF BurstBounded, Burst, OneWindow
------------------------------------------------------------------------------
(* The strategy, the gate and the last order keep their types; the window's counter stays *)
(* within one of the limit. *)
THEOREM QuotingTypeCorrect == Spec => []TypeOK
  BY InitQuoting, StepQuoting, PTL DEF Spec, QuotingInv

(* Every order lies strictly inside the touch it was computed from, for every spread, size *)
(* and offset. *)
THEOREM NeverJoinsTouch == Spec => []InsideTouch
  BY InitQuoting, StepQuoting, PTL DEF Spec, QuotingInv

(* Leaning keeps the position between flat and one clip, and no position limit ever *)
(* stops an order. *)
THEOREM StaysWithinOneClip == Spec => []OneClip
  BY InitQuoting, StepQuoting, PTL DEF Spec, QuotingInv

(* A filled quote never suppresses the next one, although last_px_ is not reset. *)
THEOREM FillIsReplaced == Spec => []FilledQuoteReplaced
  BY InitQuoting, StepQuoting, FillTurnsSide, PTL DEF Spec

(* No second holds more than twice the limit, whatever the window and wherever its edges lie; *)
(* and a clock that stands still never opens another window. *)
THEOREM BurstsAreBounded == Spec => []BurstBounded
  BY InitQuoting, StepQuoting, InitBurst, StepBurst, BurstIsBounded, PTL DEF Spec

-----------------------------------------------------------------------------
(* The book behind the lossy line. *)

Orders == [id : 1 .. MaxIds, qty : Nat]
Messages == [type : {"Add", "Cancel", "Execute"}, id : 1 .. MaxIds, qty : Nat]

(* The book holds q for id, in one entry, or no entry at all. *)
Alone(s, id, q) ==
  IF q = 0 THEN \A k \in DOMAIN s : s[k].id # id
  ELSE \E k \in DOMAIN s : /\ s[k].id = id /\ s[k].qty = q
                           /\ \A j \in DOMAIN s \ {k} : s[j].id # id

(* What a message leaves of the order it is about. *)
LeftBy(m, before) ==
  IF sent[m].type = "Add" THEN sent[m].qty
  ELSE IF sent[m].qty = 0 \/ sent[m].qty > before THEN 0 ELSE before - sent[m].qty

LossyTypes ==
  /\ sent \in Seq(Messages) /\ Len(sent) <= MaxMessage
  /\ exchange \in Seq([1 .. MaxIds -> Nat]) /\ Len(exchange) = Len(sent)
  /\ next_id_ \in 0 .. MaxIds /\ live_ \subseteq 1 .. next_id_
  /\ delivered \in Seq(Nat) /\ \A j \in DOMAIN delivered : delivered[j] \in 1 .. Len(sent)
  /\ orders \in Seq(Orders) /\ refused \subseteq 1 .. MaxIds

FeedRight ==
  /\ \A m \in 1 .. Len(sent) :
       /\ sent[m].id \in 1 .. next_id_
       /\ sent[m].type = "Add" =>
            sent[m].qty # 0 /\ \A k \in 1 .. m - 1 : sent[k].id # sent[m].id
  /\ \A m \in 1 .. Len(sent) : Truth(m)[sent[m].id] = LeftBy(m, Truth(m - 1)[sent[m].id])
  /\ \A a, b \in 0 .. Len(sent), id \in 1 .. MaxIds :
       a <= b /\ (\A m \in a + 1 .. b : sent[m].id # id) => Truth(a)[id] = Truth(b)[id]

(* What the book holds of an order whose own messages came completely and in order. *)
Held(id) == IF id \in refused THEN 0 ELSE Truth(NewestOf(id))[id]

LocalInv == \A id \in 1 .. MaxIds : InStep(id) => Alone(orders, id, Held(id))

(* An order is refused by one of its own messages. *)
RefusedCame == \A id \in refused : Own(id) # {}

LossyInv == LossyTypes /\ FeedRight /\ LocalInv /\ RefusedCame

(* Sequences of orders. *)
LEMMA AloneAppended ==
  ASSUME NEW S, NEW s \in Seq(S), NEW o \in S, NEW id, NEW q, o.id # id, Alone(s, id, q)
  PROVE  Alone(Append(s, o), id, q)
<1> DEFINE t == Append(s, o)
           n == Len(s)
<1>1. /\ n \in Nat /\ DOMAIN s = 1 .. n /\ DOMAIN t = 1 .. n + 1 /\ t[n + 1] = o
      /\ \A k \in 1 .. n : t[k] = s[k]
  BY AppendProperties, LenProperties
<1> HIDE DEF t, n
<1>2. CASE q = 0
  <2>1. \A k \in DOMAIN t : t[k].id # id
    BY <1>1, <1>2 DEF Alone
  <2>2. QED
    BY <1>2, <2>1 DEF Alone, t
<1>3. CASE q # 0
  <2>1. PICK k \in DOMAIN s : s[k].id = id /\ s[k].qty = q /\ \A j \in DOMAIN s \ {k} : s[j].id # id
    BY <1>3 DEF Alone
  <2>2. k \in DOMAIN t /\ t[k].id = id /\ t[k].qty = q /\ \A j \in DOMAIN t \ {k} : t[j].id # id
    BY <1>1, <2>1
  <2>3. QED
    BY <1>3, <2>2 DEF Alone, t
<1>4. QED
  BY <1>2, <1>3

LEMMA FirstAppended ==
  ASSUME NEW S, NEW s \in Seq(S), NEW o \in S, NEW id, o.id = id, o.qty # 0, Alone(s, id, 0)
  PROVE  Alone(Append(s, o), id, o.qty)
<1> DEFINE t == Append(s, o)
           n == Len(s)
<1>1. /\ n \in Nat /\ DOMAIN s = 1 .. n /\ DOMAIN t = 1 .. n + 1 /\ t[n + 1] = o
      /\ \A k \in 1 .. n : t[k] = s[k]
  BY AppendProperties, LenProperties
<1> HIDE DEF t, n
<1>2. \A k \in DOMAIN s : s[k].id # id
  BY DEF Alone
<1>3. /\ n + 1 \in DOMAIN t /\ t[n + 1].id = id /\ t[n + 1].qty = o.qty
      /\ \A j \in DOMAIN t \ {n + 1} : t[j].id # id
  BY <1>1, <1>2
<1>4. QED
  BY <1>3 DEF Alone, t

LEMMA OtherRemoved ==
  ASSUME NEW S, NEW s \in Seq(S), NEW p \in 1 .. Len(s), NEW id, NEW q, s[p].id # id,
         Alone(s, id, q)
  PROVE  Alone(RemoveAt(s, p), id, q)
<1> DEFINE t == RemoveAt(s, p)
           n == Len(s)
<1>1. /\ n \in Nat /\ DOMAIN s = 1 .. n /\ DOMAIN t = 1 .. n - 1 /\ p \in 1 .. n
      /\ \A k \in 1 .. n - 1 : t[k] = IF k < p THEN s[k] ELSE s[k + 1]
  BY RemoveAtIs, LenProperties
<1> HIDE DEF t, n
<1>2. CASE q = 0
  <2>1. \A k \in DOMAIN s : s[k].id # id
    BY <1>2 DEF Alone
  <2>2. \A k \in 1 .. n - 1 : k \in 1 .. n /\ k + 1 \in 1 .. n
    BY <1>1
  <2>3. \A k \in DOMAIN t : t[k].id # id
    BY <1>1, <2>1, <2>2
  <2>4. QED
    BY <1>2, <2>3 DEF Alone, t
<1>3. CASE q # 0
  <2>1. PICK k \in DOMAIN s : s[k].id = id /\ s[k].qty = q /\ \A j \in DOMAIN s \ {k} : s[j].id # id
    BY <1>3 DEF Alone
  <2> DEFINE l == IF k < p THEN k ELSE k - 1
  <2>2. k # p /\ k \in 1 .. n
    BY <1>1, <2>1
  <2>3. l \in 1 .. n - 1 /\ (IF l < p THEN l ELSE l + 1) = k
    BY <1>1, <2>2
  <2>4. t[l] = s[k]
    BY <1>1, <2>2, <2>3
  <2>5. ASSUME NEW j \in 1 .. n - 1, j # l PROVE t[j].id # id
    <3> DEFINE i == IF j < p THEN j ELSE j + 1
    <3>1. i \in 1 .. n /\ i # k /\ t[j] = s[i]
      BY <1>1, <2>2, <2>3, <2>5
    <3>2. QED
      BY <1>1, <2>1, <3>1
  <2> HIDE DEF l
  <2>6. l \in DOMAIN t /\ t[l].id = id /\ t[l].qty = q /\ \A j \in DOMAIN t \ {l} : t[j].id # id
    BY <1>1, <2>1, <2>3, <2>4, <2>5
  <2>7. QED
    BY <1>3, <2>6 DEF Alone, t
<1>4. QED
  BY <1>2, <1>3

LEMMA OnlyRemoved ==
  ASSUME NEW S, NEW s \in Seq(S), NEW p \in 1 .. Len(s), NEW id, NEW q, q # 0, s[p].id = id,
         Alone(s, id, q)
  PROVE  Alone(RemoveAt(s, p), id, 0) /\ s[p].qty = q
<1> DEFINE t == RemoveAt(s, p)
           n == Len(s)
<1>1. /\ n \in Nat /\ DOMAIN s = 1 .. n /\ DOMAIN t = 1 .. n - 1 /\ p \in 1 .. n
      /\ \A k \in 1 .. n - 1 : t[k] = IF k < p THEN s[k] ELSE s[k + 1]
  BY RemoveAtIs, LenProperties
<1> HIDE DEF t, n
<1>2. s[p].qty = q /\ \A j \in 1 .. n : j # p => s[j].id # id
  BY <1>1 DEF Alone
<1>3. ASSUME NEW j \in 1 .. n - 1 PROVE t[j].id # id
  <2> DEFINE i == IF j < p THEN j ELSE j + 1
  <2>1. i \in 1 .. n /\ i # p /\ t[j] = s[i]
    BY <1>1
  <2>2. QED
    BY <1>2, <2>1
<1>4. QED
  BY <1>1, <1>2, <1>3 DEF Alone, t

LEMMA Reduced ==
  ASSUME NEW s \in Seq(Orders), NEW p \in 1 .. Len(s), NEW n \in Nat, n < s[p].qty
  PROVE  /\ [s EXCEPT ![p].qty = @ - n] \in Seq(Orders)
         /\ \A id, q : s[p].id # id /\ Alone(s, id, q) => Alone([s EXCEPT ![p].qty = @ - n], id, q)
         /\ \A id, q : s[p].id = id /\ q # 0 /\ Alone(s, id, q)
              => s[p].qty = q /\ (q - n # 0 => Alone([s EXCEPT ![p].qty = @ - n], id, q - n))
<1> DEFINE t == [s EXCEPT ![p].qty = @ - n]
<1>a. /\ DOMAIN s = 1 .. Len(s) /\ Len(s) \in Nat /\ s[p] \in Orders
      /\ \A k \in 1 .. Len(s) : s[k] \in Orders
  BY LenProperties, ElementOfSeq
<1>1. /\ DOMAIN s = 1 .. Len(s) /\ Len(s) \in Nat /\ s[p] \in Orders
      /\ s[p].qty \in Nat /\ s[p].id \in 1 .. MaxIds
      /\ \A k \in 1 .. Len(s) : s[k] \in Orders
  <2>1. s[p].qty \in Nat /\ s[p].id \in 1 .. MaxIds
    BY <1>a DEF Orders
  <2>2. QED
    BY <1>a, <2>1
<1>2. /\ DOMAIN t = DOMAIN s /\ t[p] = [s[p] EXCEPT !.qty = s[p].qty - n]
      /\ \A k \in DOMAIN s \ {p} : t[k] = s[k]
  BY <1>1
<1>3. s[p].qty - n \in Nat
  BY <1>1
<1>4. t[p].id = s[p].id /\ t[p].qty = s[p].qty - n /\ t[p] \in Orders
  <2>1. PICK x : x = s[p].qty - n
    OBVIOUS
  <2>2. t[p] = [s[p] EXCEPT !.qty = x] /\ x \in Nat
    BY <1>2, <1>3, <2>1
  <2>3. t[p].id = s[p].id /\ t[p].qty = x /\ t[p] \in Orders
    BY <1>1, <2>2 DEF Orders
  <2>4. QED
    BY <2>1, <2>3
<1> HIDE DEF t
<1>5. t \in Seq(Orders)
  <2>1. \A k \in 1 .. Len(s) : t[k] \in Orders
    BY <1>1, <1>2, <1>4
  <2>2. t = [k \in 1 .. Len(s) |-> t[k]]
    BY <1>1, <1>2 DEF t
  <2>3. QED
    BY <1>1, <2>1, <2>2
<1>6. \A k \in DOMAIN s : t[k].id = s[k].id
  BY <1>2, <1>4
<1>7. ASSUME NEW id, NEW q, s[p].id # id, Alone(s, id, q) PROVE Alone(t, id, q)
  <2>1. CASE q = 0
    BY <1>2, <1>6, <1>7, <2>1 DEF Alone
  <2>2. CASE q # 0
    <3>1. PICK k \in DOMAIN s : s[k].id = id /\ s[k].qty = q /\ \A j \in DOMAIN s \ {k} : s[j].id # id
      BY <1>7, <2>2 DEF Alone
    <3>2. k # p /\ t[k] = s[k]
      BY <1>2, <1>7, <3>1
    <3>3. QED
      BY <1>2, <1>6, <2>2, <3>1, <3>2 DEF Alone
  <2>3. QED
    BY <2>1, <2>2
<1>8. ASSUME NEW id, NEW q, s[p].id = id, q # 0, Alone(s, id, q)
      PROVE  s[p].qty = q /\ (q - n # 0 => Alone(t, id, q - n))
  <2>1. PICK k \in DOMAIN s : s[k].id = id /\ s[k].qty = q /\ \A j \in DOMAIN s \ {k} : s[j].id # id
    BY <1>8 DEF Alone
  <2>2. k = p
    BY <1>1, <1>8, <2>1
  <2>3. s[p].qty = q /\ t[p].qty = q - n
    BY <1>4, <2>1, <2>2
  <2>4. p \in DOMAIN t /\ t[p].id = id /\ \A j \in DOMAIN t \ {p} : t[j].id # id
    BY <1>2, <1>6, <2>1, <2>2
  <2>5. QED
    BY <2>3, <2>4 DEF Alone
<1>9. QED
  BY <1>5, <1>7, <1>8 DEF t

LEMMA FindIs ==
  ASSUME orders \in Seq(Orders), NEW id
  PROVE  /\ Find(id) = 0 => \A k \in DOMAIN orders : orders[k].id # id
         /\ Find(id) # 0 => Find(id) \in 1 .. Len(orders) /\ orders[Find(id)].id = id
<1> DEFINE I == {k \in 1 .. Len(orders) : orders[k].id = id}
<1>1. Find(id) = IF I # {} THEN Min(I) ELSE 0
  BY DEF Find, SelectInSeq
<1>2. Len(orders) \in Nat /\ DOMAIN orders = 1 .. Len(orders)
  OBVIOUS
<1>3. CASE I = {}
  BY <1>1, <1>2, <1>3
<1>4. CASE I # {}
  <2>1. I \subseteq Nat /\ 0 \notin I
    OBVIOUS
  <2>2. Min(I) \in I
    <3> HIDE DEF I
    <3>1. QED
      BY <1>4, <2>1, MinNat
  <2>3. QED
    BY <1>1, <1>4, <2>1, <2>2
<1>5. QED
  BY <1>3, <1>4

(* The quantity that rests is the one entry's. *)
LEMMA AloneRests ==
  ASSUME orders \in Seq(Orders), NEW id, NEW q, Alone(orders, id, q)
  PROVE  Resting(id) = q
<1> DEFINE D == DOMAIN orders
           g == [k \in D |-> IF orders[k].id = id THEN orders[k].qty ELSE 0]
           Is(W) == W = [t \in SUBSET D |->
                           IF t = {} THEN 0
                           ELSE LET x == CHOOSE x \in t : TRUE
                                IN IF orders[x].id = id THEN W[t \ {x}] + orders[x].qty
                                   ELSE W[t \ {x}]]
           Table == CHOOSE W : Is(W)
<1>1. /\ D = 1 .. Len(orders) /\ IsFiniteSet(D) /\ \A k \in D : orders[k] \in Orders
      /\ \A k \in D : g[k] \in Nat /\ g[k] \in Int
  <2>1. D = 1 .. Len(orders) /\ Len(orders) \in Nat /\ \A k \in D : orders[k] \in Orders
    BY LenProperties, ElementOfSeq
  <2>2. \A k \in D : orders[k].qty \in Nat
    BY <2>1 DEF Orders
  <2>3. \A k \in D : g[k] \in Nat
    BY <2>2
  <2>4. IsFiniteSet(D)
    BY <2>1, FS_Interval
  <2>5. QED
    BY <2>1, <2>3, <2>4
<1>2. Resting(id) = Table[D]
  BY DEF Resting, FoldSeq, FoldFunction, FoldFunctionOnSet, MapThenFoldSet
<1>3. PICK W : IsSum(W, g, D)
  BY <1>1, SumTableExists
<1>4. \A t \in SUBSET D : W[t] \in Int /\ W[t] = Total(g, t)
  <2>1. SUFFICES ASSUME NEW t \in SUBSET D PROVE W[t] \in Int /\ W[t] = Total(g, t)
    OBVIOUS
  <2>2. W[t] = Total(g, t)
    BY <1>1, <1>3, TotalInTable
  <2>3. IsFiniteSet(t) /\ \A x \in t : g[x] \in Int
    BY <1>1, FS_Subset
  <2> HIDE DEF g
  <2>4. QED
    BY <2>2, <2>3, TotalInt
<1>5. Is(W)
  <2>1. ASSUME NEW t \in SUBSET D, t # {}
        PROVE  LET x == CHOOSE x \in t : TRUE
               IN g[x] + W[t \ {x}] = IF orders[x].id = id THEN W[t \ {x}] + orders[x].qty
                                      ELSE W[t \ {x}]
    <3> DEFINE x == CHOOSE x \in t : TRUE
    <3>1. x \in t
      BY <2>1
    <3> HIDE DEF x
    <3>2. x \in D /\ W[t \ {x}] \in Int /\ g[x] \in Int
      BY <1>1, <1>4, <2>1, <3>1
    <3>3. g[x] = IF orders[x].id = id THEN orders[x].qty ELSE 0
      BY <3>2
    <3> HIDE DEF g
    <3>4. g[x] + W[t \ {x}] = IF orders[x].id = id THEN W[t \ {x}] + orders[x].qty ELSE W[t \ {x}]
      BY <3>2, <3>3
    <3>5. QED
      BY <3>4 DEF x
  <2> HIDE DEF g
  <2>2. [t \in SUBSET D |-> IF t = {} THEN 0 ELSE LET x == CHOOSE x \in t : TRUE IN g[x] + W[t \ {x}]]
          = [t \in SUBSET D |-> IF t = {} THEN 0
                                ELSE LET x == CHOOSE x \in t : TRUE
                                     IN IF orders[x].id = id THEN W[t \ {x}] + orders[x].qty
                                        ELSE W[t \ {x}]]
    BY <2>1
  <2>3. QED
    BY <1>3, <2>2 DEF IsSum
<1>6. Is(Table)
  <2> HIDE DEF Is
  <2>1. QED
    BY <1>5
\* Table is a table of sums too: its values at every set are the sums, by the least size.
<1>7. Table[D] = W[D]
  <2> DEFINE Bad == {k \in Nat : \E t \in SUBSET D : Cardinality(t) = k /\ Table[t] # W[t]}
  <2>1. ASSUME Bad # {} PROVE FALSE
    <3>1. PICK k \in Bad : \A j \in Bad : k <= j
      BY <2>1, LeastNat
    <3>2. PICK t \in SUBSET D : Cardinality(t) = k /\ Table[t] # W[t]
      BY <3>1
    <3> HIDE DEF Table
    <3> DEFINE x == CHOOSE x \in t : TRUE
    <3>3. Table[t] = IF t = {} THEN 0
                     ELSE IF orders[x].id = id THEN Table[t \ {x}] + orders[x].qty ELSE Table[t \ {x}]
      BY <1>6
    <3>4. W[t] = IF t = {} THEN 0
                 ELSE IF orders[x].id = id THEN W[t \ {x}] + orders[x].qty ELSE W[t \ {x}]
      BY <1>5
    <3>5. t # {}
      BY <3>2, <3>3, <3>4
    <3>6. x \in t
      BY <3>5
    <3> HIDE DEF x
    <3>7. Cardinality(t \ {x}) = k - 1 /\ k - 1 \in Nat /\ t \ {x} \in SUBSET D
      <4>1. IsFiniteSet(t) /\ IsFiniteSet(t \ {x})
        BY <1>1, FS_Subset
      <4>2. Cardinality(t \ {x}) = k - 1
        BY <3>2, <3>6, <4>1, FS_RemoveElement
      <4>3. QED
        BY <4>1, <4>2, FS_CardinalityType
    <3>8. k - 1 \notin Bad
      <4>1. k \in Nat /\ ~(k <= k - 1)
        BY <3>7
      <4> HIDE DEF Bad
      <4>2. QED
        BY <3>1, <4>1
    <3>9. Table[t \ {x}] = W[t \ {x}]
      BY <3>7, <3>8
    <3>10. QED
      BY <3>2, <3>3, <3>4, <3>9
  <2>2. D \in SUBSET D /\ Cardinality(D) \in Nat
    BY <1>1, FS_CardinalityType
  <2>3. QED
    BY <2>1, <2>2
<1>8. Resting(id) = Total(g, D)
  <2>1. D \in SUBSET D
    OBVIOUS
  <2>2. QED
    BY <1>2, <1>4, <1>7, <2>1
<1> HIDE DEF Table, Is
<1>9. CASE q = 0
  <2>1. \A k \in D : g[k] = 0
    BY <1>9 DEF Alone
  <2> HIDE DEF g, D
  <2>2. \A k \in D : g[k] \in 0 .. 0
    BY <2>1
  <2>3. Total(g, D) \in Nat /\ Total(g, D) <= Cardinality(D) * 0 /\ Cardinality(D) \in Nat
    BY <1>1, <2>2, TotalNat, TotalBounded, FS_CardinalityType
  <2>4. QED
    BY <1>8, <1>9, <2>3
<1>10. CASE q # 0
  <2>1. PICK k \in D : orders[k].id = id /\ orders[k].qty = q /\ \A j \in D \ {k} : orders[j].id # id
    BY <1>10 DEF Alone
  <2>2. g[k] = q /\ \A j \in D \ {k} : g[j] = 0
    BY <2>1
  <2> HIDE DEF g
  <2>3. Total(g, D) = g[k] + Total(g, D \ {k})
    BY <1>1, TotalWithout
  <2>4. Total(g, D \ {k}) = 0
    <3> DEFINE R == D \ {k}
    <3>1. IsFiniteSet(R)
      BY <1>1, FS_RemoveElement
    <3>2. \A j \in R : g[j] \in 0 .. 0 /\ g[j] \in Nat
      BY <2>2
    <3> HIDE DEF R
    <3>3. Total(g, R) \in Nat /\ Total(g, R) <= Cardinality(R) * 0 /\ Cardinality(R) \in Nat
      BY <3>1, <3>2, TotalNat, TotalBounded, FS_CardinalityType
    <3>4. QED
      BY <3>3 DEF R
  <2>5. g[k] \in Int
    BY <1>1
  <2>6. QED
    BY <1>8, <2>2, <2>3, <2>4, <2>5
<1>11. QED
  BY <1>9, <1>10

(* The feed. *)
LEMMA TruthType ==
  ASSUME LossyInv
  PROVE  \A m \in 0 .. Len(sent) : Truth(m) \in [1 .. MaxIds -> Nat]
<1>1. \A m \in 1 .. Len(sent) : exchange[m] \in [1 .. MaxIds -> Nat]
  BY DEF LossyInv, LossyTypes
<1>2. [id \in 1 .. MaxIds |-> 0] \in [1 .. MaxIds -> Nat]
  OBVIOUS
<1>3. QED
  BY <1>1, <1>2 DEF Truth

LEMMA InitLossy == LossyInit => LossyInv
<1> SUFFICES ASSUME LossyInit PROVE LossyInv
  OBVIOUS
<1>1. LossyTypes
  BY LossyAssumption, GuardAssumption DEF LossyInit, GuardInit, LossyTypes
<1>2. Len(sent) = 0 /\ delivered = << >> /\ orders = << >> /\ refused = {}
  BY DEF LossyInit, GuardInit
<1>3. FeedRight
  <2>1. \A a, b \in 0 .. 0 : a = b
    OBVIOUS
  <2>2. QED
    BY <1>2, <2>1 DEF FeedRight
<1>4. LocalInv
  <2>1. SUFFICES ASSUME NEW id \in 1 .. MaxIds PROVE Alone(orders, id, Held(id))
    BY DEF LocalInv
  <2>2. Own(id) = {}
    BY <1>2 DEF Own
  <2>3. Held(id) = 0
    BY <2>2 DEF NewestOf, Truth, Held
  <2>4. QED
    BY <1>2, <2>3 DEF Alone
<1>5. RefusedCame
  BY <1>2 DEF RefusedCame
<1>6. QED
  BY <1>1, <1>3, <1>4, <1>5 DEF LossyInv

(* A message the exchange sends tells of one order, and of a new one if it adds. *)
Tells(type, id, n) ==
  /\ type \in {"Add", "Cancel", "Execute"} /\ id \in 1 .. next_id_' /\ n \in Nat
  /\ next_id_' \in next_id_ .. MaxIds /\ live_' \subseteq 1 .. next_id_'
  /\ type = "Add" => n # 0 /\ id = next_id_ + 1

(* What sending it changes, and what it leaves; L messages have been sent before. *)
SentOne(type, id, n, L) ==
  /\ L \in Nat /\ Len(sent') = L + 1 /\ Len(sent') <= MaxMessage
  /\ sent' \in Seq(Messages) /\ sent'[L + 1] = [type |-> type, id |-> id, qty |-> n]
  /\ \A k \in 1 .. L : sent'[k] = sent[k] /\ sent[k] \in Messages
  /\ exchange' \in Seq([1 .. MaxIds -> Nat]) /\ Len(exchange') = Len(sent')
  /\ \A m \in 0 .. L : Truth(m)' = Truth(m)
  /\ \A x \in 1 .. MaxIds : x # id => (Truth(L + 1)')[x] = Truth(L)[x]
  /\ (Truth(L + 1)')[id]
       = IF type = "Add" THEN n
         ELSE IF n = 0 \/ n > Truth(L)[id] THEN 0 ELSE Truth(L)[id] - n
  /\ delivered' = delivered /\ orders' = orders /\ refused' = refused

LEMMA SendFacts ==
  ASSUME LossyInv, NEW type, NEW id, NEW n, Tells(type, id, n), Send(type, id, n),
         NEW L, L = Len(sent)
  PROVE  SentOne(type, id, n, L)
<1> DEFINE before == Truth(L)
           left == IF type = "Add" THEN n
                   ELSE IF n = 0 \/ n > before[id] THEN 0 ELSE before[id] - n
           msg == [type |-> type, id |-> id, qty |-> n]
<1>1. /\ sent \in Seq(Messages) /\ L \in Nat /\ MaxMessage \in Nat
      /\ exchange \in Seq([1 .. MaxIds -> Nat]) /\ Len(exchange) = L
      /\ id \in 1 .. MaxIds /\ n \in Nat /\ MaxIds \in Nat
  BY LossyAssumption, GuardAssumption DEF LossyInv, LossyTypes, Tells
<1>2. before \in [1 .. MaxIds -> Nat]
  BY <1>1, TruthType
<1>3. left \in Nat
  <2>1. before[id] \in Nat
    BY <1>1, <1>2
  <2>2. QED
    BY <1>1, <2>1
<1>4. L < MaxMessage /\ sent' = Append(sent, msg) /\ exchange' = Append(exchange, [before EXCEPT ![id] = left])
      /\ delivered' = delivered /\ orders' = orders /\ refused' = refused
  BY DEF Send, guardVars
<1>5. msg \in Messages
  BY <1>1 DEF Messages, Tells
<1> HIDE DEF msg
<1>6. /\ sent' \in Seq(Messages) /\ Len(sent') = L + 1 /\ sent'[L + 1] = msg
      /\ \A k \in 1 .. L : sent'[k] = sent[k] /\ sent[k] \in Messages
  BY <1>1, <1>4, <1>5, AppendProperties
<1>7. PICK e : e = [before EXCEPT ![id] = left]
  OBVIOUS
<1> HIDE DEF left
<1>8. e \in [1 .. MaxIds -> Nat] /\ e[id] = left /\ \A x \in 1 .. MaxIds : x # id => e[x] = before[x]
  BY <1>1, <1>2, <1>3, <1>7
<1>9. /\ exchange' \in Seq([1 .. MaxIds -> Nat]) /\ Len(exchange') = L + 1 /\ exchange'[L + 1] = e
      /\ \A k \in 1 .. L : exchange'[k] = exchange[k]
  <2>1. exchange' = Append(exchange, e)
    BY <1>4, <1>7
  <2>2. QED
    BY <1>1, <1>8, <2>1, AppendProperties
<1>10. \A m \in 0 .. L : Truth(m)' = Truth(m)
  BY <1>9 DEF Truth
<1>11. Truth(L + 1)' = e
  <2>1. L + 1 # 0
    BY <1>1
  <2>2. QED
    BY <1>9, <2>1 DEF Truth
<1>12. Len(sent') <= MaxMessage /\ Len(exchange') = Len(sent')
  BY <1>1, <1>4, <1>6, <1>9
<1>13. sent'[L + 1] = [type |-> type, id |-> id, qty |-> n]
  BY <1>6 DEF msg
<1>14. \A x \in 1 .. MaxIds : x # id => (Truth(L + 1)')[x] = Truth(L)[x]
  BY <1>8, <1>11
<1>15. (Truth(L + 1)')[id]
         = IF type = "Add" THEN n
           ELSE IF n = 0 \/ n > Truth(L)[id] THEN 0 ELSE Truth(L)[id] - n
  BY <1>8, <1>11 DEF left
<1> HIDE DEF before
<1>16. QED
  BY <1>1, <1>4, <1>6, <1>9, <1>10, <1>12, <1>13, <1>14, <1>15 DEF SentOne

LEMMA SendKeeps ==
  ASSUME LossyInv, NEW type, NEW id, NEW n, Tells(type, id, n), Send(type, id, n)
  PROVE  LossyInv'
<1>1. PICK L : L = Len(sent)
  OBVIOUS
<1>2. /\ L \in Nat /\ Len(sent') = L + 1 /\ Len(sent') <= MaxMessage
      /\ sent' \in Seq(Messages) /\ sent'[L + 1] = [type |-> type, id |-> id, qty |-> n]
      /\ \A k \in 1 .. L : sent'[k] = sent[k] /\ sent[k] \in Messages
      /\ exchange' \in Seq([1 .. MaxIds -> Nat]) /\ Len(exchange') = Len(sent')
      /\ \A m \in 0 .. L : Truth(m)' = Truth(m)
      /\ \A x \in 1 .. MaxIds : x # id => (Truth(L + 1)')[x] = Truth(L)[x]
      /\ (Truth(L + 1)')[id]
           = IF type = "Add" THEN n
             ELSE IF n = 0 \/ n > Truth(L)[id] THEN 0 ELSE Truth(L)[id] - n
      /\ delivered' = delivered /\ orders' = orders /\ refused' = refused
  <2>1. SentOne(type, id, n, L)
    BY <1>1, SendFacts
  <2>2. QED
    BY <2>1 DEF SentOne
<1>3. /\ id \in 1 .. MaxIds /\ n \in Nat /\ MaxIds \in Nat
      /\ next_id_ \in 0 .. MaxIds /\ next_id_' \in next_id_ .. MaxIds
      /\ delivered \in Seq(Nat) /\ \A j \in DOMAIN delivered : delivered[j] \in 1 .. L
  BY <1>1, LossyAssumption DEF LossyInv, LossyTypes, Tells
<1>4. LossyTypes'
  <2>1. next_id_' \in 0 .. MaxIds /\ live_' \subseteq 1 .. next_id_'
    BY <1>3 DEF Tells
  <2>2. \A j \in DOMAIN delivered' : delivered'[j] \in 1 .. Len(sent')
    BY <1>2, <1>3
  <2>3. orders \in Seq(Orders) /\ refused \subseteq 1 .. MaxIds
    BY DEF LossyInv, LossyTypes
  <2>4. Orders' = Orders /\ Messages' = Messages
    BY DEF Orders, Messages
  <2>5. QED
    BY <1>2, <1>3, <2>1, <2>2, <2>3, <2>4 DEF LossyTypes
<1>5. FeedRight'
  <2>1. \A m \in 1 .. L + 1 : m # L + 1 => m \in 1 .. L /\ m - 1 \in 0 .. L /\ m \in 0 .. L
    BY <1>2
  <2>2. ASSUME NEW m \in 1 .. L + 1
        PROVE  /\ sent'[m].id \in 1 .. next_id_'
               /\ sent'[m].type = "Add" =>
                    sent'[m].qty # 0 /\ \A k \in 1 .. m - 1 : sent'[k].id # sent'[m].id
    <3>1. CASE m = L + 1
      <4>1. \A k \in 1 .. m - 1 : k \in 1 .. L /\ sent'[k].id \in 1 .. next_id_
        BY <1>1, <1>2, <3>1 DEF LossyInv, FeedRight
      <4>2. sent'[m].id = id /\ sent'[m].type = type /\ sent'[m].qty = n
        BY <1>2, <3>1
      <4>3. id = next_id_ + 1 => \A k \in 1 .. m - 1 : sent'[k].id # id
        BY <1>3, <4>1
      <4>4. QED
        BY <4>2, <4>3 DEF Tells
    <3>2. CASE m # L + 1
      <4>1. m \in 1 .. L /\ sent'[m] = sent[m] /\ \A k \in 1 .. m - 1 : k \in 1 .. L
        BY <1>2, <2>1, <3>2
      <4>2. /\ sent[m].id \in 1 .. next_id_
            /\ sent[m].type = "Add" =>
                 sent[m].qty # 0 /\ \A k \in 1 .. m - 1 : sent[k].id # sent[m].id
        BY <1>1, <4>1 DEF LossyInv, FeedRight
      <4>3. 1 .. next_id_ \subseteq 1 .. next_id_'
        BY <1>3
      <4>4. \A k \in 1 .. m - 1 : sent'[k].id = sent[k].id
        BY <1>2, <4>1
      <4>5. QED
        BY <4>1, <4>2, <4>3, <4>4
    <3>3. QED
      BY <3>1, <3>2
  <2>3. ASSUME NEW m \in 1 .. L + 1
        PROVE  (Truth(m)')[sent'[m].id] = LeftBy(m, Truth(m - 1)[sent[m].id])'
    <3>1. CASE m = L + 1
      <4>1. m - 1 = L /\ sent'[m].id = id /\ sent'[m].type = type /\ sent'[m].qty = n
        BY <1>2, <3>1
      <4>2. Truth(m - 1)' = Truth(L)
        BY <1>2, <4>1
      <4>3. QED
        BY <1>2, <3>1, <4>1, <4>2 DEF LeftBy
    <3>2. CASE m # L + 1
      <4>1. m \in 1 .. L /\ sent'[m] = sent[m] /\ Truth(m)' = Truth(m) /\ Truth(m - 1)' = Truth(m - 1)
        BY <1>2, <2>1, <3>2
      <4>2. Truth(m)[sent[m].id] = LeftBy(m, Truth(m - 1)[sent[m].id])
        BY <1>1, <4>1 DEF LossyInv, FeedRight
      <4>3. QED
        BY <4>1, <4>2 DEF LeftBy
    <3>3. QED
      BY <3>1, <3>2
  <2>4. ASSUME NEW a \in 0 .. L + 1, NEW b \in 0 .. L + 1, NEW x \in 1 .. MaxIds, a <= b,
               \A m \in a + 1 .. b : sent'[m].id # x
        PROVE  (Truth(a)')[x] = (Truth(b)')[x]
    <3>1. CASE b = L + 1 /\ a = L + 1
      BY <3>1
    <3>2. CASE b = L + 1 /\ a # L + 1
      <4>1. a \in 0 .. L /\ L \in 0 .. L /\ a <= L /\ L + 1 \in a + 1 .. b
            /\ \A m \in a + 1 .. L : m \in a + 1 .. b /\ m \in 1 .. L
        BY <1>2, <3>2
      <4>2. id # x
        BY <1>2, <2>4, <4>1
      <4>3. \A m \in a + 1 .. L : sent[m].id # x
        BY <1>2, <2>4, <4>1
      <4>4. Truth(a)[x] = Truth(L)[x]
        BY <1>1, <4>1, <4>3 DEF LossyInv, FeedRight
      <4>5. QED
        BY <1>2, <3>2, <4>1, <4>2, <4>4
    <3>3. CASE b # L + 1
      <4>1. a \in 0 .. L /\ b \in 0 .. L /\ \A m \in a + 1 .. b : m \in 1 .. L
        BY <1>2, <2>4, <3>3
      <4>2. \A m \in a + 1 .. b : sent[m].id # x
        BY <1>2, <2>4, <4>1
      <4>3. Truth(a)[x] = Truth(b)[x]
        BY <1>1, <2>4, <4>1, <4>2 DEF LossyInv, FeedRight
      <4>4. QED
        BY <1>2, <4>1, <4>3
    <3>4. QED
      BY <3>1, <3>2, <3>3
  <2>5. Len(sent') = L + 1
    BY <1>2
  <2>6. \A m \in 1 .. L + 1 : (Truth(m)[sent[m].id] = LeftBy(m, Truth(m - 1)[sent[m].id]))'
    BY <2>3
  <2>7. \A m \in 1 .. Len(sent') :
          /\ sent'[m].id \in 1 .. next_id_'
          /\ sent'[m].type = "Add" =>
               sent'[m].qty # 0 /\ \A k \in 1 .. m - 1 : sent'[k].id # sent'[m].id
    BY ONLY <2>2, <2>5
  <2>8. \A m \in 1 .. Len(sent') : (Truth(m)[sent[m].id] = LeftBy(m, Truth(m - 1)[sent[m].id]))'
    BY <2>5, <2>6
  <2>9. \A a, b \in 0 .. Len(sent'), x \in 1 .. MaxIds :
          a <= b /\ (\A m \in a + 1 .. b : sent'[m].id # x) => (Truth(a)')[x] = (Truth(b)')[x]
    BY <2>4, <2>5
  <2>10. QED
    BY ONLY <2>7, <2>8, <2>9 DEF FeedRight
<1>o. \A x : Own(x)' = Own(x)
  <2>1. \A j \in DOMAIN delivered : sent'[delivered[j]] = sent[delivered[j]]
    BY <1>2, <1>3
  <2>2. QED
    BY <1>2, <2>1 DEF Own
<1>6. LocalInv'
  <2>1. SUFFICES ASSUME NEW x \in 1 .. MaxIds, InStep(x)'
                 PROVE  Alone(orders, x, Held(x))'
    BY DEF LocalInv
  <2>3. Own(x)' = Own(x)
    BY <1>o
  <2>4. InStep(x)
    <3>1. SUFFICES ASSUME NEW k \in Own(x)
                   PROVE  /\ \A j \in Own(x) : j < k => delivered[j] < delivered[k]
                          /\ \A m \in 1 .. delivered[k] - 1 :
                               sent[m].id = x => \E j \in Own(x) : delivered[j] = m
      BY DEF InStep
    <3>2. k \in DOMAIN delivered /\ delivered[k] \in 1 .. L
      BY <1>3 DEF Own
    <3>3. \A m \in 1 .. delivered[k] - 1 : sent'[m] = sent[m]
      BY <1>2, <3>2
    <3>4. /\ \A j \in Own(x) : j < k => delivered[j] < delivered[k]
          /\ \A m \in 1 .. delivered[k] - 1 :
               sent'[m].id = x => \E j \in Own(x) : delivered[j] = m
      BY <1>2, <2>1, <2>3 DEF InStep
    <3>5. QED
      BY <3>3, <3>4
  <2>5. PICK a : a = NewestOf(x)
    OBVIOUS
  <2>6. NewestOf(x)' = a
    BY <1>2, <2>3, <2>5 DEF NewestOf
  <2>7. a \in 0 .. L
    <3>1. CASE Own(x) = {}
      BY <1>2, <2>5, <3>1 DEF NewestOf
    <3>2. CASE Own(x) # {}
      <4>1. Own(x) \subseteq 0 .. Len(delivered) /\ Len(delivered) \in Nat
        BY <1>3 DEF Own
      <4>2. Max(Own(x)) \in Own(x)
        BY <3>2, <4>1, MaxBounded
      <4>3. delivered[Max(Own(x))] \in 1 .. L
        BY <1>3, <4>2 DEF Own
      <4>4. QED
        BY <1>2, <2>5, <3>2, <4>3 DEF NewestOf
    <3>3. QED
      BY <3>1, <3>2
  <2>8. Alone(orders, x, Held(x))
    BY <2>4 DEF LossyInv, LocalInv
  <2>9. Truth(a)' = Truth(a)
    BY <1>2, <2>7
  <2>10. Truth(NewestOf(x))' = Truth(a)
    BY <2>6, <2>9 DEF Truth
  <2>11. Held(x)' = Held(x)
    BY <1>2, <2>5, <2>10 DEF Held
  <2>12. QED
    BY <1>2, <2>8, <2>11 DEF Alone
<1>7. RefusedCame'
  BY <1>2, <1>o DEF LossyInv, RefusedCame
<1>8. QED
  BY <1>4, <1>5, <1>6, <1>7 DEF LossyInv

(* A message handled. *)
LEMMA HandleFacts ==
  ASSUME LossyInv, NEW i \in DOMAIN sent, Handle(i), NEW D, D = Len(delivered)
  PROVE  /\ D \in Nat /\ DOMAIN delivered = 1 .. D /\ DOMAIN delivered' = 1 .. D + 1
         /\ i \in 1 .. Len(sent) /\ delivered'[D + 1] = i /\ delivered' \in Seq(Nat)
         /\ \A k \in 1 .. D : delivered'[k] = delivered[k] /\ delivered[k] \in 1 .. Len(sent)
         /\ sent[i] \in Messages /\ sent[i].id \in 1 .. MaxIds /\ sent[i].qty \in Nat
<1>1. delivered' = Append(delivered, i)
  BY DEF Handle, Numbered, Deliver
<1>2. /\ delivered \in Seq(Nat) /\ D \in Nat /\ DOMAIN delivered = 1 .. D
      /\ sent \in Seq(Messages) /\ DOMAIN sent = 1 .. Len(sent) /\ Len(sent) \in Nat
  BY DEF LossyInv, LossyTypes
<1>3. i \in Nat /\ i \in 1 .. Len(sent)
  BY <1>2
<1>4. /\ delivered' \in Seq(Nat) /\ Len(delivered') = D + 1 /\ delivered'[D + 1] = i
      /\ \A k \in 1 .. D : delivered'[k] = delivered[k]
  BY <1>1, <1>2, <1>3, AppendProperties
<1>5. DOMAIN delivered' = 1 .. D + 1
  BY <1>4, LenProperties
<1>6. \A k \in 1 .. D : delivered[k] \in 1 .. Len(sent)
  BY <1>2 DEF LossyInv, LossyTypes
<1>7. sent[i] \in Messages
  BY <1>2
<1>8. sent[i].id \in 1 .. MaxIds /\ sent[i].qty \in Nat
  BY <1>7 DEF Messages
<1>9. QED
  BY <1>2, <1>3, <1>4, <1>5, <1>6, <1>7, <1>8

(* What the message does to the entries of another order, and to those of its own. *)
LEMMA OrdersAfter ==
  ASSUME LossyInv, NEW i \in DOMAIN sent, Handle(i)
  PROVE  /\ orders' \in Seq(Orders)
         /\ \A x \in 1 .. MaxIds : \A q : x # sent[i].id /\ Alone(orders, x, q) => Alone(orders', x, q)
         /\ \A q \in Nat : /\ Alone(orders, sent[i].id, q)
                           /\ sent[i].type = "Add" => q = 0 /\ sent[i].qty # 0
                           => Alone(orders', sent[i].id,
                                     IF sent[i].type = "Add" /\ Exhausted THEN 0 ELSE LeftBy(i, q))
<1>1. /\ orders \in Seq(Orders) /\ Len(orders) \in Nat /\ DOMAIN orders = 1 .. Len(orders)
      /\ sent[i] \in Messages /\ sent[i].id \in 1 .. MaxIds /\ sent[i].qty \in Nat
  <2>1. PICK D : D = Len(delivered)
    OBVIOUS
  <2>2. sent[i] \in Messages /\ sent[i].id \in 1 .. MaxIds /\ sent[i].qty \in Nat
    BY <2>1, HandleFacts
  <2>3. QED
    BY <2>2 DEF LossyInv, LossyTypes
<1>2. PICK me, n : me = sent[i].id /\ n = sent[i].qty
  OBVIOUS
<1>x. CASE sent[i].type = "Add" /\ Exhausted
  <2>1. orders' = orders
    BY <1>x DEF Handle, OnAdd
  <2>2. QED
    BY <1>1, <1>x, <2>1
<1>3. CASE sent[i].type = "Add" /\ ~Exhausted
  <2>1. PICK o : o = [id |-> me, qty |-> n]
    OBVIOUS
  <2>2. o \in Orders /\ o.id = me /\ o.qty = n /\ orders' = Append(orders, o)
    BY <1>1, <1>2, <1>3, <2>1 DEF Orders, Handle, OnAdd
  <2>3. orders' \in Seq(Orders)
    BY <1>1, <2>2, AppendProperties
  <2>4. \A x \in 1 .. MaxIds : \A q : x # me /\ Alone(orders, x, q) => Alone(orders', x, q)
    BY <1>1, <2>2, AloneAppended
  <2>5. n # 0 /\ Alone(orders, me, 0) => Alone(orders', me, n)
    BY <1>1, <2>2, FirstAppended
  <2>6. \A q \in Nat : LeftBy(i, q) = n
    BY <1>2, <1>3 DEF LeftBy
  <2>7. QED
    BY <1>2, <1>3, <2>3, <2>4, <2>5, <2>6
<1>4. CASE sent[i].type # "Add"
  <2>1. PICK p : p = Find(me)
    OBVIOUS
  <2>2. orders' = IF p = 0 THEN orders
                  ELSE IF n = 0 \/ n >= orders[p].qty THEN RemoveAt(orders, p)
                  ELSE [orders EXCEPT ![p].qty = @ - n]
    BY <1>2, <1>4, <2>1 DEF Handle, OnReduce
  <2>3. /\ p = 0 => \A k \in DOMAIN orders : orders[k].id # me
        /\ p # 0 => p \in 1 .. Len(orders) /\ orders[p].id = me
    BY <1>1, <2>1, FindIs
  <2>4. \A q \in Nat : LeftBy(i, q) = IF n = 0 \/ n > q THEN 0 ELSE q - n
    BY <1>2, <1>4 DEF LeftBy
  <2>5. CASE p = 0
    <3>1. orders' = orders
      BY <2>2, <2>5
    <3>2. \A q \in Nat : Alone(orders, me, q) => q = 0
      BY <2>3, <2>5 DEF Alone
    <3>3. LeftBy(i, 0) = 0
      BY <1>1, <1>2, <2>4
    <3>4. QED
      BY <1>1, <1>2, <1>4, <3>1, <3>2, <3>3
  <2>6. CASE p # 0
    <3>1. p \in 1 .. Len(orders) /\ orders[p].id = me /\ orders[p] \in Orders /\ orders[p].qty \in Nat
          /\ n \in Nat
      <4>1. p \in 1 .. Len(orders) /\ orders[p].id = me /\ orders[p] \in Orders
        BY <1>1, <2>3, <2>6
      <4>2. orders[p].qty \in Nat
        BY <4>1 DEF Orders
      <4>3. QED
        BY <1>1, <1>2, <4>1, <4>2
    <3>2. \A q \in Nat : Alone(orders, me, q) => q # 0 /\ orders[p].qty = q
      <4>1. SUFFICES ASSUME NEW q \in Nat, Alone(orders, me, q) PROVE q # 0 /\ orders[p].qty = q
        OBVIOUS
      <4>2. q # 0
        BY <1>1, <3>1, <4>1 DEF Alone
      <4>3. QED
        BY <1>1, <3>1, <4>1, <4>2, OnlyRemoved
    <3>3. CASE n = 0 \/ n >= orders[p].qty
      <4>1. orders' = RemoveAt(orders, p)
        BY <2>2, <2>6, <3>3
      <4>2. orders' \in Seq(Orders)
        BY <1>1, <3>1, <4>1, RemoveAtIs
      <4>3. \A x \in 1 .. MaxIds : \A q : x # me /\ Alone(orders, x, q) => Alone(orders', x, q)
        BY <1>1, <3>1, <4>1, OtherRemoved
      <4>4. ASSUME NEW q \in Nat, Alone(orders, me, q) PROVE Alone(orders', me, LeftBy(i, q))
        <5>1. q # 0 /\ orders[p].qty = q
          BY <3>2, <4>4
        <5>2. Alone(orders', me, 0)
          BY <1>1, <3>1, <4>1, <4>4, <5>1, OnlyRemoved
        <5>3. LeftBy(i, q) = 0
          BY <2>4, <3>1, <3>3, <5>1
        <5>4. QED
          BY <5>2, <5>3
      <4>5. QED
        BY <1>2, <1>4, <4>2, <4>3, <4>4
    <3>4. CASE ~(n = 0 \/ n >= orders[p].qty)
      <4>1. orders' = [orders EXCEPT ![p].qty = @ - n] /\ n < orders[p].qty
        BY <2>2, <2>6, <3>1, <3>4
      <4>2. /\ orders' \in Seq(Orders)
            /\ \A x, q : orders[p].id # x /\ Alone(orders, x, q) => Alone(orders', x, q)
            /\ \A x, q : orders[p].id = x /\ q # 0 /\ Alone(orders, x, q)
                 => orders[p].qty = q /\ (q - n # 0 => Alone(orders', x, q - n))
        BY <1>1, <3>1, <4>1, Reduced
      <4>3. \A x \in 1 .. MaxIds : \A q : x # me /\ Alone(orders, x, q) => Alone(orders', x, q)
        BY <3>1, <4>2
      <4>4. ASSUME NEW q \in Nat, Alone(orders, me, q) PROVE Alone(orders', me, LeftBy(i, q))
        <5>1. q # 0 /\ orders[p].qty = q
          BY <3>2, <4>4
        <5>2. q - n # 0 /\ LeftBy(i, q) = q - n
          BY <2>4, <3>1, <3>4, <5>1
        <5>3. QED
          BY <3>1, <4>2, <4>4, <5>1, <5>2
      <4>5. QED
        BY <1>2, <1>4, <4>2, <4>3, <4>4
    <3>5. QED
      BY <3>3, <3>4
  <2>7. QED
    BY <2>5, <2>6
<1>5. QED
  BY <1>x, <1>3, <1>4

(* The newest message of an order, among those delivered. *)
LEMMA NewestIs ==
  ASSUME LossyInv, NEW x
  PROVE  /\ Own(x) \subseteq 1 .. Len(delivered)
         /\ Own(x) = {} => NewestOf(x) = 0
         /\ Own(x) # {} => /\ Max(Own(x)) \in Own(x) /\ NewestOf(x) = delivered[Max(Own(x))]
                           /\ \A k \in Own(x) : k <= Max(Own(x))
         /\ NewestOf(x) \in 0 .. Len(sent)
<1>1. /\ DOMAIN delivered = 1 .. Len(delivered) /\ Len(delivered) \in Nat /\ Len(sent) \in Nat
      /\ \A k \in DOMAIN delivered : delivered[k] \in 1 .. Len(sent)
  BY DEF LossyInv, LossyTypes
<1>2. Own(x) \subseteq 1 .. Len(delivered) /\ Own(x) \subseteq 0 .. Len(delivered)
  BY <1>1 DEF Own
<1>3. CASE Own(x) = {}
  BY <1>1, <1>2, <1>3 DEF NewestOf
<1>4. CASE Own(x) # {}
  <2>1. Max(Own(x)) \in Own(x) /\ \A k \in Own(x) : k <= Max(Own(x))
    BY <1>1, <1>2, <1>4, MaxBounded
  <2>2. NewestOf(x) = delivered[Max(Own(x))]
    BY <1>4 DEF NewestOf
  <2>3. delivered[Max(Own(x))] \in 0 .. Len(sent)
    BY <1>1, <1>2, <2>1
  <2>4. QED
    BY <1>2, <1>4, <2>1, <2>2, <2>3
<1>5. QED
  BY <1>3, <1>4

LEMMA OtherUntouched ==
  ASSUME LossyInv, NEW i \in DOMAIN sent, Handle(i), NEW x, x # sent[i].id
  PROVE  (InStep(x)' => InStep(x)) /\ NewestOf(x)' = NewestOf(x)
<1>1. PICK D : D = Len(delivered)
  OBVIOUS
<1>2. /\ D \in Nat /\ DOMAIN delivered = 1 .. D /\ DOMAIN delivered' = 1 .. D + 1
      /\ delivered'[D + 1] = i /\ \A k \in 1 .. D : delivered'[k] = delivered[k]
      /\ sent' = sent
  BY <1>1, HandleFacts DEF Handle, feed
<1>3. Own(x)' = Own(x) /\ Own(x) \subseteq 1 .. D
  <2>1. \A k \in 1 .. D + 1 : k # D + 1 => k \in 1 .. D
    BY <1>2
  <2>2. QED
    BY <1>2, <2>1 DEF Own
<1>4. \A k \in Own(x) : delivered'[k] = delivered[k]
  BY <1>2, <1>3
<1>5. InStep(x)' => InStep(x)
  BY <1>2, <1>3, <1>4 DEF InStep
<1>6. NewestOf(x)' = NewestOf(x)
  <2>1. CASE Own(x) = {}
    BY <1>3, <2>1 DEF NewestOf
  <2>2. CASE Own(x) # {}
    <3>1. Max(Own(x)) \in Own(x)
      BY <2>2, NewestIs
    <3>2. QED
      BY <1>3, <1>4, <2>2, <3>1 DEF NewestOf
  <2>3. QED
    BY <2>1, <2>2
<1>7. QED
  BY <1>5, <1>6

(* An order in step after its message was in step before, and nothing of it came between. *)
LEMMA OwnAdvances ==
  ASSUME LossyInv, NEW i \in DOMAIN sent, Handle(i), NEW x, x = sent[i].id, InStep(x)'
  PROVE  /\ InStep(x) /\ NewestOf(x)' = i
         /\ NewestOf(x) < i /\ \A m \in NewestOf(x) + 1 .. i - 1 : sent[m].id # x
<1>1. PICK D : D = Len(delivered)
  OBVIOUS
<1>2. /\ D \in Nat /\ DOMAIN delivered = 1 .. D /\ DOMAIN delivered' = 1 .. D + 1
      /\ delivered'[D + 1] = i /\ \A k \in 1 .. D : delivered'[k] = delivered[k]
      /\ \A k \in 1 .. D : delivered[k] \in 1 .. Len(sent)
      /\ i \in 1 .. Len(sent) /\ Len(sent) \in Nat /\ sent' = sent
  <2>1. Len(sent) \in Nat
    BY DEF LossyInv, LossyTypes
  <2>2. QED
    BY <1>1, <2>1, HandleFacts DEF Handle, feed
<1>3. Own(x)' = Own(x) \cup {D + 1} /\ Own(x) \subseteq 1 .. D
  <2>1. \A k : k \in 1 .. D + 1 <=> k \in 1 .. D \/ k = D + 1
    BY <1>2
  <2>2. \A k : k \in Own(x) <=> k \in 1 .. D /\ sent[delivered[k]].id = x
    BY <1>2 DEF Own
  <2>3. \A k : k \in Own(x)' <=> k \in 1 .. D + 1 /\ sent[delivered'[k]].id = x
    BY <1>2 DEF Own
  <2>4. \A k : k \in Own(x)' <=> k \in Own(x) \/ k = D + 1
    BY <1>2, <2>1, <2>2, <2>3
  <2>5. QED
    BY <2>2, <2>4
<1>4. \A k \in Own(x) : k < D + 1 /\ delivered'[k] = delivered[k] /\ delivered[k] \in 1 .. Len(sent)
  BY <1>2, <1>3
<1>5. \A k \in Own(x) : delivered[k] < i
  BY <1>2, <1>3, <1>4 DEF InStep
<1>6. \A n \in 1 .. i - 1 : sent[n].id = x => \E j \in Own(x) : delivered[j] = n
  <2>1. SUFFICES ASSUME NEW n \in 1 .. i - 1, sent[n].id = x PROVE \E j \in Own(x) : delivered[j] = n
    OBVIOUS
  <2>2. PICK j \in Own(x)' : delivered'[j] = n
    BY <1>2, <1>3, <2>1 DEF InStep
  <2>3. n # i
    BY <1>2
  <2>4. j \in Own(x)
    BY <1>2, <1>3, <2>2, <2>3
  <2>5. QED
    BY <1>4, <2>2, <2>4
<1>7. InStep(x)
  <2>1. SUFFICES ASSUME NEW k \in Own(x)
                 PROVE  /\ \A j \in Own(x) : j < k => delivered[j] < delivered[k]
                        /\ \A n \in 1 .. delivered[k] - 1 :
                             sent[n].id = x => \E j \in Own(x) : delivered[j] = n
    BY DEF InStep
  <2>2. \A j \in Own(x) : j < k => delivered[j] < delivered[k]
    BY <1>3, <1>4 DEF InStep
  <2>3. \A n \in 1 .. delivered[k] - 1 : n \in 1 .. i - 1
    BY <1>2, <1>4, <1>5
  <2>4. QED
    BY <1>6, <2>2, <2>3
<1>8. NewestOf(x)' = i
  <2>1. Max(Own(x)') = D + 1
    <3>1. Own(x)' \subseteq 0 .. D + 1 /\ D + 1 \in Own(x)'
      BY <1>2, <1>3
    <3>2. PICK S : S = Own(x)'
      OBVIOUS
    <3>3. S \subseteq 0 .. D + 1 /\ D + 1 \in S /\ D + 1 \in Nat
      BY <1>2, <3>1, <3>2
    <3>4. Max(S) \in S /\ D + 1 <= Max(S)
      BY <3>3, MaxBounded
    <3>5. Max(S) = D + 1
      <4>1. PICK t : t = Max(S)
        OBVIOUS
      <4>2. t \in 0 .. D + 1 /\ D + 1 <= t
        BY <3>3, <3>4, <4>1
      <4>3. QED
        BY <1>2, <4>1, <4>2
    <3>6. QED
      BY <3>2, <3>5
  <2>2. D + 1 \in Own(x)'
    BY <1>3
  <2>3. QED
    BY <1>2, <2>1, <2>2 DEF NewestOf
<1>9. PICK a : a = NewestOf(x)
  OBVIOUS
<1>10. a \in Nat /\ a < i /\ \A j \in Own(x) : delivered[j] <= a
  <2>1. CASE Own(x) = {}
    <3>1. a = 0
      BY <1>9, <2>1, NewestIs
    <3>2. QED
      BY <1>2, <2>1, <3>1
  <2>2. CASE Own(x) # {}
    <3>1. PICK t \in Own(x) : a = delivered[t] /\ \A k \in Own(x) : k <= t
      BY <1>9, <2>2, NewestIs
    <3>2. ASSUME NEW j \in Own(x) PROVE delivered[j] <= a
      <4>1. j \in 1 .. D /\ t \in 1 .. D /\ j <= t
        BY <1>3, <3>1
      <4>2. j < t => delivered[j] < delivered[t]
        BY <1>7, <3>1 DEF InStep
      <4>3. QED
        BY <1>4, <3>1, <4>1, <4>2
    <3>3. QED
      BY <1>4, <1>5, <3>1, <3>2
  <2>3. QED
    BY <2>1, <2>2
<1>11. ASSUME NEW m \in a + 1 .. i - 1, sent[m].id = x PROVE FALSE
  <2>1. m \in 1 .. i - 1 /\ ~(m <= a)
    BY <1>2, <1>10
  <2>2. PICK j \in Own(x) : delivered[j] = m
    BY <1>6, <1>11, <2>1
  <2>3. QED
    BY <1>10, <2>1, <2>2
<1>12. QED
  BY <1>7, <1>8, <1>9, <1>10, <1>11

LEMMA FeedKept ==
  ASSUME FeedRight, sent' = sent, exchange' = exchange, next_id_' = next_id_
  PROVE  FeedRight'
<1>1. \A m : Truth(m)' = Truth(m)
  BY DEF Truth
<1>2. \A m, b : LeftBy(m, b)' = LeftBy(m, b)
  BY DEF LeftBy
<1>3. \A m \in 1 .. Len(sent) : (Truth(m)[sent[m].id] = LeftBy(m, Truth(m - 1)[sent[m].id]))'
  <2>1. SUFFICES ASSUME NEW m \in 1 .. Len(sent)
                 PROVE  (Truth(m)[sent[m].id] = LeftBy(m, Truth(m - 1)[sent[m].id]))'
    OBVIOUS
  <2>2. PICK b, k, x : b = Truth(k)[x] /\ k = m - 1 /\ x = sent[m].id
    OBVIOUS
  <2>3. (Truth(m - 1)[sent[m].id])' = b /\ (Truth(m)[sent[m].id])' = Truth(m)[x]
    BY <1>1, <2>2
  <2>4. Truth(m)[x] = LeftBy(m, b)
    BY <2>2 DEF FeedRight
  <2>5. LeftBy(m, Truth(m - 1)[sent[m].id])' = LeftBy(m, b)'
    BY <2>3 DEF LeftBy
  <2>6. QED
    BY <1>2, <2>3, <2>4, <2>5
<1>4. \A a, b \in 0 .. Len(sent'), id \in 1 .. MaxIds :
        a <= b /\ (\A m \in a + 1 .. b : sent'[m].id # id) => (Truth(a)')[id] = (Truth(b)')[id]
  BY <1>1 DEF FeedRight
<1>5. \A m \in 1 .. Len(sent') :
        /\ sent'[m].id \in 1 .. next_id_'
        /\ sent'[m].type = "Add" =>
             sent'[m].qty # 0 /\ \A k \in 1 .. m - 1 : sent'[k].id # sent'[m].id
  BY DEF FeedRight
<1>6. Len(sent') = Len(sent)
  OBVIOUS
<1>7. \A m \in 1 .. Len(sent') : (Truth(m)[sent[m].id] = LeftBy(m, Truth(m - 1)[sent[m].id]))'
  BY <1>3, <1>6
<1>8. QED
  BY ONLY <1>4, <1>5, <1>7 DEF FeedRight

LEMMA HandleKeeps ==
  ASSUME LossyInv, NEW i \in DOMAIN sent, Handle(i)
  PROVE  LossyInv'
<1>1. PICK D : D = Len(delivered)
  OBVIOUS
<1>2. /\ D \in Nat /\ DOMAIN delivered' = 1 .. D + 1
      /\ i \in 1 .. Len(sent) /\ delivered'[D + 1] = i /\ delivered' \in Seq(Nat)
      /\ \A k \in 1 .. D : delivered'[k] = delivered[k] /\ delivered[k] \in 1 .. Len(sent)
      /\ sent[i] \in Messages /\ sent[i].id \in 1 .. MaxIds /\ sent[i].qty \in Nat
  BY <1>1, HandleFacts
<1>3. sent' = sent /\ exchange' = exchange /\ live_' = live_ /\ next_id_' = next_id_
      /\ Len(sent) \in Nat
  BY DEF Handle, feed, LossyInv, LossyTypes
<1>4. LossyTypes'
  <2>1. \A j \in 1 .. D + 1 : delivered'[j] \in 1 .. Len(sent)
    <3>1. \A j \in 1 .. D + 1 : j # D + 1 => j \in 1 .. D
      BY <1>2
    <3>2. QED
      BY <1>2, <3>1
  <2>2. orders' \in Seq(Orders)
    BY OrdersAfter
  <2>3. Orders' = Orders /\ Messages' = Messages
    BY DEF Orders, Messages
  <2>4. refused' \subseteq 1 .. MaxIds
    BY <1>2 DEF Handle, LossyInv, LossyTypes
  <2>5. QED
    BY <1>2, <1>3, <2>1, <2>2, <2>3, <2>4 DEF LossyInv, LossyTypes
<1>5. FeedRight'
  BY <1>3, FeedKept DEF LossyInv
<1>r. refused' = IF sent[i].type = "Add" /\ Exhausted THEN refused \cup {sent[i].id} ELSE refused
  BY DEF Handle
<1>6. ASSUME NEW x \in 1 .. MaxIds, InStep(x)', x # sent[i].id
      PROVE  Alone(orders, x, Held(x))'
  <2>1. PICK a, q : a = NewestOf(x) /\ q = Held(x)
    OBVIOUS
  <2>2. InStep(x) /\ NewestOf(x)' = a
    BY <1>6, <2>1, OtherUntouched
  <2>3. Alone(orders, x, q)
    BY <2>1, <2>2 DEF LossyInv, LocalInv
  <2>4. Alone(orders', x, q)
    BY <1>6, <2>3, OrdersAfter
  <2>5. (Truth(NewestOf(x))[x])' = Truth(a)[x]
    BY <1>3, <2>1, <2>2 DEF Truth
  <2>6. x \in refused' <=> x \in refused
    BY <1>6, <1>r
  <2>7. Held(x)' = q
    BY <2>1, <2>5, <2>6 DEF Held
  <2>8. QED
    BY <2>4, <2>7 DEF Alone
<1>7. ASSUME NEW x \in 1 .. MaxIds, InStep(x)', x = sent[i].id
      PROVE  Alone(orders, x, Held(x))'
  <2>1. PICK a, q : a = NewestOf(x) /\ q = Truth(a)[x]
    OBVIOUS
  <2>2. /\ InStep(x) /\ NewestOf(x)' = i /\ a < i /\ a \in 0 .. Len(sent)
        /\ \A m \in a + 1 .. i - 1 : sent[m].id # x
    BY <1>7, <2>1, OwnAdvances, NewestIs
  <2>3. Alone(orders, x, Held(x))
    BY <2>2 DEF LossyInv, LocalInv
  <2>4. (Truth(NewestOf(x))[x])' = Truth(i)[x]
    BY <1>3, <2>2 DEF Truth
  <2>5. sent[i].type = "Add" => sent[i].qty # 0 /\ \A k \in 1 .. i - 1 : sent[k].id # x
    BY <1>2, <1>7 DEF LossyInv, FeedRight
  <2>6. CASE x \in refused
    <3>1. sent[i].type # "Add"
      <4>1. PICK k \in Own(x) : a = delivered[k]
        BY <2>1, <2>6, NewestIs DEF LossyInv, RefusedCame
      <4>2. k \in DOMAIN delivered /\ sent[a].id = x
        BY <4>1 DEF Own
      <4>3. a \in 1 .. i - 1
        <5>1. a \in 1 .. Len(sent)
          BY <4>1, <4>2 DEF LossyInv, LossyTypes
        <5>2. QED
          BY <1>2, <1>3, <2>2, <5>1
      <4>4. QED
        BY <2>5, <4>2, <4>3
    <3>2. Held(x) = 0 /\ Held(x)' = 0
      BY <1>r, <2>6 DEF Held
    <3>3. LeftBy(i, 0) = 0
      BY <1>2, <3>1 DEF LeftBy
    <3>4. Alone(orders', x, 0)
      <4>1. Alone(orders, sent[i].id, 0) /\ 0 \in Nat
        BY <1>7, <2>3, <3>2
      <4>2. Alone(orders', sent[i].id, LeftBy(i, 0))
        BY <3>1, <4>1, OrdersAfter
      <4>3. QED
        BY <1>7, <3>3, <4>2
    <3>5. QED
      BY <3>2, <3>4 DEF Alone
  <2>7. CASE x \notin refused
    <3>1. q \in Nat /\ Alone(orders, x, q)
      <4>1. q \in Nat
        BY <2>1, <2>2, TruthType
      <4>2. Held(x) = q
        BY <2>1, <2>7 DEF Held
      <4>3. QED
        BY <2>3, <4>1, <4>2
    <3>2. Truth(i - 1)[x] = q
      <4>1. i - 1 \in 0 .. Len(sent) /\ a <= i - 1
        BY <1>2, <1>3, <2>2
      <4>2. QED
        BY <2>1, <2>2, <4>1 DEF LossyInv, FeedRight
    <3>3. Truth(i)[x] = LeftBy(i, q)
      BY <1>2, <1>7, <3>2 DEF LossyInv, FeedRight
    <3>4. sent[i].type = "Add" => q = 0 /\ sent[i].qty # 0
      <4>1. SUFFICES ASSUME sent[i].type = "Add" PROVE q = 0 /\ sent[i].qty # 0
        OBVIOUS
      <4>2. \A m \in 0 + 1 .. a : m \in 1 .. i - 1
        BY <1>2, <1>3, <2>2
      <4>3. Truth(0)[x] = Truth(a)[x]
        <5>1. 0 \in 0 .. Len(sent) /\ 0 <= a /\ \A m \in 0 + 1 .. a : sent[m].id # x
          BY <1>3, <2>2, <2>5, <4>1, <4>2
        <5>2. QED
          BY <2>2, <5>1 DEF LossyInv, FeedRight
      <4>4. QED
        BY <2>1, <2>5, <4>1, <4>3 DEF Truth
    <3>5. Alone(orders', x, IF sent[i].type = "Add" /\ Exhausted THEN 0 ELSE LeftBy(i, q))
      BY <1>7, <3>1, <3>4, OrdersAfter
    <3>6. Held(x)' = IF sent[i].type = "Add" /\ Exhausted THEN 0 ELSE LeftBy(i, q)
      BY <1>7, <1>r, <2>4, <2>7, <3>3 DEF Held
    <3>7. QED
      BY <3>5, <3>6 DEF Alone
  <2>8. QED
    BY <2>6, <2>7
<1>8. LocalInv'
  BY <1>6, <1>7 DEF LocalInv
<1>9. RefusedCame'
  <2>1. SUFFICES ASSUME NEW x \in refused' PROVE Own(x)' # {}
    BY DEF RefusedCame
  <2>2. CASE x \in refused
    <3>1. PICK k \in Own(x) : TRUE
      BY <2>2 DEF LossyInv, RefusedCame
    <3>2. k \in 1 .. D /\ sent[delivered[k]].id = x
      BY <1>1, <3>1, HandleFacts DEF Own
    <3>3. k \in DOMAIN delivered' /\ sent'[delivered'[k]].id = x
      BY <1>2, <1>3, <3>2
    <3>4. QED
      BY <3>3 DEF Own
  <2>3. CASE x \notin refused
    <3>1. x = sent[i].id
      BY <1>r, <2>1, <2>3
    <3>2. D + 1 \in DOMAIN delivered' /\ sent'[delivered'[D + 1]].id = x
      BY <1>2, <1>3, <3>1
    <3>3. QED
      BY <3>2 DEF Own
  <2>4. QED
    BY <2>2, <2>3
<1>10. QED
  BY <1>4, <1>5, <1>8, <1>9 DEF LossyInv

LEMMA StutterKeeps == ASSUME LossyInv, UNCHANGED lossy PROVE LossyInv'
<1>1. /\ sent' = sent /\ exchange' = exchange /\ live_' = live_ /\ next_id_' = next_id_
      /\ delivered' = delivered /\ orders' = orders /\ refused' = refused
  BY DEF lossy, feed, guardVars
<1>2. LossyTypes' /\ FeedRight'
  BY <1>1, FeedKept DEF LossyInv, LossyTypes, Orders, Messages
<1>3. LocalInv'
  <2>1. SUFFICES ASSUME NEW id \in 1 .. MaxIds, InStep(id)'
                 PROVE  Alone(orders, id, Held(id))'
    BY DEF LocalInv
  <2>2. Own(id)' = Own(id)
    BY <1>1 DEF Own
  <2>3. InStep(id)
    BY <1>1, <2>1, <2>2 DEF InStep
  <2>4. NewestOf(id)' = NewestOf(id)
    BY <1>1, <2>2 DEF NewestOf
  <2>5. Truth(NewestOf(id))' = Truth(NewestOf(id))
    BY <1>1, <2>4 DEF Truth
  <2>6. Alone(orders, id, Held(id))
    BY <2>3 DEF LossyInv, LocalInv
  <2>7. Held(id)' = Held(id)
    BY <1>1, <2>5 DEF Held
  <2>8. QED
    BY <1>1, <2>6, <2>7 DEF Alone
<1>4. RefusedCame'
  BY <1>1 DEF LossyInv, RefusedCame, Own
<1>5. QED
  BY <1>2, <1>3, <1>4 DEF LossyInv

LEMMA SendsTell ==
  ASSUME LossyInv,
         \/ \E n \in AddQty : SendAdd(n)
         \/ \E id \in live_ : SendCancel(id) \/ SendExecute(id)
  PROVE  \E type, id, n : Tells(type, id, n) /\ Send(type, id, n)
<1>1. next_id_ \in 0 .. MaxIds /\ MaxIds \in Nat /\ live_ \subseteq 1 .. next_id_
  BY LossyAssumption DEF LossyInv, LossyTypes
<1>2. ASSUME NEW n \in AddQty, SendAdd(n) PROVE Tells("Add", next_id_ + 1, n) /\ Send("Add", next_id_ + 1, n)
  <2>1. n \in Nat /\ n # 0
    BY LossyAssumption
  <2>2. next_id_ < MaxIds /\ next_id_' = next_id_ + 1 /\ live_' = live_ \cup {next_id_ + 1}
    BY <1>2 DEF SendAdd
  <2>3. next_id_ + 1 \in 1 .. next_id_' /\ next_id_' \in next_id_ .. MaxIds
        /\ live_' \subseteq 1 .. next_id_'
    BY <1>1, <2>2
  <2>4. Send("Add", next_id_ + 1, n)
    BY <1>2 DEF SendAdd
  <2>5. QED
    BY <2>1, <2>3, <2>4 DEF Tells
<1>3. ASSUME NEW id \in live_, SendCancel(id) \/ SendExecute(id)
      PROVE  \E type, n : Tells(type, id, n) /\ Send(type, id, n)
  <2>1. /\ id \in 1 .. next_id_' /\ next_id_' \in next_id_ .. MaxIds
        /\ live_' \subseteq 1 .. next_id_'
    <3>1. next_id_' = next_id_ /\ live_' \subseteq live_
      BY <1>3 DEF SendCancel, SendExecute
    <3>2. QED
      BY <1>1, <1>3, <3>1
  <2>2. CASE SendCancel(id)
    <3>1. Tells("Cancel", id, 0) /\ Send("Cancel", id, 0)
      BY <2>1, <2>2 DEF SendCancel, Tells
    <3>2. QED
      BY <3>1
  <2>3. CASE SendExecute(id)
    <3>1. Tells("Execute", id, ExecQty) /\ Send("Execute", id, ExecQty)
      BY <2>1, <2>3, LossyAssumption DEF SendExecute, Tells
    <3>2. QED
      BY <3>1
  <2>4. QED
    BY <1>3, <2>2, <2>3
<1>4. QED
  BY <1>2, <1>3

LEMMA StepLossy == LossyInv /\ [LossyNext]_lossy => LossyInv'
<1> SUFFICES ASSUME LossyInv, [LossyNext]_lossy PROVE LossyInv'
  OBVIOUS
<1>1. ASSUME \/ \E n \in AddQty : SendAdd(n)
             \/ \E id \in live_ : SendCancel(id) \/ SendExecute(id)
      PROVE  LossyInv'
  <2>1. PICK type, id, n : Tells(type, id, n) /\ Send(type, id, n)
    BY <1>1, SendsTell
  <2>2. QED
    BY <2>1, SendKeeps
<1>2. ASSUME NEW i \in DOMAIN sent, Handle(i) PROVE LossyInv'
  BY <1>2, HandleKeeps
<1>3. QED
  BY <1>1, <1>2, StutterKeeps DEF LossyNext

LEMMA InvLocal == LossyInv => DamageIsLocal
<1> SUFFICES ASSUME LossyInv, NEW id \in 1 .. MaxIds, InStep(id)
             PROVE  Resting(id) = Held(id)
  BY DEF DamageIsLocal, Held
<1>1. Alone(orders, id, Held(id)) /\ orders \in Seq(Orders)
  BY DEF LossyInv, LossyTypes, LocalInv
<1>2. QED
  BY <1>1, AloneRests

(* A bad line damages only the orders whose own messages it lost, repeated or     *)
(* reordered, and those that found every slot of the slab taken, which stay       *)
(* absent from then on; wrapping numbers included, because the book does not look *)
(* at them.                                                                       *)
THEOREM DamageStaysLocal == LossySpec => []DamageIsLocal
<1>1. LossyInv /\ [LossyNext]_lossy => LossyInv'
  BY StepLossy
<1>2. QED
  BY <1>1, InitLossy, InvLocal, PTL DEF LossySpec

(* Nothing counted: every number up to the last came, once and in order. *)
LEMMA CleanMeansComplete ==
  ASSUME LossyInv, GuardInv, gaps_ = 0, duplicates_ = 0, delivered # << >>, delivered[1] = 1,
         NEW L, L = Len(delivered)
  PROVE  /\ L \in Nat \ {0} /\ DOMAIN delivered = 1 .. L
         /\ \A k \in 1 .. L : delivered[k] \in 1 .. Len(sent)
         /\ \A k \in 1 .. L : \A j \in 1 .. k - 1 : delivered[j] < delivered[k]
         /\ \A k \in 1 .. L : \A m \in 1 .. delivered[k] - 1 : \E j \in 1 .. L : delivered[j] = m
<1>1. /\ L \in Nat /\ DOMAIN delivered = 1 .. L /\ L # 0
      /\ \A k \in 1 .. L : delivered[k] \in 1 .. Len(sent)
      /\ Len(sent) \in Nat /\ MaxMessage \in Nat /\ Len(sent) <= MaxMessage
  <2>1. delivered \in Seq(Nat) /\ sent \in Seq(Messages)
    BY DEF LossyInv, LossyTypes
  <2>2. L \in Nat /\ DOMAIN delivered = 1 .. L /\ L # 0 /\ Len(sent) \in Nat
    BY <2>1
  <2>3. QED
    BY <2>2, GuardAssumption DEF LossyInv, LossyTypes
<1>2. Ahead = 1 .. L
  <2>1. Cardinality(Ahead) = L
    <3>1. Cardinality(Ahead) \in Nat /\ 0 = L - Cardinality(Ahead)
      BY AheadFinite DEF GuardInv, CountersExact
    <3>2. QED
      BY <1>1, <3>1
  <2>2. Ahead \subseteq 1 .. L /\ IsFiniteSet(1 .. L) /\ Cardinality(1 .. L) = L
    <3>1. IsFiniteSet(1 .. L) /\ Cardinality(1 .. L) = IF 1 > L THEN 0 ELSE L - 1 + 1
      BY <1>1, FS_Interval
    <3>2. QED
      BY <1>1, <3>1, AheadFinite DEF GuardInv
  <2>3. QED
    BY <2>1, <2>2, FS_Subset
<1>3. \A k \in 1 .. L : \A j \in 1 .. k - 1 : delivered[j] < delivered[k]
  BY <1>2 DEF Ahead
<1>4. Skipped = {}
  <2>1. Cardinality(Skipped) = 0
    BY DEF GuardInv, CountersExact
  <2>2. QED
    BY <2>1, SkippedFinite, FS_EmptySet
<1>5. ASSUME NEW k \in 1 .. L, NEW m \in 1 .. delivered[k] - 1 PROVE \E j \in 1 .. L : delivered[j] = m
  <2>1. m \in 1 .. MaxMessage /\ delivered[k] > m /\ k \in Ahead
    BY <1>1, <1>2
  <2>2. CASE m = 1
    BY <1>1, <2>2
  <2>3. CASE m # 1
    <3>1. m > delivered[1] /\ m \notin Skipped
      BY <1>4, <2>1, <2>3
    <3>2. \E j \in Ahead : delivered[j] = m
      BY <2>1, <3>1 DEF Skipped
    <3>3. QED
      BY <1>2, <3>2
  <2>4. QED
    BY <2>2, <2>3
<1>6. QED
  BY <1>1, <1>3, <1>5

(* So every order is in step, and no message sent up to the last is missing. *)
LEMMA CleanInStep ==
  ASSUME LossyInv, GuardInv, gaps_ = 0, duplicates_ = 0, delivered # << >>, delivered[1] = 1,
         NEW id \in 1 .. MaxIds
  PROVE  /\ InStep(id) /\ Truth(NewestOf(id))[id] = Truth(Last(delivered))[id]
         /\ Last(delivered) \in 1 .. Len(sent)
<1>1. PICK L, z : L = Len(delivered) /\ z = delivered[L]
  OBVIOUS
<1>2. /\ L \in Nat \ {0} /\ DOMAIN delivered = 1 .. L
      /\ \A k \in 1 .. L : delivered[k] \in 1 .. Len(sent)
      /\ \A k \in 1 .. L : \A j \in 1 .. k - 1 : delivered[j] < delivered[k]
      /\ \A k \in 1 .. L : \A m \in 1 .. delivered[k] - 1 : \E j \in 1 .. L : delivered[j] = m
      /\ Len(sent) \in Nat
  <2>1. Len(sent) \in Nat
    BY DEF LossyInv, LossyTypes
  <2>2. QED
    BY <1>1, <2>1, CleanMeansComplete
<1>3. Last(delivered) = z /\ L \in 1 .. L /\ z \in 1 .. Len(sent)
  BY <1>1, <1>2 DEF Last
<1>4. \A k \in 1 .. L : k \in Own(id) <=> sent[delivered[k]].id = id
  BY <1>2 DEF Own
<1>5. InStep(id)
  <2>1. SUFFICES ASSUME NEW k \in Own(id)
                 PROVE  /\ \A j \in Own(id) : j < k => delivered[j] < delivered[k]
                        /\ \A n \in 1 .. delivered[k] - 1 :
                             sent[n].id = id => \E j \in Own(id) : delivered[j] = n
    BY DEF InStep
  <2>2. Own(id) \subseteq 1 .. L /\ k \in 1 .. L
    BY <1>2 DEF Own
  <2>3. \A j \in Own(id) : j < k => j \in 1 .. k - 1
    BY <2>2
  <2>4. QED
    BY <1>2, <1>4, <2>2, <2>3
<1>6. PICK a : a = NewestOf(id)
  OBVIOUS
<1>8. a \in 0 .. Len(sent) /\ a <= z /\ \A j \in Own(id) : delivered[j] <= a
  <2>1. CASE Own(id) = {}
    <3>1. a = 0
      BY <1>6, <2>1, NewestIs
    <3>2. QED
      BY <1>2, <1>3, <2>1, <3>1
  <2>2. CASE Own(id) # {}
    <3>1. PICK t \in Own(id) : a = delivered[t] /\ \A k \in Own(id) : k <= t
      BY <1>6, <2>2, NewestIs
    <3>2. t \in 1 .. L /\ \A j \in Own(id) : j \in 1 .. L /\ j <= t
      BY <1>2, <3>1 DEF Own
    <3>3. \A j, k \in 1 .. L : j <= k => delivered[j] <= delivered[k]
      <4>1. SUFFICES ASSUME NEW j \in 1 .. L, NEW k \in 1 .. L, j <= k
                     PROVE  delivered[j] <= delivered[k]
        OBVIOUS
      <4>2. delivered[j] \in Nat /\ delivered[k] \in Nat
        BY <1>2
      <4>3. j # k => j \in 1 .. k - 1
        BY <4>1
      <4>4. QED
        BY <1>2, <4>2, <4>3
    <3>4. t <= L
      BY <3>2
    <3>5. QED
      BY <1>1, <1>2, <1>3, <3>1, <3>2, <3>3, <3>4
  <2>3. QED
    BY <2>1, <2>2
<1>9. ASSUME NEW m \in a + 1 .. z, sent[m].id = id PROVE FALSE
  <2>1. m \in 1 .. z /\ ~(m <= a)
    BY <1>2, <1>3, <1>8
  <2>2. PICK j \in 1 .. L : delivered[j] = m
    BY <1>1, <1>2, <1>3, <2>1
  <2>3. QED
    BY <1>4, <1>8, <1>9, <2>1, <2>2
<1>10. Truth(a)[id] = Truth(z)[id]
  <2>1. z \in 0 .. Len(sent)
    BY <1>3
  <2>2. QED
    BY <1>8, <1>9, <2>1 DEF LossyInv, FeedRight
<1>11. QED
  BY <1>3, <1>5, <1>6, <1>10

(* The last message delivered is then the one before the number expected. *)
LEMMA CleanExpects ==
  ASSUME LossyInv, GuardInv, gaps_ = 0, duplicates_ = 0, delivered # << >>, delivered[1] = 1
  PROVE  Last(delivered) = expected_ - 1
<1>1. PICK L : L = Len(delivered)
  OBVIOUS
<1>2. /\ L \in Nat \ {0} /\ DOMAIN delivered = 1 .. L
      /\ \A k \in 1 .. L : delivered[k] \in 1 .. Len(sent)
      /\ \A k \in 1 .. L : \A j \in 1 .. k - 1 : delivered[j] < delivered[k]
  BY <1>1, CleanMeansComplete
<1>3. PICK k \in 1 .. L : delivered[k] = expected_ - 1
  BY <1>2 DEF GuardInv, ExpectsNext, Ahead
<1>4. L \in 1 .. L /\ delivered[L] <= expected_ - 1
  BY <1>2 DEF GuardInv, ExpectsNext
<1>5. k # L => k \in 1 .. L - 1
  BY <1>2
<1>6. k # L => delivered[k] < delivered[L]
  BY <1>2, <1>4, <1>5
<1>7. delivered[k] \in Nat /\ delivered[L] \in Nat
  BY <1>2, <1>4
<1>8. delivered[L] = expected_ - 1
  BY <1>3, <1>4, <1>6, <1>7
<1>9. QED
  BY <1>1, <1>8 DEF Last

(* The slab. *)

RestsAt(n) == {id \in 1 .. MaxIds : Truth(n)[id] > 0}

(* A book that is the exchange's takes one slot for each order. *)
LEMMA OneSlotEach ==
  ASSUME LossyInv, NEW z \in 0 .. Len(sent),
         \A id \in 1 .. MaxIds : Alone(orders, id, Truth(z)[id])
  PROVE  /\ IsFiniteSet(RestsAt(z)) /\ Cardinality(RestsAt(z)) \in Nat
         /\ Len(orders) <= Cardinality(RestsAt(z))
<1> DEFINE n == Len(orders)
           R == RestsAt(z)
           f == [k \in 1 .. n |-> orders[k].id]
<1>1. /\ orders \in Seq(Orders) /\ n \in Nat /\ DOMAIN orders = 1 .. n
      /\ \A k \in 1 .. n : orders[k] \in Orders
  BY DEF LossyInv, LossyTypes
<1>2. \A k \in 1 .. n : orders[k].id \in 1 .. MaxIds
  BY <1>1 DEF Orders
<1>3. Truth(z) \in [1 .. MaxIds -> Nat]
  BY TruthType
<1>4. IsFiniteSet(R) /\ Cardinality(R) \in Nat
  <2>1. IsFiniteSet(1 .. MaxIds)
    BY LossyAssumption, FS_Interval
  <2>2. R \subseteq 1 .. MaxIds
    BY DEF RestsAt
  <2>3. QED
    BY <2>1, <2>2, FS_Subset, FS_CardinalityType
<1> HIDE DEF n
<1>5. ASSUME NEW k \in 1 .. n PROVE f[k] \in R
  <2>1. orders[k].id \in 1 .. MaxIds /\ Alone(orders, orders[k].id, Truth(z)[orders[k].id])
    BY <1>2
  <2>2. Truth(z)[orders[k].id] # 0
    BY <1>1, <2>1 DEF Alone
  <2>3. Truth(z)[orders[k].id] \in Nat
    BY <1>3, <2>1
  <2>4. orders[k].id \in R
    BY <2>1, <2>2, <2>3 DEF RestsAt
  <2>5. QED
    BY <2>4
<1>6. ASSUME NEW j \in 1 .. n, NEW k \in 1 .. n, f[j] = f[k] PROVE j = k
  <2>1. orders[k].id \in 1 .. MaxIds /\ Alone(orders, orders[k].id, Truth(z)[orders[k].id])
        /\ orders[j].id = orders[k].id
    BY <1>2, <1>6
  <2>2. PICK l \in 1 .. n : \A m \in 1 .. n \ {l} : orders[m].id # orders[k].id
    BY <1>1, <2>1 DEF Alone
  <2>3. QED
    BY <2>1, <2>2
<1>7. f \in Injection(1 .. n, R)
  <2>1. f \in [1 .. n -> R]
    BY <1>5
  <2>2. \A j, k \in 1 .. n : f[j] = f[k] => j = k
    BY <1>6
  <2> HIDE DEF f, R
  <2>3. \A g, S, T : g \in [S -> T] /\ (\A a, b \in S : g[a] = g[b] => a = b) => g \in Injection(S, T)
    BY DEF Injection, IsInjective
  <2>4. QED
    BY ONLY <2>1, <2>2, <2>3
<1>8. Cardinality(1 .. n) <= Cardinality(R)
  <2> HIDE DEF f, R
  <2>1. QED
    BY <1>4, <1>7, FS_Injection
<1>9. Cardinality(1 .. n) = n
  <2>1. n \in Nat /\ 1 \in Int /\ n \in Int
    BY <1>1
  <2>2. Cardinality(1 .. n) = IF 1 > n THEN 0 ELSE n - 1 + 1
    BY ONLY <2>1, FS_Interval
  <2>3. QED
    BY ONLY <2>1, <2>2
<1>10. QED
  BY <1>4, <1>8, <1>9 DEF n

(* While nothing is counted and the exchange's orders fit, no add is refused. *)
SlotsSuffice ==
  gaps_ = 0 /\ duplicates_ = 0 /\ (delivered # << >> => delivered[1] = 1) /\ Fits => refused = {}

(* Until something is counted the book is the exchange's at the message before the next. *)
LEMMA CleanBook ==
  ASSUME NoWrap, LossyInv, GuardInv, SlotsSuffice, Fits, gaps_ = 0, duplicates_ = 0,
         delivered # << >> => delivered[1] = 1, NEW z,
         z = IF delivered = << >> THEN 0 ELSE Last(delivered)
  PROVE  /\ refused = {} /\ z \in 0 .. Len(sent)
         /\ \A id \in 1 .. MaxIds : Alone(orders, id, Truth(z)[id])
<1>1. refused = {}
  BY DEF SlotsSuffice
<1>2. \A id : Held(id) = Truth(NewestOf(id))[id]
  BY <1>1 DEF Held
<1>3. Len(sent) \in Nat
  BY DEF LossyInv, LossyTypes
<1>4. CASE delivered = << >>
  <2>1. \A id : Own(id) = {}
    BY <1>4 DEF Own
  <2>2. \A id : InStep(id) /\ NewestOf(id) = z
    BY <1>4, <2>1 DEF InStep, NewestOf
  <2>3. \A id \in 1 .. MaxIds : Alone(orders, id, Held(id)) /\ Held(id) = Truth(z)[id]
    BY <1>2, <2>2 DEF LossyInv, LocalInv
  <2>4. \A id \in 1 .. MaxIds : Alone(orders, id, Truth(z)[id])
    <3>1. SUFFICES ASSUME NEW id \in 1 .. MaxIds PROVE Alone(orders, id, Truth(z)[id])
      OBVIOUS
    <3>2. QED
      BY <2>3
  <2>5. QED
    BY <1>1, <1>3, <1>4, <2>4
<1>5. CASE delivered # << >>
  <2>1. \A id \in 1 .. MaxIds : InStep(id) /\ Truth(NewestOf(id))[id] = Truth(z)[id]
    BY <1>5, CleanInStep
  <2>2. \A id \in 1 .. MaxIds : Alone(orders, id, Held(id)) /\ Held(id) = Truth(z)[id]
    BY <1>2, <2>1 DEF LossyInv, LocalInv
  <2>3. \A id \in 1 .. MaxIds : Alone(orders, id, Truth(z)[id])
    <3>1. SUFFICES ASSUME NEW id \in 1 .. MaxIds PROVE Alone(orders, id, Truth(z)[id])
      OBVIOUS
    <3>2. QED
      BY <2>2
  <2>4. z \in 1 .. Len(sent)
    <3>1. PICK L : L = Len(delivered)
      OBVIOUS
    <3>2. /\ L \in Nat \ {0} /\ DOMAIN delivered = 1 .. L
          /\ \A k \in 1 .. L : delivered[k] \in 1 .. Len(sent)
      BY <1>5, <3>1, CleanMeansComplete
    <3>3. L \in 1 .. L /\ z = delivered[L]
      BY <1>5, <3>1, <3>2 DEF Last
    <3>4. QED
      BY <3>2, <3>3
  <2>5. QED
    BY <1>1, <1>3, <2>3, <2>4
<1>6. QED
  BY <1>4, <1>5

LEMMA InvClean == NoWrap /\ LossyInv /\ GuardInv /\ SlotsSuffice => CleanMeansFaithful
<1> SUFFICES ASSUME NoWrap, LossyInv, GuardInv, SlotsSuffice, Fits, gaps_ = 0, duplicates_ = 0,
                    delivered # << >>, delivered[1] = 1, NEW id \in 1 .. MaxIds
             PROVE  Resting(id) = Truth(Last(delivered))[id]
  BY DEF CleanMeansFaithful
<1>1. PICK z : z = Last(delivered)
  OBVIOUS
<1>2. Alone(orders, id, Truth(z)[id]) /\ orders \in Seq(Orders)
  BY <1>1, CleanBook DEF LossyInv, LossyTypes
<1>3. QED
  BY <1>1, <1>2, AloneRests

LEMMA GuardSteps == NoWrap /\ LossyInv /\ GuardInv /\ [LossyNext]_lossy => GuardInv'
<1> SUFFICES ASSUME NoWrap, LossyInv, GuardInv, [LossyNext]_lossy PROVE GuardInv'
  OBVIOUS
<1>1. [GuardNext]_guardVars
  <2>1. ASSUME NEW type, NEW id, NEW n, Send(type, id, n) PROVE UNCHANGED guardVars
    BY <2>1 DEF Send
  <2>2. ASSUME NEW i \in DOMAIN sent, Handle(i) PROVE GuardNext
    <3>1. i \in 1 .. MaxMessage
      <4>1. DOMAIN sent = 1 .. Len(sent) /\ Len(sent) \in Nat /\ Len(sent) <= MaxMessage
        BY DEF LossyInv, LossyTypes
      <4>2. QED
        BY <4>1, GuardAssumption
    <3>2. Deliver(i)
      BY <2>2 DEF Handle, Numbered
    <3>3. QED
      BY <3>1, <3>2 DEF GuardNext
  <2>3. ASSUME UNCHANGED lossy PROVE UNCHANGED guardVars
    BY <2>3 DEF lossy
  <2>4. QED
    BY <2>1, <2>2, <2>3 DEF LossyNext, SendAdd, SendCancel, SendExecute
<1>2. QED
  BY <1>1, StepGuard

(* What a delivery that counts nothing was: the first message, or the one expected. *)
LEMMA CleanDelivery ==
  ASSUME NoWrap, LossyInv, GuardInv, NEW i \in DOMAIN sent, Handle(i),
         gaps_' = 0, duplicates_' = 0
  PROVE  gaps_ = 0 /\ duplicates_ = 0 /\ (delivered # << >> => i = expected_)
<1>1. i \in 1 .. MaxMessage /\ i \in Nat
  <2>1. DOMAIN sent = 1 .. Len(sent) /\ Len(sent) \in Nat /\ Len(sent) <= MaxMessage
    BY DEF LossyInv, LossyTypes
  <2>2. QED
    BY <2>1, GuardAssumption
<1>2. Accept(i)
  <2>1. i % SeqWord = i
    BY <1>1, Unwrapped
  <2>2. Accept(i % SeqWord)
    BY DEF Handle, Numbered, Deliver
  <2>3. QED
    BY <2>1, <2>2
<1>3. gaps_ \in Nat /\ duplicates_ \in Nat /\ expected_ \in Nat
      /\ (delivered # << >> => expected_ # 0)
  BY GuardAssumption DEF GuardInv, GuardTypeOK, ExpectsNext
<1>4. CASE Start(i)
  BY <1>3, <1>4 DEF Start
<1>5. CASE InOrder(i)
  BY <1>5 DEF InOrder
<1>6. CASE Duplicate(i)
  BY <1>3, <1>6 DEF Duplicate
<1>7. CASE Gap(i)
  BY <1>1, <1>3, <1>7 DEF Gap
<1>8. QED
  BY <1>2, <1>4, <1>5, <1>6, <1>7 DEF Accept

(* An add raises the number of orders the exchange holds. *)
LEMMA OneOrderMore ==
  ASSUME LossyInv, NEW i \in 1 .. Len(sent), sent[i].type = "Add",
         NEW x, x = sent[i].id, IsFiniteSet(RestsAt(i - 1))
  PROVE  Cardinality(RestsAt(i)) = Cardinality(RestsAt(i - 1)) + 1
<1>1. /\ i - 1 \in 0 .. Len(sent) /\ i \in 0 .. Len(sent) /\ 0 \in 0 .. Len(sent)
      /\ i \in Nat /\ Len(sent) \in Nat
      /\ sent[i] \in Messages
  BY DEF LossyInv, LossyTypes
<1>2. x \in 1 .. MaxIds /\ sent[i].qty \in Nat
  BY <1>1 DEF Messages
<1>3. sent[i].qty # 0 /\ \A k \in 1 .. i - 1 : sent[k].id # x
  BY DEF LossyInv, FeedRight
<1>f. \A a, b \in 0 .. Len(sent), id \in 1 .. MaxIds :
        a <= b /\ (\A m \in a + 1 .. b : sent[m].id # id) => Truth(a)[id] = Truth(b)[id]
  BY DEF LossyInv, FeedRight
<1>4. Truth(i - 1)[x] = 0
  <2>1. Truth(0)[x] = Truth(i - 1)[x]
    <3>1. \A m \in 0 + 1 .. i - 1 : sent[m].id # x
      BY <1>3
    <3>2. 0 <= i - 1
      BY <1>1
    <3>3. QED
      BY ONLY <1>1, <1>2, <1>f, <3>1, <3>2
  <2>2. Truth(0)[x] = 0
    BY <1>2 DEF Truth
  <2>3. QED
    BY <2>1, <2>2
<1>5. Truth(i)[x] = sent[i].qty
  BY DEF LossyInv, FeedRight, LeftBy
<1>6. ASSUME NEW y \in 1 .. MaxIds, y # x PROVE Truth(i)[y] = Truth(i - 1)[y]
  <2>1. \A m \in (i - 1) + 1 .. i : sent[m].id # y
    <3>1. \A m \in (i - 1) + 1 .. i : m = i
      BY <1>1
    <3>2. QED
      BY <1>6, <3>1
  <2>2. i - 1 <= i
    BY <1>1
  <2>3. QED
    BY ONLY <1>1, <1>6, <1>f, <2>1, <2>2
<1>7. RestsAt(i) = RestsAt(i - 1) \cup {x} /\ x \notin RestsAt(i - 1)
  <2>1. Truth(i)[x] > 0 /\ ~(Truth(i - 1)[x] > 0)
    BY <1>2, <1>3, <1>4, <1>5
  <2>2. QED
    BY <1>2, <1>6, <2>1 DEF RestsAt
<1>8. QED
  BY <1>7, FS_AddElement

LEMMA NotRefused ==
  ASSUME NoWrap, LossyInv, GuardInv, SlotsSuffice, Fits, NEW i \in DOMAIN sent, Handle(i),
         gaps_' = 0, duplicates_' = 0, delivered'[1] = 1
  PROVE  refused' = {}
<1>1. PICK D : D = Len(delivered)
  OBVIOUS
<1>2. /\ D \in Nat /\ DOMAIN delivered = 1 .. D /\ delivered'[D + 1] = i /\ i \in 1 .. Len(sent)
      /\ \A k \in 1 .. D : delivered'[k] = delivered[k]
      /\ sent[i].id \in 1 .. MaxIds
  BY <1>1, HandleFacts
<1>3. gaps_ = 0 /\ duplicates_ = 0 /\ (delivered # << >> => i = expected_)
  BY CleanDelivery
<1>4. delivered # << >> => delivered[1] = 1
  <2>1. delivered # << >> => D # 0
    BY <1>1 DEF LossyInv, LossyTypes
  <2>2. QED
    BY <1>2, <2>1
<1>5. PICK z : z = IF delivered = << >> THEN 0 ELSE Last(delivered)
  OBVIOUS
<1>6. /\ refused = {} /\ z \in 0 .. Len(sent)
      /\ \A id \in 1 .. MaxIds : Alone(orders, id, Truth(z)[id])
  BY <1>3, <1>4, <1>5, CleanBook
<1>7. z = i - 1
  <2>1. CASE delivered = << >>
    <3>1. D = 0
      BY <1>1, <2>1
    <3>2. QED
      BY <1>2, <1>5, <2>1, <3>1
  <2>2. CASE delivered # << >>
    <3>1. Last(delivered) = expected_ - 1
      BY <1>3, <1>4, <2>2, CleanExpects
    <3>2. QED
      BY <1>3, <1>5, <2>2, <3>1
  <2>3. QED
    BY <2>1, <2>2
<1>8. sent[i].type = "Add" => ~Exhausted
  <2>1. SUFFICES ASSUME sent[i].type = "Add" PROVE Len(orders) < kMaxOrders
    BY LossyAssumption DEF Exhausted, LossyInv, LossyTypes
  <2>2. /\ IsFiniteSet(RestsAt(z)) /\ Cardinality(RestsAt(z)) \in Nat
        /\ Len(orders) <= Cardinality(RestsAt(z))
    BY <1>6, OneSlotEach
  <2>3. Cardinality(RestsAt(i)) = Cardinality(RestsAt(z)) + 1
    BY <1>2, <1>7, <2>1, <2>2, OneOrderMore
  <2>4. Cardinality(RestsAt(i)) <= kMaxOrders
    BY DEF Fits, RestsAt
  <2>5. Len(orders) \in Nat /\ kMaxOrders \in Nat
    BY LossyAssumption DEF LossyInv, LossyTypes
  <2>6. QED
    BY <2>2, <2>3, <2>4, <2>5
<1>9. QED
  BY <1>6, <1>8 DEF Handle

LEMMA SlotsKept ==
  NoWrap /\ LossyInv /\ GuardInv /\ SlotsSuffice /\ [LossyNext]_lossy => SlotsSuffice'
<1> SUFFICES ASSUME NoWrap, LossyInv, GuardInv, SlotsSuffice, [LossyNext]_lossy,
                    gaps_' = 0, duplicates_' = 0, delivered' # << >> => delivered'[1] = 1, Fits'
             PROVE  refused' = {}
  BY DEF SlotsSuffice
<1>1. ASSUME NEW type, NEW id, NEW n, Tells(type, id, n), Send(type, id, n) PROVE refused' = {}
  <2>1. PICK L : L = Len(sent)
    OBVIOUS
  <2>2. /\ L \in Nat /\ Len(sent') = L + 1 /\ sent' \in Seq(Messages) /\ refused' = refused
        /\ \A m \in 0 .. L : Truth(m)' = Truth(m)
    <3>1. SentOne(type, id, n, L)
      BY <1>1, <2>1, SendFacts
    <3>2. QED
      BY <3>1 DEF SentOne
  <2>3. DOMAIN sent = 1 .. L /\ DOMAIN sent' = 1 .. L + 1
    BY <2>1, <2>2 DEF LossyInv, LossyTypes
  <2>4. Fits
    <3>1. SUFFICES ASSUME NEW m \in 1 .. L
                   PROVE  Cardinality({x \in 1 .. MaxIds : Truth(m)[x] > 0}) <= kMaxOrders
      BY <2>3 DEF Fits
    <3>2. m \in DOMAIN sent' /\ Truth(m)' = Truth(m)
      BY <2>2, <2>3
    <3>3. Cardinality({x \in 1 .. MaxIds : (Truth(m)')[x] > 0}) <= kMaxOrders
      BY <3>2 DEF Fits
    <3>4. QED
      BY <3>2, <3>3
  <2>5. gaps_' = gaps_ /\ duplicates_' = duplicates_ /\ delivered' = delivered
    BY <1>1 DEF Send, guardVars
  <2>6. QED
    BY <2>2, <2>4, <2>5 DEF SlotsSuffice
<1>2. ASSUME sent' = sent, exchange' = exchange PROVE Fits
  BY <1>2 DEF Fits, Truth
<1>3. ASSUME NEW i \in DOMAIN sent, Handle(i) PROVE refused' = {}
  <2>1. Fits
    BY <1>2, <1>3 DEF Handle, feed
  <2>2. delivered' # << >>
    <3>1. PICK D : D = Len(delivered)
      OBVIOUS
    <3>2. D \in Nat /\ DOMAIN delivered' = 1 .. D + 1
      BY <1>3, <3>1, HandleFacts
    <3>3. 1 \in DOMAIN delivered'
      BY <3>2
    <3>4. DOMAIN << >> = {}
      OBVIOUS
    <3>5. QED
      BY <3>3, <3>4
  <2>3. QED
    BY <1>3, <2>1, <2>2, NotRefused
<1>4. ASSUME UNCHANGED lossy PROVE refused' = {}
  BY <1>2, <1>4 DEF lossy, feed, guardVars, SlotsSuffice
<1>5. ASSUME \/ \E n \in AddQty : SendAdd(n)
             \/ \E id \in live_ : SendCancel(id) \/ SendExecute(id)
      PROVE  refused' = {}
  BY <1>1, <1>5, SendsTell
<1>6. QED
  BY <1>3, <1>4, <1>5 DEF LossyNext

(* A book whose guard has counted nothing since the first message is the         *)
(* exchange's, as long as numbers do not wrap and the exchange's orders fit the  *)
(* slab: the counters tell of every loss, repetition and swap a later message    *)
(* has followed, and nothing else makes the book refuse an order.                *)
THEOREM CleanStaysFaithful == NoWrap => (LossySpec => []CleanMeansFaithful)
<1> SUFFICES ASSUME NoWrap PROVE LossySpec => []CleanMeansFaithful
  OBVIOUS
<1> DEFINE Inv == LossyInv /\ GuardInv /\ SlotsSuffice
<1>1. Inv /\ [LossyNext]_lossy => Inv'
  BY StepLossy, GuardSteps, SlotsKept
<1>2. LossyInit => Inv
  BY InitLossy, InitGuard DEF LossyInit, SlotsSuffice
<1>3. Inv => CleanMeansFaithful
  BY InvClean
<1> HIDE DEF Inv
<1>4. QED
  BY <1>1, <1>2, <1>3, PTL DEF LossySpec
=============================================================================
