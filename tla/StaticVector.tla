---------------------------- MODULE StaticVector ----------------------------
(***************************************************************************)
(* StaticVector of examples/static_vector.hpp: raw storage for N objects   *)
(* (Capacity), built and destroyed in place, and a size in the narrowest   *)
(* word that holds N.  Several vectors, because they are copied into each  *)
(* other.  Copying an element may throw; moving and destroying one may not *)
(* (erase_unordered and pop_back are noexcept).                            *)
(*                                                                         *)
(* The callers keep the preconditions: no pop_back of an empty vector, no  *)
(* index beyond its size.                                                  *)
(***************************************************************************)
EXTENDS Integers, Sequences, FiniteSets, SequencesExt

CONSTANTS Vec, Element, Capacity, ByteMax, ShortMax, WordMax, Raw, NoVector

ASSUME VectorAssumption ==
  /\ ByteMax \in Nat /\ ShortMax \in Nat /\ WordMax \in Nat
  /\ ByteMax < ShortMax /\ ShortMax < WordMax
  /\ Capacity \in 1 .. WordMax
  /\ Raw \notin Element /\ \A E \in SUBSET Element : NoVector \notin [E -> Nat]

VARIABLES alive,     \* the vectors whose lifetime has begun and not ended
          storage,   \* [Vec -> [0 .. Capacity - 1 -> Element, or Raw where no object lives]]
          size, result,
          given_up   \* the vectors whose constructor threw last, and left its elements

vectors == <<alive, storage, size, result, given_up>>

VectorInit ==
  /\ alive = {} /\ result = "none" /\ given_up = {}
  /\ storage = [v \in Vec |-> [i \in 0 .. Capacity - 1 |-> Raw]]
  /\ size = [v \in Vec |-> 0]
------------------------------------------------------------------------------
(* A vector as a value: [storage, size].  size_type wraps at its width. *)

Width == IF Capacity <= ByteMax THEN ByteMax + 1
         ELSE IF Capacity <= ShortMax THEN ShortMax + 1 ELSE WordMax + 1

\* The members a constructor finds: raw storage, whatever lay there before.
Fresh == [storage |-> [i \in 0 .. Capacity - 1 |-> Raw], size |-> 0]

This(v) == [storage |-> storage[v], size |-> size[v]]
Becomes(v, x) == /\ storage' = [storage EXCEPT ![v] = x.storage]
                 /\ size' = [size EXCEPT ![v] = x.size]
Elements(x) == [i \in 1 .. x.size |-> x.storage[i - 1]]

Pushed(x, e) ==
  IF x.size = Capacity THEN x
  ELSE [storage |-> [x.storage EXCEPT ![x.size] = e], size |-> (x.size + 1) % Width]
PoppedBack(x) == [storage |-> [x.storage EXCEPT ![x.size - 1] = Raw], size |-> x.size - 1]

ErasedWithoutMove(x, i) == PoppedBack([x EXCEPT !.storage[i] = Raw])
Erased(x, i) == PoppedBack([x EXCEPT !.storage[i] = x.storage[x.size - 1]])

Cleared(x) == [storage |-> [i \in 0 .. Capacity - 1 |-> IF i < x.size THEN Raw ELSE x.storage[i]],
               size |-> 0]

\* push_back of each element in turn; what does not fit is dropped without a word.
PushedAll(x, s) == FoldLeft(Pushed, x, s)
------------------------------------------------------------------------------
(* push_back and emplace_back.  An element that throws leaves its slot raw. *)
Push(v, e) ==
  /\ \/ size[v] = Capacity /\ result' = "full" /\ UNCHANGED <<storage, size>>
     \/ size[v] # Capacity /\ result' = "inserted" /\ Becomes(v, Pushed(This(v), e))
     \/ size[v] # Capacity /\ result' = "threw" /\ UNCHANGED <<storage, size>>
  /\ UNCHANGED <<alive, given_up>>

PopBack(v) == size[v] > 0 /\ Becomes(v, PoppedBack(This(v))) /\ result' = "removed" /\ UNCHANGED <<alive, given_up>>

EraseUnordered(v, i) ==
  i < size[v] /\ Becomes(v, Erased(This(v), i)) /\ result' = "removed" /\ UNCHANGED <<alive, given_up>>

Clear(v) == Becomes(v, Cleared(This(v))) /\ result' = "cleared" /\ UNCHANGED <<alive, given_up>>

Write(v, i, e) ==
  /\ i < size[v]
  /\ storage' = [storage EXCEPT ![v][i] = e]
  /\ result' = "replaced" /\ UNCHANGED <<alive, size, given_up>>

AssignedUnchecked(v, w) ==
  PushedAll(Cleared(This(v)), Elements(IF v = w THEN Cleared(This(v)) ELSE This(w)))
Assigned(v, w) ==
  IF v = w THEN This(v) ELSE PushedAll(Cleared(This(v)), Elements(This(w)))

CopyAssign(v, w) ==
  /\ \/ Becomes(v, Assigned(v, w)) /\ result' = "assigned"
     \/ /\ v # w /\ result' = "threw"
        /\ \E k \in 0 .. size[w] - 1 :
             Becomes(v, PushedAll(Cleared(This(v)), SubSeq(Elements(This(w)), 1, k)))
  /\ UNCHANGED <<alive, given_up>>

Created(v) == alive' = alive \cup {v} /\ given_up' = given_up \ {v}

Construct(v) ==
  /\ \E s \in BoundedSeq(Element, Capacity + 1) : Becomes(v, PushedAll(Fresh, s))
  /\ Created(v) /\ result' = "created"

CopyConstruct(v, w) ==
  /\ Becomes(v, PushedAll(Fresh, Elements(This(w))))
  /\ Created(v) /\ result' = "copied"

\* An element throws while a constructor copies: there is no vector, so no destructor runs,
\* and the elements copied so far, of a list or of another vector, are never destroyed.
ConstructThrows(v) ==
  /\ \E s \in BoundedSeq(Element, Capacity - 1) : Becomes(v, PushedAll(Fresh, s))
  /\ given_up' = given_up \cup {v} /\ result' = "threw" /\ UNCHANGED alive

Destroy(v) ==
  /\ Becomes(v, Cleared(This(v))) /\ alive' = alive \ {v} /\ result' = "ended"
  /\ UNCHANGED given_up

VectorNext ==
  \/ \E v \in alive :
       \/ PopBack(v) \/ Clear(v) \/ Destroy(v)
       \/ \E w \in alive : CopyAssign(v, w)
       \/ \E e \in Element : Push(v, e)
       \/ \E i \in 0 .. Capacity - 1 : EraseUnordered(v, i) \/ \E e \in Element : Write(v, i, e)
  \/ \E v \in Vec \ alive :
       \/ Construct(v) \/ ConstructThrows(v)
       \/ \E w \in alive : CopyConstruct(v, w)

VectorSpec == VectorInit /\ [][VectorNext]_vectors
------------------------------------------------------------------------------
(* Properties *)

\* The objects that exist are those in front of size, none read before its construction or
\* after its destruction.  Only a living vector has any - a vector that ends leaves none
\* behind, nor does an assignment that throws - except for those a constructor that threw
\* had copied, which stay for ever.
ConstructedUpToSize ==
  \A v \in Vec :
    /\ size[v] \in 0 .. Capacity /\ (v \notin alive \cup given_up => size[v] = 0)
    /\ \A i \in 0 .. Capacity - 1 : storage[v][i] \in Element <=> i < size[v]

\* The vectors are bounded bags: erase_unordered takes out one element and no other, copies
\* are complete, a refusal or an exception in push_back changes nothing, and a vector
\* accepts all of its N elements, whatever the width of its size.
BagOf(x) == [e \in {x.storage[i] : i \in 0 .. x.size - 1} |->
               Cardinality({i \in 0 .. x.size - 1 : x.storage[i] = e})]
Contents == [v \in Vec |-> IF v \in alive THEN BagOf(This(v)) ELSE NoVector]
Bounded == INSTANCE BoundedBags
             WITH Container <- Vec, NoContainer <- NoVector, content <- Contents
ImplementsBoundedBags == Bounded!Spec
==============================================================================
