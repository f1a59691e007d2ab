----------------------------- MODULE BoundedBags -----------------------------
(***************************************************************************)
(* What StaticVector promises: containers that hold at most Capacity       *)
(* elements, in no particular order, and never grow.  result says  *)
(* what the last operation did.  Only one that threw in the middle of a    *)
(* copy may leave a part of what was asked for.                            *)
(***************************************************************************)
EXTENDS Naturals, Bags

CONSTANTS Container, Element, Capacity, NoContainer

VARIABLES content,   \* [Container -> a bag of elements, or NoContainer outside its lifetime]
          result

Exists(c) == content[c] # NoContainer
Becomes(c, b) == content' = [content EXCEPT ![c] = b]

Init == content = [c \in Container |-> NoContainer] /\ result = "none"

Insert(c, e) ==
  /\ Exists(c)
  /\ \/ /\ BagCardinality(content[c]) < Capacity
        /\ Becomes(c, content[c] (+) SetToBag({e})) /\ result' = "inserted"
     \/ /\ BagCardinality(content[c]) < Capacity
        /\ UNCHANGED content /\ result' = "threw"
     \/ /\ BagCardinality(content[c]) = Capacity
        /\ UNCHANGED content /\ result' = "full"

Remove(c, e) ==
  /\ Exists(c) /\ BagIn(e, content[c])
  /\ Becomes(c, content[c] (-) SetToBag({e})) /\ result' = "removed"

Replace(c, e, f) ==
  /\ Exists(c) /\ BagIn(e, content[c])
  /\ Becomes(c, (content[c] (-) SetToBag({e})) (+) SetToBag({f})) /\ result' = "replaced"

Assign(c, d) ==
  /\ Exists(c) /\ Exists(d)
  /\ \/ Becomes(c, content[d]) /\ result' = "assigned"
     \/ /\ c # d /\ result' = "threw"
        /\ content'[c] # NoContainer /\ content'[c] \sqsubseteq content[d]
        /\ Becomes(c, content'[c])

Create(c) ==
  /\ ~Exists(c) /\ result' = "created"
  /\ content'[c] # NoContainer /\ BagCardinality(content'[c]) <= Capacity
  /\ Becomes(c, content'[c])
CreateCopy(c, d) == ~Exists(c) /\ Exists(d) /\ Becomes(c, content[d]) /\ result' = "copied"
NotCreated(c) == ~Exists(c) /\ UNCHANGED content /\ result' = "threw"

Empty(c) == Exists(c) /\ Becomes(c, EmptyBag) /\ result' = "cleared"
End(c) == Exists(c) /\ Becomes(c, NoContainer) /\ result' = "ended"

Next ==
  \E c \in Container :
    \/ Create(c) \/ NotCreated(c) \/ Empty(c) \/ End(c)
    \/ \E d \in Container : Assign(c, d) \/ CreateCopy(c, d)
    \/ \E e \in Element : Insert(c, e) \/ Remove(c, e) \/ \E f \in Element : Replace(c, e, f)

Spec == Init /\ [][Next]_<<content, result>>
==============================================================================
