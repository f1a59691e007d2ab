----------------------------- MODULE BoundedFifo -----------------------------
(***************************************************************************)
(* What SpscQueue promises its two threads: a bounded first-in first-out   *)
(* queue whose operations take effect at one instant.  A try_push or a     *)
(* try_pop that returns false is a stuttering step: staleness of the       *)
(* cached indices may make either side refuse although the other side has  *)
(* already made room or published.                                         *)
(***************************************************************************)
EXTENDS Naturals, Sequences

CONSTANTS Capacity, Value

VARIABLES q,          \* the elements in the queue, oldest first
          delivered   \* the elements try_pop has handed out, in order

Init == q = << >> /\ delivered = << >>

Put(v) == /\ Len(q) < Capacity
          /\ q' = Append(q, v)
          /\ UNCHANGED delivered

Get == /\ q # << >>
       /\ q' = Tail(q)
       /\ delivered' = Append(delivered, Head(q))

Next == (\E v \in Value : Put(v)) \/ Get

Spec == Init /\ [][Next]_<<q, delivered>>
==============================================================================
