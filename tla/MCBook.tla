------------------------------- MODULE MCBook -------------------------------
(***************************************************************************)
(* A small book: three orders, an id table of four slots.  Two ids hash to *)
(* the last slot, so a probe chain wraps around the end of the table, and  *)
(* the third to the first slot, which that chain runs over.                *)
(***************************************************************************)
EXTENDS Book

\* What a caller sees of the book, kept beside it: looking every order up by its id once
\* for each step is all that the abstract specification needs.
VARIABLE shown

MCHome == [id \in OrderIds |-> IF id = 3 THEN 0 ELSE 3]

\* Every level of the ladder, and prices beyond either end of it.
MCPrices == -2 .. 2

MCInit == Init /\ shown = Resting

MCNext == Next /\ shown' = Resting'

MCSpec == MCInit /\ [][MCNext]_<<vars, shown>>

\* Slab, table, ladder and touch together are a set of resting orders keyed by id: each
\* call adds one, removes one, shrinks one or changes nothing.
Shown == INSTANCE AbstractBook WITH resting <- shown
ImplementsBook == Shown!Spec
==============================================================================
