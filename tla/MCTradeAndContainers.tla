------------------------ MODULE MCTradeAndContainers ------------------------
(***************************************************************************)
(* The capstone's message loop, and the three containers of                *)
(* examples/static_vector.hpp.  They share no state, so a behaviour uses   *)
(* one of them: one that moves several shows nothing that one of each does *)
(* not.                                                                    *)
(*                                                                         *)
(* The arena's buffer of 14 bytes lies at an odd address, and a few of the *)
(* requests fill it.                                                       *)
(***************************************************************************)
EXTENDS TickToTrade, ObjectPool, StaticVector, Arena

VARIABLE used

MCSizes == {2, 3, 7, 20}
MCAligns == {1, 2, 8}

MCInit ==
  /\ used \in {"loop", "pool", "vectors", "arena"}
  /\ Init /\ PoolInit /\ VectorInit /\ ArenaInit

UseLoop == used = "loop" /\ Next /\ UNCHANGED <<pool, vectors, arena, used>>
UsePool == used = "pool" /\ PoolNext /\ UNCHANGED <<vars, vectors, arena, used>>
UseVectors == used = "vectors" /\ VectorNext /\ UNCHANGED <<vars, pool, arena, used>>
UseArena == used = "arena" /\ ArenaNext /\ UNCHANGED <<vars, pool, vectors, used>>

MCNext == UseLoop \/ UsePool \/ UseVectors \/ UseArena

MCSpec == MCInit /\ [][MCNext]_<<vars, pool, vectors, arena, used>>
==============================================================================
