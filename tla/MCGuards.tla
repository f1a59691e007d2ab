------------------------------ MODULE MCGuards ------------------------------
(***************************************************************************)
(* The two ends of the capstone's path: the sequence guard before the book *)
(* on a line that loses messages, and the strategy with the risk gate.      *)
(* They share no state, so a behaviour runs one of them.                   *)
(***************************************************************************)
EXTENDS LossyFeed, Quoting

VARIABLE used

\* Touches one to four ticks wide, heavy on either side or balanced.
MCTouches == [bid : {10}, ask : {11, 12, 14}, bq : {1, 3}, aq : {1, 3}]

MCInit ==
  /\ used \in {"feed", "orders"} /\ LossyInit /\ Init
  /\ used = "feed" => ~measure          \* whether a clock runs is nothing to the feed

UseFeed == used = "feed" /\ LossyNext /\ UNCHANGED <<vars, used>>
UseOrders == used = "orders" /\ Next /\ UNCHANGED <<lossy, used>>

MCNext == UseFeed \/ UseOrders

MCSpec == MCInit /\ [][MCNext]_<<lossy, vars, used>>
==============================================================================
