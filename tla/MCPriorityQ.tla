----------------------------- MODULE MCPriorityQ ----------------------------
(* Six items are the fewest with which an item taken from one subtree can   *)
(* have to move up in another one.                                          *)
EXTENDS PriorityQ, TLC

ItemSymmetry == Permutations(Items)
=============================================================================
