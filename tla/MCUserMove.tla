----------------------------- MODULE MCUserMove -----------------------------
(***************************************************************************)
(* User moves on small rings.  With two directors each pair of neighbours  *)
(* has two connections, so messages overtake each other already; with      *)
(* three, a director exists that only forwards.  Two backends are enough   *)
(* for a user to be in the wrong place.  MaxMoves and MaxLogins bound the  *)
(* commands, so a run may end: no deadlock is checked.                     *)
(***************************************************************************)
EXTENDS UserMove
=============================================================================
