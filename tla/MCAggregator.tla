---------------------------- MODULE MCAggregator ----------------------------
(***************************************************************************)
(* The aggregator alone: two users that want no answer, one line in the    *)
(* FIFO and the socket each, a queue of two lines that is larger than the  *)
(* block sent at a time.  The changes are bounded, so a run may end.       *)
(***************************************************************************)
EXTENDS Aggregator
=============================================================================
