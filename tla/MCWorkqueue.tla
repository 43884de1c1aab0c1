---------------------------- MODULE MCWorkqueue ----------------------------
(* The work queue with the ring size of the code (4) and two distinguishable
   items, which suffices to see an item lost, doubled or out of order. *)
EXTENDS Workqueue
CONSTANTS a, b, junk
MCItem == {a, b}
=============================================================================
