---------------------------- MODULE BoundedFifo ----------------------------
(* What common/workqueue.h promises its two clients (the debugger filter and
   the gldb GUI): values come out in the order the consume callback produced
   them, none is lost, duplicated or made up, and no more than Capacity of
   them wait at any time. *)
EXTENDS Naturals, Sequences

CONSTANTS Item,      \* what the consume callback can produce
          Capacity   \* how many values wait at most

VARIABLES fifo,      \* the values waiting, oldest first
          ret        \* the value returned last

vars == <<fifo, ret>>

Init == /\ fifo = <<>>
        /\ ret \notin Item

Put == /\ Len(fifo) < Capacity
       /\ \E v \in Item : fifo' = Append(fifo, v)
       /\ UNCHANGED ret

Get == /\ fifo # <<>>
       /\ ret' = Head(fifo)
       /\ fifo' = Tail(fifo)

Next == Put \/ Get

Spec == Init /\ [][Next]_vars
=============================================================================
