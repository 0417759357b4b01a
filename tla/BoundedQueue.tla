---------------------------- MODULE BoundedQueue ----------------------------
(***************************************************************************)
(* The abstract specification that every queue of the DMA engine promises: *)
(* values come out in the order they went in, each exactly once, at most   *)
(* Capacity of them wait.  The descriptor ring between software and the    *)
(* ring manager (DescriptorRing) and the hardware FIFO (Fifo) both implement  *)
(* it; those modules give the refinement mapping.                          *)
(***************************************************************************)
EXTENDS Naturals, Sequences

CONSTANTS
  Values,    (* what the queue carries                  *)
  Capacity   (* how many values may wait at the same time *)

VARIABLE queue

(* Appending and removing may happen in the same step: the queue is between *)
(* a producer and a consumer that share a clock.                            *)
Put(v)    == Len(queue) < Capacity /\ queue' = Append(queue, v)
Take      == queue # <<>> /\ queue' = Tail(queue)
TakePut(v) == queue # <<>> /\ queue' = Append(Tail(queue), v)
Flush     == queue' = <<>>

Init == queue = <<>>

Move == Take \/ \E v \in Values : Put(v) \/ TakePut(v)

Next == Move \/ Flush

Spec == Init /\ [][Next]_queue
=============================================================================
