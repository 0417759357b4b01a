--------------------------- MODULE ShowAheadQueue ---------------------------
(***************************************************************************)
(* What rtl/fifo.sv offers the blocks around it, without its pointers: a   *)
(* bounded queue with one clock edge per step.  A written value can be     *)
(* seen one edge late, because the empty flag is a register that compares  *)
(* the pointers before the write; the value at the front is on dout        *)
(* whenever the flag is down.  Fifo implements this module; the datapath   *)
(* (MovementTop) is built from six instances of it.                        *)
(***************************************************************************)
EXTENDS Naturals, Sequences

CONSTANTS
  Values,    (* words of the data width             *)
  Depth      (* FIFO_BUFFER_SIZE, a power of two    *)

VARIABLES
  queue,     (* the words between the two pointers  *)
  empty      (* the registered empty flag           *)

vars == <<queue, empty>>

full == Len(queue) = Depth

dout == Head(queue)

(* One edge of the common clock; the strobes are sampled before it.        *)
Edge(wr_en, din, rd_en) ==
  LET rest == IF rd_en /\ queue # <<>> THEN Tail(queue) ELSE queue
  IN  /\ queue' = IF wr_en /\ ~full THEN Append(rest, din) ELSE rest
      /\ empty' = (rest = <<>>)

Reset == queue' = <<>> /\ empty' = TRUE

Init == queue = <<>> /\ empty = TRUE

(* Every reader in the design looks at empty before it strobes rd_en, and  *)
(* every writer at full before wr_en (DescriptorFetcher one edge early).   *)
Next ==
  \/ \E wr_en, rd_en \in BOOLEAN, din \in Values :
       (rd_en => ~empty) /\ Edge(wr_en, din, rd_en)
  \/ Reset

Spec == Init /\ [][Next]_vars

(* A reader that sees the flag down finds a word: the late flag never      *)
(* promises a value that is not there.                                     *)
NeverReadsEmpty == ~empty => queue # <<>>

(* Words leave in the order they entered and no accepted word is lost.     *)
Queue == INSTANCE BoundedQueue WITH Capacity <- Depth
IsBoundedQueue == Queue!Spec
=============================================================================
