-------------------------------- MODULE Fifo --------------------------------
(***************************************************************************)
(* The synchronous FIFO of rtl/fifo.sv with both clocks tied together, as  *)
(* rtl/movement_top.sv instantiates it: pointers with one wrap bit more    *)
(* than the buffer needs, a registered empty flag and a registered,        *)
(* look-ahead read port.                                                   *)
(***************************************************************************)
EXTENDS Integers, Sequences

CONSTANTS
  Values,             (* words of the data width                              *)
  FIFO_BUFFER_SIZE    (* entries; a power of two, so that the wrap bit of a   *)
                      (* pointer flips exactly when its index returns to 0    *)

ASSUME FifoAssumption ==
  /\ Values # {}
  /\ FIFO_BUFFER_SIZE \in Nat \ {0}

VARIABLES
  fifo_buf,
  wr_addr, rd_addr,   (* $clog2(FIFO_BUFFER_SIZE) + 1 bits *)
  dout, empty         (* output registers                  *)

vars == <<fifo_buf, wr_addr, rd_addr, dout, empty>>
-----------------------------------------------------------------------------
Pointers == 0 .. 2 * FIFO_BUFFER_SIZE - 1

Index(p)  == IF p < FIFO_BUFFER_SIZE THEN p ELSE p - FIFO_BUFFER_SIZE
WrapBit(p) == p >= FIFO_BUFFER_SIZE

(* Slip: pointers without the wrap bit.                                    *)
BumpUnwrapped(p) == IF p = FIFO_BUFFER_SIZE - 1 THEN 0 ELSE p + 1

Bump(p) == IF p = 2 * FIFO_BUFFER_SIZE - 1 THEN 0 ELSE p + 1

empty_t == wr_addr = rd_addr

full == Index(wr_addr) = Index(rd_addr) /\ WrapBit(wr_addr) # WrapBit(rd_addr)

rd_addr_t(rd_en) == IF rd_en /\ ~empty_t THEN Bump(rd_addr) ELSE rd_addr

(* Slip: the write pointer moves although the buffer is full.              *)
wr_addr_t_unguarded(wr_en) == IF wr_en THEN Bump(wr_addr) ELSE wr_addr

wr_addr_t(wr_en) == IF wr_en /\ ~full THEN Bump(wr_addr) ELSE wr_addr

(* Slip: the empty flag sees the write of this edge, dout does not.        *)
EdgeEagerFlag(wr_en, din, rd_en) ==
  /\ fifo_buf' = IF wr_en /\ ~full THEN [fifo_buf EXCEPT ![Index(wr_addr)] = din]
                 ELSE fifo_buf
  /\ wr_addr' = wr_addr_t(wr_en)
  /\ rd_addr' = rd_addr_t(rd_en)
  /\ dout' = fifo_buf[Index(rd_addr_t(rd_en))]
  /\ empty' = (wr_addr_t(wr_en) = rd_addr_t(rd_en))

(* Slip: the flag compares with the read pointer before the read.          *)
EdgeStaleFlag(wr_en, din, rd_en) ==
  /\ fifo_buf' = IF wr_en /\ ~full THEN [fifo_buf EXCEPT ![Index(wr_addr)] = din]
                 ELSE fifo_buf
  /\ wr_addr' = wr_addr_t(wr_en)
  /\ rd_addr' = rd_addr_t(rd_en)
  /\ dout' = fifo_buf[Index(rd_addr_t(rd_en))]
  /\ empty' = (wr_addr = rd_addr)

Edge(wr_en, din, rd_en) ==
  /\ fifo_buf' = IF wr_en /\ ~full THEN [fifo_buf EXCEPT ![Index(wr_addr)] = din]
                 ELSE fifo_buf
  /\ wr_addr' = wr_addr_t(wr_en)
  /\ rd_addr' = rd_addr_t(rd_en)
  /\ dout' = fifo_buf[Index(rd_addr_t(rd_en))]
  /\ empty' = (wr_addr = rd_addr_t(rd_en))

(* The asynchronous reset clears pointers and flag; the buffer and dout    *)
(* keep what they held (at power up, anything).                            *)
Reset ==
  /\ wr_addr' = 0 /\ rd_addr' = 0 /\ empty' = TRUE
  /\ UNCHANGED <<fifo_buf, dout>>

Init ==
  /\ fifo_buf \in [0 .. FIFO_BUFFER_SIZE - 1 -> Values]
  /\ dout \in Values
  /\ wr_addr = 0 /\ rd_addr = 0 /\ empty = TRUE

Next ==
  \/ \E wr_en, rd_en \in BOOLEAN, din \in Values :
       (rd_en => ~empty) /\ Edge(wr_en, din, rd_en)
  \/ Reset

Spec == Init /\ [][Next]_vars
-----------------------------------------------------------------------------
(* How many words lie between the pointers, and which.                     *)
Count == IF wr_addr >= rd_addr THEN wr_addr - rd_addr
         ELSE 2 * FIFO_BUFFER_SIZE - rd_addr + wr_addr

Slot(k) == LET p == rd_addr + k - 1
           IN  Index(IF p < 2 * FIFO_BUFFER_SIZE THEN p ELSE p - 2 * FIFO_BUFFER_SIZE)

Contents == [k \in 1 .. Count |-> fifo_buf[Slot(k)]]

(* The pointers never run further apart than the buffer is long, however   *)
(* often they wrap: no stored word is overwritten before it is read.       *)
TypeOK ==
  /\ fifo_buf \in [0 .. FIFO_BUFFER_SIZE - 1 -> Values]
  /\ wr_addr \in Pointers /\ rd_addr \in Pointers
  /\ dout \in Values /\ empty \in BOOLEAN
  /\ Count <= FIFO_BUFFER_SIZE

(* When the flag says there is a word, dout already holds the oldest one:  *)
(* the registered read port followed the pointer and was not overtaken by  *)
(* a write to the same entry.                                              *)
LookAhead == ~empty => Count > 0 /\ dout = fifo_buf[Index(rd_addr)]

(* Words leave in the order they entered, no accepted word is lost except  *)
(* by a reset, and never more than FIFO_BUFFER_SIZE of them wait.          *)
Queue == INSTANCE BoundedQueue
  WITH Capacity <- FIFO_BUFFER_SIZE, queue <- Contents
InOrder == Queue!Init /\ [][Queue!Move \/ (Queue!Flush /\ Reset)]_Contents

(* The pointers, the flag and the wrap bit implement the queue the rest of *)
(* the datapath is written against.                                        *)
Abstract == INSTANCE ShowAheadQueue
  WITH Depth <- FIFO_BUFFER_SIZE, queue <- Contents
ImplementsQueue == Abstract!Spec
=============================================================================
