--------------------------- MODULE DescriptorRing ---------------------------
(***************************************************************************)
(* The descriptor ring at work: software posts descriptors through TAIL,   *)
(* the ring manager issues them, the datapath fetches and moves them.      *)
(* One step is one rising edge of the clock; in the same step at most one  *)
(* CSR write of software takes effect.                                     *)
(*                                                                         *)
(* The datapath behind the two handshakes is abstracted to what the ring   *)
(* manager sees of it: handles it accepted and has not fetched (issued),   *)
(* and descriptors that passed the fetcher's check and are being moved     *)
(* (moving).  A descriptor leaves with exactly one pulse, df_error or      *)
(* as_done.                                                                *)
(***************************************************************************)
EXTENDS RingManager, Sequences

CONSTANTS
  FETCH_DEPTH,    (* entries of the handle FIFO: fetch_req_ready is ~full    *)
  RingLens,       (* ring lengths software programs                          *)
  Good, Bad,      (* descriptor images that pass / fail the fetcher's check  *)
  RESERVE,        (* ring slots software keeps free; 1 is the rule of        *)
                  (* docs/csr_spec.md: (TAIL+1) % RINGLEN # HEAD             *)
  RESET_LOAD      (* bound: CTRL.RESET is written with at most so many       *)
                  (* descriptors in the datapath                             *)

ASSUME RingAssumption ==
  /\ MAX_INFLIGHT \in Nat \ {0}
  /\ COUNT_RANGE \in Nat /\ COUNT_RANGE > MAX_INFLIGHT
  /\ FETCH_DEPTH \in Nat
  /\ RingLens \subseteq Nat \ {0}
  /\ \E n \in RingLens : \A m \in RingLens : m <= n    (* RINGLEN has a width *)
  /\ Good \cap Bad = {}
  /\ Good \cup Bad # {}
  /\ RESERVE \in Nat \ {0}
  /\ RESET_LOAD \in Nat

Descs == Good \cup Bad

VARIABLES
  memory,           (* the ring in system memory *)
  issued, moving,   (* the datapath              *)
  orphaned          (* history: what the last reset left in the datapath *)

datapath == <<issued, moving>>
vars     == <<rm, csr, memory, datapath, orphaned>>
-----------------------------------------------------------------------------
(* The datapath, as the ring manager sees it: it accepts a handle while    *)
(* the handle FIFO has room, reads descriptors from memory in the order of *)
(* their handles, drops the bad ones with a df_error pulse, and reports    *)
(* the good ones one by one.                                               *)

outstanding == Len(issued) + moving

Fetched == memory[Head(issued).slot]

DatapathMoves(issue, fetch, as_done) ==
  /\ fetch => issued # <<>>
  /\ as_done => moving > 0
  /\ issued' =
       LET left == IF fetch THEN Tail(issued) ELSE issued
       IN  IF issue THEN Append(left, [slot |-> head, desc |-> memory[head]])
           ELSE left
  /\ moving' = moving + (IF fetch /\ Fetched \in Good THEN 1 ELSE 0)
                      - (IF as_done THEN 1 ELSE 0)

(* One clock edge with the given inputs.  The reset of the ring manager    *)
(* forgets what is in the datapath; the history variable keeps how much.   *)
Clock(ready, fetch, as_done, error_clear) ==
  LET issue    == fetch_req_valid /\ ready
      df_error == fetch /\ Fetched \in Bad
  IN  /\ ready => Len(issued) < FETCH_DEPTH
      /\ DatapathMoves(issue, fetch, as_done)
      /\ Edge(issue, as_done, df_error, error_clear)
      /\ orphaned' = IF reset THEN outstanding' ELSE orphaned
-----------------------------------------------------------------------------
(* Software.  docs/csr_spec.md gives the discipline: RINGLEN before the    *)
(* first descriptor, a descriptor into the slot of TAIL and then TAIL, the *)
(* ring never full.                                                        *)

pending == IF tail >= head THEN tail - head ELSE ringlen - head + tail

NextSlot(i) == IF i = ringlen - 1 THEN 0 ELSE i + 1

Wait(ready, fetch, as_done) ==
  /\ ~reset
  /\ Clock(ready, fetch, as_done, FALSE)
  /\ UNCHANGED <<csr, memory>>

Configure(n, ready, fetch, as_done) ==
  /\ ~reset /\ ringlen = 0
  /\ ringlen' = n
  /\ Clock(ready, fetch, as_done, FALSE)
  /\ UNCHANGED <<tail, enable, reset, memory>>

(* Slips: the slot before HEAD is used, and TAIL meets HEAD; RESERVE is    *)
(* forgotten.                                                              *)
PostFull(d, ready, fetch, as_done) ==
  /\ ~reset /\ pending < ringlen
  /\ memory' = [memory EXCEPT ![tail] = d]
  /\ tail' = NextSlot(tail)
  /\ Clock(ready, fetch, as_done, FALSE)
  /\ UNCHANGED <<ringlen, enable, reset>>

PostUnreserved(d, ready, fetch, as_done) ==
  /\ ~reset /\ pending + 1 < ringlen
  /\ memory' = [memory EXCEPT ![tail] = d]
  /\ tail' = NextSlot(tail)
  /\ Clock(ready, fetch, as_done, FALSE)
  /\ UNCHANGED <<ringlen, enable, reset>>

Post(d, ready, fetch, as_done) ==
  /\ ~reset /\ pending + RESERVE < ringlen
  /\ memory' = [memory EXCEPT ![tail] = d]
  /\ tail' = NextSlot(tail)
  /\ Clock(ready, fetch, as_done, FALSE)
  /\ UNCHANGED <<ringlen, enable, reset>>

SetEnable(ready, fetch, as_done) ==
  /\ ~reset
  /\ enable' = ~enable
  /\ Clock(ready, fetch, as_done, FALSE)
  /\ UNCHANGED <<ringlen, tail, reset, memory>>

ClearError(ready, fetch, as_done) ==
  /\ ~reset /\ int_status_error
  /\ Clock(ready, fetch, as_done, TRUE)
  /\ UNCHANGED <<csr, memory>>

(* Slip: RESET is or-ed into CTRL, and ENABLE stays up.                    *)
WriteResetEnabled(ready, fetch, as_done) ==
  /\ ~reset /\ outstanding <= RESET_LOAD
  /\ reset' = TRUE
  /\ Clock(ready, fetch, as_done, FALSE)
  /\ UNCHANGED <<ringlen, tail, enable, memory>>

(* CTRL is written with RESET alone (uart_read_write.c), which also clears *)
(* ENABLE, and whatever the engine is doing: the firmware writes it at the *)
(* start of every run, enabled or not, drained or not.  The bit stays up   *)
(* until the CSR block has finished the write response and no read is on   *)
(* its way; the ring manager resets from the next edge on.  Nothing of it  *)
(* reaches the datapath: movement_top is reset by rst_n alone, and         *)
(* sw_rst_enable gates nothing.                                            *)
WriteReset(ready, fetch, as_done) ==
  /\ ~reset /\ outstanding <= RESET_LOAD
  /\ reset' = TRUE /\ enable' = FALSE
  /\ Clock(ready, fetch, as_done, FALSE)
  /\ UNCHANGED <<ringlen, tail, memory>>

HoldReset(ready, fetch, as_done) ==
  /\ reset
  /\ Clock(ready, fetch, as_done, FALSE)
  /\ UNCHANGED <<csr, memory>>

FinishReset(ready, fetch, as_done) ==
  /\ reset
  /\ ringlen' = 0 /\ tail' = 0 /\ enable' = FALSE /\ reset' = FALSE
  /\ Clock(ready, fetch, as_done, FALSE)
  /\ UNCHANGED memory
-----------------------------------------------------------------------------
Slots == UNION {0 .. n - 1 : n \in RingLens}

Handles == [slot : Slots, desc : Descs]

Init ==
  /\ head = 0 /\ inflight_count = 0 /\ was_empty = TRUE /\ int_status_error = FALSE
  /\ ringlen = 0 /\ tail = 0 /\ enable = FALSE /\ reset = FALSE
  /\ memory \in [Slots -> Descs]
  /\ issued = <<>> /\ moving = 0 /\ orphaned = 0

Next ==
  \E ready, fetch, as_done \in BOOLEAN :
    \/ Wait(ready, fetch, as_done)
    \/ \E n \in RingLens : Configure(n, ready, fetch, as_done)
    \/ \E d \in Descs : Post(d, ready, fetch, as_done)
    \/ SetEnable(ready, fetch, as_done)
    \/ ClearError(ready, fetch, as_done)
    \/ WriteReset(ready, fetch, as_done)
    \/ HoldReset(ready, fetch, as_done)
    \/ FinishReset(ready, fetch, as_done)

Spec == Init /\ [][Next]_vars

(* Fairness: the datapath is clocked hardware and sys_mem answers every    *)
(* burst, so a handle is eventually fetched, a move eventually finishes    *)
(* and room in the handle FIFO is eventually offered while software does   *)
(* nothing in particular.  Software is not required to do anything.        *)
Fairness ==
  /\ WF_vars(\E fetch, as_done \in BOOLEAN :
               fetch_req_valid /\ Wait(TRUE, fetch, as_done))
  /\ WF_vars(\E ready, as_done \in BOOLEAN : Wait(ready, TRUE, as_done))
  /\ WF_vars(\E ready, fetch \in BOOLEAN : Wait(ready, fetch, TRUE))

FairSpec == Spec /\ Fairness
-----------------------------------------------------------------------------
(* Properties.                                                             *)

(* Every register holds a value its width allows, and HEAD, TAIL stay      *)
(* inside the ring that RINGLEN describes (ring_manager.sv wraps HEAD by   *)
(* comparing it with RINGLEN - 1 for equality, so a HEAD outside the ring  *)
(* would never come back).                                                 *)
TypeOK ==
  /\ ringlen \in RingLens \cup {0}
  /\ IF ringlen = 0 THEN head = 0 /\ tail = 0
     ELSE head \in 0 .. ringlen - 1 /\ tail \in 0 .. ringlen - 1
  /\ inflight_count \in 0 .. COUNT_RANGE - 1
  /\ was_empty \in BOOLEAN /\ int_status_error \in BOOLEAN
  /\ enable \in BOOLEAN /\ reset \in BOOLEAN
  /\ memory \in [Slots -> Descs]
  /\ issued \in Seq(Handles)
  /\ moving \in Nat /\ orphaned \in Nat

(* The in-flight counter reports at least the work the datapath holds but  *)
(* for as many descriptors as the last reset left behind, however issue,   *)
(* as_done and df_error pulses coincide.  A reset that left none also      *)
(* keeps the counter within its limit, whatever resets before it did: then *)
(* the datapath never holds more than MAX_INFLIGHT descriptors, the bound  *)
(* the FIFOs behind the fetcher rely on.                                   *)
InflightCovers ==
  /\ outstanding <= inflight_count + orphaned
  /\ orphaned = 0 => inflight_count <= MAX_INFLIGHT

(* The counter changes by at most one per edge, so coinciding pulses make  *)
(* it report more than is in flight.  However often that happens, one unit *)
(* of the limit is left: an empty datapath can always be given work.  Only *)
(* an orphan of a reset, counted down below zero, can take that unit.      *)
LeakBounded == orphaned = 0 => inflight_count - outstanding < MAX_INFLIGHT

(* While CTRL.RESET is up the datapath only drains.  HEAD is held at 0 in  *)
(* that time, so an enabled ring manager would offer slot 0 again at every *)
(* edge, and the fetcher would take it.                                    *)
ResetOnlyDrains == [][reset => outstanding' <= outstanding]_vars

(* Software polls STATUS for RING_EMPTY without BUSY to learn that a run   *)
(* is over (uart_read_write.c): then the engine holds no more descriptors  *)
(* than the last reset left in it, none if it was drained.                 *)
DoneMeansDone == ring_empty /\ ~busy => outstanding <= orphaned

(* A descriptor that was issued is still in its ring slot when the         *)
(* datapath comes to fetch it: software has not reused the slot.  HEAD     *)
(* moves at issue, so this needs slots kept free beyond csr_spec's one;    *)
(* and a reset lets software start over at slot 0, with the handles it     *)
(* left behind still to be fetched.                                        *)
IssuedIntact ==
  orphaned = 0 => \A k \in 1 .. Len(issued) : memory[issued[k].slot] = issued[k].desc

(* The in-flight counter is what docs/ring_manager_spec.md says it is, the *)
(* number of descriptors outstanding, unless a reset left some behind.     *)
CountIsExact == orphaned = 0 => inflight_count = outstanding

(* What the firmware takes for the end of a run, "Done = ring empty AND    *)
(* not busy" (uart_read_write.c), with a ring it has posted to and ENABLE  *)
(* set, as it has when it polls: the engine has finished.                  *)
PolledMeansDone == enable /\ tail # 0 /\ ring_empty /\ ~busy => outstanding = 0

(* The k-th slot of a ring of n, counted from HEAD = h.                    *)
SlotFrom(h, n, k) == IF h + k - 1 < n THEN h + k - 1 ELSE h + k - 1 - n

(* Descriptors are issued in the order they were posted, each once, and    *)
(* the ring never holds more than its length allows: the slots between     *)
(* HEAD and TAIL are an abstract bounded queue, emptied by CTRL.RESET and  *)
(* by nothing else.                                                        *)
PendingDescs ==
  [k \in 1 .. (IF reset THEN 0 ELSE pending) |-> memory[SlotFrom(head, ringlen, k)]]

LongestRing == CHOOSE n \in RingLens : \A m \in RingLens : m <= n

PostedQueue == INSTANCE BoundedQueue
  WITH Values <- Descs, Capacity <- LongestRing - 1, queue <- PendingDescs

RingIsQueue ==
  /\ PostedQueue!Init
  /\ [][PostedQueue!Move \/ (PostedQueue!Flush /\ reset')]_PendingDescs

(* With the engine enabled and no error pending, a posted descriptor is    *)
(* eventually issued: HEAD does not stand still, whatever the in-flight    *)
(* counter has lost to coinciding pulses and to resets before the last     *)
(* one, if that one left nothing behind.                                   *)
HeadMoves ==
  \A h \in Slots :
    (head = h /\ ~ring_empty /\ enable /\ orphaned = 0)
      ~> (head # h \/ ring_empty \/ ~enable \/ int_status_error)
=============================================================================
