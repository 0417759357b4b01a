---------------------------- MODULE ControlPlane ----------------------------
(***************************************************************************)
(* The register side of the engine: software behind an AXI4-Lite port, the *)
(* CSR block, the ring manager and the interrupt block, all on one clock.  *)
(* One step is one rising edge.  The datapath is two numbers: descriptors  *)
(* issued and not yet checked (fetching), and being moved (moving).        *)
(*                                                                         *)
(* Software is the firmware's: one register access at a time, its next one *)
(* may start with the response of the last, RESET at any time, whatever    *)
(* the engine is doing, and no access but a read or CTRL, IRQ_CLEAR while  *)
(* RESET is up (the delay loop after the RESET write in uart_read_write.c). *)
(*                                                                         *)
(* The top level that wires these blocks (dma_top.sv) is not in the        *)
(* repository; the wiring is the one their port names and comments give.   *)
(***************************************************************************)
EXTENDS Csr

CONSTANTS
  MAX_INFLIGHT, COUNT_RANGE, FETCH_DEPTH,   (* as in DescriptorRing         *)
  RingLen,                                  (* the value written to RINGLEN *)
  CtrlWords, ClearWords,                    (* words written to CTRL and to *)
                                            (* IRQ_CLEAR                    *)
  Readable,                                 (* registers software reads     *)
  RESET_LOAD                                (* bound, as in DescriptorRing  *)

ASSUME ControlAssumption ==
  /\ RingLen \in Nat /\ None \notin Nat
  /\ CtrlWords \subseteq SUBSET CtrlBits
  /\ ClearWords \subseteq SUBSET IrqBits
  /\ None \notin CtrlWords \cup ClearWords
  /\ None \notin {"RINGLEN", "TAIL", "CTRL", "IRQ_CLEAR"}

(* The counter has a value for every number of descriptors in flight, the  *)
(* ring is not empty, the firmware writes RESET without ENABLE, and what   *)
(* software reads are the registers whose words are sets of bits.          *)
ASSUME SizesAssumption ==
  /\ RingLen > 0 /\ RESET_LOAD \in Nat
  /\ MAX_INFLIGHT \in Nat /\ COUNT_RANGE \in Nat /\ MAX_INFLIGHT < COUNT_RANGE
  /\ \A word \in CtrlWords : "RESET" \in word => "ENABLE" \notin word
  /\ Readable \subseteq {"CTRL", "STATUS", "IRQ_STATUS"}

VARIABLES
  head, inflight_count, was_empty, int_status_error,   (* ring manager    *)
  status_empty, status_error,                          (* interrupt block *)
  fetching, moving,                                    (* datapath        *)
  orphaned,         (* history: what the last reset left in the datapath  *)
  aw_offer, w_offer, ar_offer,  (* valid and payload of AW, W, AR         *)
  uncleared                     (* RESET written, IRQ_CLEAR not yet       *)

rmVars   == <<head, inflight_count, was_empty, int_status_error>>
datapath == <<fetching, moving>>
software == <<aw_offer, w_offer, ar_offer, uncleared>>
vars     == <<csrVars, rmVars, status_empty, status_error, datapath, orphaned, software>>

RM == INSTANCE RingManager WITH ringlen <- reg_ringlen, tail <- reg_tail
Pin == INSTANCE IrqBlock
-----------------------------------------------------------------------------
(* Hardware: all blocks see the same edge.                                 *)

outstanding == fetching + moving

StatusBits == (IF RM!busy THEN {"BUSY"} ELSE {})
              \cup (IF RM!ring_empty THEN {"RING_EMPTY"} ELSE {})

(* checked: what the fetcher finds this cycle.                             *)
Outcomes == {"nothing", "good", "bad"}

Hardware(aw, w, bready, rready, ready, checked, as_done) ==
  LET issue    == RM!fetch_req_valid /\ ready
      df_error == checked = "bad"
  IN  /\ checked # "nothing" => fetching > 0
      /\ as_done => moving > 0
      /\ ready => fetching < FETCH_DEPTH
      /\ Edge(aw, w, bready, ar_offer, rready, StatusBits, head, RM!irq_empty_set, df_error)
      /\ RM!Edge(issue, as_done, df_error, ring_mgr_error_clear)
      /\ Pin!Edge(irq_en /\ RM!irq_empty_set, irq_en /\ df_error,
                  irq_clear_pulse("EMPTY"), irq_clear_pulse("ERROR"))
      /\ fetching' = fetching + (IF issue THEN 1 ELSE 0)
                              - (IF checked = "nothing" THEN 0 ELSE 1)
      /\ moving' = moving + (IF checked = "good" THEN 1 ELSE 0)
                          - (IF as_done THEN 1 ELSE 0)
      /\ orphaned' = IF reset THEN outstanding' ELSE orphaned
-----------------------------------------------------------------------------
(* Software.  An offer stands until the edge at which it is accepted; the  *)
(* two halves of a write reach the slave independently of each other.      *)

Offered(offer, shown) == IF shown THEN offer ELSE None

Left(offer, shown, slave_ready) == IF shown /\ slave_ready THEN None ELSE offer

(* No access in progress after this edge.                                  *)
Free(bready, rready) ==
  /\ aw_offer = None /\ w_offer = None /\ ~aw_pending /\ ~w_pending
  /\ bvalid => bready
  /\ ar_offer = None
  /\ rvalid => rready

Clock(aw_shown, w_shown, bready, rready, ready, checked, as_done) ==
  /\ aw_shown => aw_offer # None
  /\ w_shown => w_offer # None
  /\ bready => bvalid
  /\ rready => rvalid
  /\ Hardware(Offered(aw_offer, aw_shown), Offered(w_offer, w_shown),
              bready, rready, ready, checked, as_done)

Wait(aw_shown, w_shown, bready, rready, ready, checked, as_done) ==
  /\ Clock(aw_shown, w_shown, bready, rready, ready, checked, as_done)
  /\ aw_offer' = Left(aw_offer, aw_shown, awready)
  /\ w_offer' = Left(w_offer, w_shown, wready)
  /\ ar_offer' = Left(ar_offer, TRUE, arready)
  /\ UNCHANGED uncleared

Start(bready, rready, ready, checked, as_done) ==
  /\ Free(bready, rready)
  /\ Clock(FALSE, FALSE, bready, rready, ready, checked, as_done)

Write(register, word) ==
  aw_offer' = register /\ w_offer' = word /\ ar_offer' = None

Read(bready, rready, ready, checked, as_done) ==
  /\ Start(bready, rready, ready, checked, as_done)
  /\ \E register \in Readable : ar_offer' = register
  /\ UNCHANGED <<aw_offer, w_offer, uncleared>>

Configure(bready, rready, ready, checked, as_done) ==
  /\ ~reset /\ reg_ringlen = 0
  /\ Start(bready, rready, ready, checked, as_done)
  /\ Write("RINGLEN", RingLen)
  /\ UNCHANGED uncleared

(* Slip: TAIL does not wrap.                                               *)
NextSlotUnwrapped == reg_tail + 1

NextSlot == IF reg_tail = reg_ringlen - 1 THEN 0 ELSE reg_tail + 1

Post(bready, rready, ready, checked, as_done) ==
  /\ ~reset /\ reg_ringlen > 0 /\ NextSlot # head
  /\ Start(bready, rready, ready, checked, as_done)
  /\ Write("TAIL", NextSlot)
  /\ UNCHANGED uncleared

(* RESET is written at the start of every run, whatever the last one left  *)
(* behind.  The firmware clears both interrupt flags after every RESET,    *)
(* before it writes anything to CTRL but 0.                                *)
Control(bready, rready, ready, checked, as_done) ==
  /\ Start(bready, rready, ready, checked, as_done)
  /\ \E word \in CtrlWords :
       /\ "RESET" \in word => outstanding <= RESET_LOAD
       /\ uncleared => word \in {{}, {"RESET"}}
       /\ Write("CTRL", word)
       /\ uncleared' = (uncleared \/ "RESET" \in word)

Acknowledge(bready, rready, ready, checked, as_done) ==
  /\ Start(bready, rready, ready, checked, as_done)
  /\ \E word \in ClearWords :
       /\ Write("IRQ_CLEAR", word)
       /\ uncleared' = (uncleared /\ word # IrqBits)
-----------------------------------------------------------------------------
Init ==
  /\ csrInit /\ Pin!irqInit
  /\ head = 0 /\ inflight_count = 0 /\ was_empty = TRUE /\ int_status_error = FALSE
  /\ fetching = 0 /\ moving = 0 /\ orphaned = 0
  /\ aw_offer = None /\ w_offer = None /\ ar_offer = None /\ uncleared = FALSE

Next ==
  \E bready, rready, ready, as_done \in BOOLEAN, checked \in Outcomes :
    \/ \E aw_shown, w_shown \in BOOLEAN :
         Wait(aw_shown, w_shown, bready, rready, ready, checked, as_done)
    \/ Read(bready, rready, ready, checked, as_done)
    \/ Configure(bready, rready, ready, checked, as_done)
    \/ Post(bready, rready, ready, checked, as_done)
    \/ Control(bready, rready, ready, checked, as_done)
    \/ Acknowledge(bready, rready, ready, checked, as_done)

Spec == Init /\ [][Next]_vars

(* Fairness: the clock runs, an AXI4-Lite master shows what it offers and  *)
(* takes the response it is given.  The datapath need not answer.          *)
Answers(aw_shown, w_shown, bready) ==
  \E rready, ready, as_done \in BOOLEAN, checked \in Outcomes :
    Wait(aw_shown, w_shown, bready, rready, ready, checked, as_done)

Fairness ==
  /\ WF_vars(Answers(aw_offer # None, w_offer # None, bvalid))
  /\ WF_vars(Next)

FairSpec == Spec /\ Fairness
-----------------------------------------------------------------------------
(* Properties.                                                             *)

TypeOK ==
  /\ reg_ringlen \in {0, RingLen}
  /\ IF reg_ringlen = 0 THEN reg_tail = 0 ELSE reg_tail \in 0 .. RingLen - 1
  /\ reg_ctrl \in SUBSET CtrlBits
  /\ head \in 0 .. RingLen - 1
  /\ inflight_count \in 0 .. COUNT_RANGE - 1
  /\ orphaned = 0 => inflight_count <= MAX_INFLIGHT

(* A paused engine always shows why: while the ring manager holds its      *)
(* error flag, STATUS.ERROR is up or the clear that software wrote is on   *)
(* its way.  Otherwise software would see an idle engine that never moves. *)
PauseIsVisible ==
  int_status_error =>
    reg_status_error \/ irq_clear_error_pending \/ ring_mgr_error_clear

(* Software that reads RING_EMPTY without BUSY may take the data if the    *)
(* last reset found the engine drained: then no descriptor is anywhere,    *)
(* not when STATUS was sampled and not when the response is taken.         *)
(* Otherwise there are no more than that reset left behind.                *)
PollSound ==
  rvalid /\ rdata # None /\ "RING_EMPTY" \in rdata /\ "BUSY" \notin rdata
    => outstanding <= orphaned /\ RM!ring_empty

(* docs/csr_spec.md says RESET clears the CSRs.  The soft reset waits for  *)
(* reads and responses; no later CTRL write takes the bit down before it   *)
(* has happened, and it leaves CSRs and ring manager in their reset state. *)
ResetClears ==
  [][reset /\ ~reset' =>
       /\ reg_ringlen' = 0 /\ reg_tail' = 0 /\ head' = 0
       /\ inflight_count' = 0 /\ ~int_status_error'
       /\ ~reg_status_error' /\ ~reg_irq_empty' /\ ~reg_irq_error']_vars

(* The interrupt pin has a cause that IRQ_STATUS shows, although the flags *)
(* are kept twice and only the CSR copy is cleared by CTRL.RESET: software *)
(* is never interrupted by something it can neither see nor acknowledge.   *)
PinHasCause ==
  Pin!irq(irq_en) => /\ status_empty => reg_irq_empty
                     /\ status_error => reg_irq_error

(* Acknowledging an error releases the ring manager.                       *)
ClearResumes ==
  (awaddr = "IRQ_CLEAR" /\ wdata # None /\ "ERROR" \in wdata) ~> ~int_status_error
=============================================================================
