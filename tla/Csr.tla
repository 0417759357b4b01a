--------------------------------- MODULE Csr ---------------------------------
(***************************************************************************)
(* The CSR block (rtl/csr.sv): an AXI4-Lite slave whose registers are also *)
(* written by events of the ring manager and by its own soft reset.  One   *)
(* Edge is one rising clock edge.  Words are abstracted to what they mean: *)
(* RINGLEN and TAIL are numbers, CTRL, STATUS, IRQ_STATUS and IRQ_CLEAR    *)
(* are sets of the bits that are 1.  A captured address or word and its    *)
(* *_pending bit are one variable, None while nothing is pending.  Byte    *)
(* strobes are all ones (Xil_Out32), BASEADDR is one more plain register   *)
(* and left out.                                                           *)
(***************************************************************************)
EXTENDS Integers

CONSTANT None     (* no captured address or word *)

VARIABLES
  reg_ringlen, reg_tail, reg_ctrl,
  reg_status_error, reg_irq_empty, reg_irq_error,
  awaddr, wdata, bvalid,                (* write channel              *)
  rvalid, rdata,                        (* read channel               *)
  ring_mgr_error_clear,                 (* registered pulse           *)
  irq_clear_error_pending,
  ctrl_readback                         (* None, or the one-shot word *)

registers == <<reg_ringlen, reg_tail, reg_ctrl>>
sticky    == <<reg_status_error, reg_irq_empty, reg_irq_error>>
channels  == <<awaddr, wdata, bvalid, rvalid, rdata>>
pulses    == <<ring_mgr_error_clear, irq_clear_error_pending, ctrl_readback>>
csrVars   == <<registers, sticky, channels, pulses>>

CtrlBits == {"ENABLE", "RESET", "IRQ_EN"}
IrqBits  == {"EMPTY", "ERROR"}
-----------------------------------------------------------------------------
enable == "ENABLE" \in reg_ctrl
reset  == "RESET" \in reg_ctrl
irq_en == "IRQ_EN" \in reg_ctrl

aw_pending == awaddr # None
w_pending  == wdata # None

awready == ~aw_pending /\ ~bvalid
wready  == ~w_pending /\ ~bvalid
arready == ~rvalid

(* Both halves of a write are captured and the last response is taken.     *)
commit == ~bvalid /\ aw_pending /\ w_pending

Writes(register) == commit /\ awaddr = register

(* IRQ_CLEAR strobes, also sent to the interrupt block in the same cycle.  *)
irq_clear_pulse(bit) == Writes("IRQ_CLEAR") /\ bit \in wdata

irq_status_word == {b \in IrqBits : \/ b = "EMPTY" /\ reg_irq_empty
                                    \/ b = "ERROR" /\ reg_irq_error}

(* The level interrupt of the SoC bus.                                     *)
irq == irq_en /\ (reg_irq_empty \/ reg_irq_error)

(* The read multiplexer; status and head come from the ring manager.       *)
ReadData(register, status, head) ==
  CASE register = "RINGLEN"    -> reg_ringlen
    [] register = "HEAD"       -> head
    [] register = "TAIL"       -> reg_tail
    [] register = "CTRL"       -> IF ctrl_readback # None THEN ctrl_readback
                                  ELSE reg_ctrl \ {"RESET"}
    [] register = "STATUS"     -> status \cup (IF reg_status_error THEN {"ERROR"} ELSE {})
    [] register = "IRQ_STATUS" -> irq_status_word
    [] OTHER                   -> {}

(* The soft reset waits for the write response and for every read.         *)
soft_reset(arvalid) == reset /\ ~bvalid /\ ~arvalid /\ ~rvalid

(* Slip: TAIL survives the soft reset.                                     *)
RegistersNextPartial(arvalid) ==
  IF soft_reset(arvalid)
  THEN reg_ringlen' = 0 /\ reg_tail' = reg_tail /\ reg_ctrl' = {}
  ELSE /\ reg_ringlen' = IF Writes("RINGLEN") THEN wdata ELSE reg_ringlen
       /\ reg_tail' = IF Writes("TAIL") THEN wdata ELSE reg_tail
       /\ reg_ctrl' = IF Writes("CTRL") THEN wdata ELSE reg_ctrl

RegistersNext(arvalid) ==
  IF soft_reset(arvalid)
  THEN reg_ringlen' = 0 /\ reg_tail' = 0 /\ reg_ctrl' = {}
  ELSE /\ reg_ringlen' = IF Writes("RINGLEN") THEN wdata ELSE reg_ringlen
       /\ reg_tail' = IF Writes("TAIL") THEN wdata ELSE reg_tail
       /\ reg_ctrl' = IF Writes("CTRL") THEN wdata ELSE reg_ctrl

(* Slip: write-1-to-clear beats an event of the same cycle.                *)
StickyNextClearWins(arvalid, irq_empty_set, error_set) ==
  /\ reg_irq_empty' = (/\ ~soft_reset(arvalid) /\ ~irq_clear_pulse("EMPTY")
                       /\ irq_empty_set \/ reg_irq_empty)
  /\ reg_irq_error' = (/\ ~soft_reset(arvalid) /\ ~irq_clear_pulse("ERROR")
                       /\ error_set \/ reg_irq_error)
  /\ reg_status_error' = (/\ ~soft_reset(arvalid) /\ ~irq_clear_pulse("ERROR")
                          /\ error_set \/ reg_status_error)

(* Later assignments win: write-1-to-clear, then events, then soft reset.  *)
StickyNext(arvalid, irq_empty_set, error_set) ==
  /\ reg_irq_empty' = (/\ ~soft_reset(arvalid)
                       /\ irq_empty_set \/ (reg_irq_empty /\ ~irq_clear_pulse("EMPTY")))
  /\ reg_irq_error' = (/\ ~soft_reset(arvalid)
                       /\ error_set \/ (reg_irq_error /\ ~irq_clear_pulse("ERROR")))
  /\ reg_status_error' = (/\ ~soft_reset(arvalid)
                          /\ error_set \/ (reg_status_error /\ ~irq_clear_pulse("ERROR")))

(* aw and w are the address and the word offered this cycle, or None.      *)
WriteChannelNext(aw, w, bready) ==
  /\ awaddr' = IF commit THEN None ELSE IF awready THEN aw ELSE awaddr
  /\ wdata' = IF commit THEN None ELSE IF wready THEN w ELSE wdata
  /\ bvalid' = (commit \/ (bvalid /\ ~bready))

(* ar is the register whose read is offered this cycle, or None.           *)
ReadChannelNext(ar, rready, status, head) ==
  LET ar_hs == ar # None /\ arready
  IN  /\ rvalid' = (ar_hs \/ (rvalid /\ ~rready))
      /\ rdata' = IF ar_hs THEN ReadData(ar, status, head)
                  ELSE IF rvalid' THEN rdata ELSE None

(* Slip: the clear is remembered for one cycle only.                       *)
PulsesNextForgetful(ar, bready) ==
  LET b_hs == bvalid /\ bready
      ar_hs == ar # None /\ arready
  IN  /\ ring_mgr_error_clear' = (soft_reset(ar # None) \/ (b_hs /\ irq_clear_error_pending))
      /\ irq_clear_error_pending' = irq_clear_pulse("ERROR")
      /\ ctrl_readback' = IF ar_hs THEN None
                          ELSE IF Writes("CTRL") /\ "RESET" \in wdata THEN wdata \ {"RESET"}
                          ELSE ctrl_readback

(* IRQ_CLEAR.ERROR clears the CSR bits at once but tells the ring manager  *)
(* only after the write response has been taken.                           *)
PulsesNext(ar, bready) ==
  LET b_hs == bvalid /\ bready
      ar_hs == ar # None /\ arready
  IN  /\ ring_mgr_error_clear' = (\/ soft_reset(ar # None)
                                  \/ b_hs /\ irq_clear_error_pending)
      /\ irq_clear_error_pending' = (\/ irq_clear_pulse("ERROR")
                                     \/ irq_clear_error_pending /\ ~b_hs)
      /\ ctrl_readback' = IF ar_hs THEN None
                          ELSE IF Writes("CTRL") /\ "RESET" \in wdata THEN wdata \ {"RESET"}
                          ELSE ctrl_readback

Edge(aw, w, bready, ar, rready, status, head, irq_empty_set, error_set) ==
  /\ RegistersNext(ar # None)
  /\ StickyNext(ar # None, irq_empty_set, error_set)
  /\ WriteChannelNext(aw, w, bready)
  /\ ReadChannelNext(ar, rready, status, head)
  /\ PulsesNext(ar, bready)

csrInit ==
  /\ reg_ringlen = 0 /\ reg_tail = 0 /\ reg_ctrl = {}
  /\ reg_status_error = FALSE /\ reg_irq_empty = FALSE /\ reg_irq_error = FALSE
  /\ awaddr = None /\ wdata = None /\ bvalid = FALSE
  /\ rvalid = FALSE /\ rdata = None
  /\ ring_mgr_error_clear = FALSE /\ irq_clear_error_pending = FALSE
  /\ ctrl_readback = None
=============================================================================
