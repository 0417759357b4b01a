------------------------------ MODULE IrqBlock ------------------------------
(* The interrupt block (rtl/IRQ.sv): two sticky flags of its own behind the *)
(* interrupt pin, set by the ring manager's gated pulses, cleared by the    *)
(* CSR block's IRQ_CLEAR strobes, reset by rst_n only.                      *)
VARIABLES status_empty, status_error

irqVars == <<status_empty, status_error>>

(* An event beats a clear in the same cycle.                                *)
StatusNext(flag, event, clear) == event \/ (flag /\ ~clear)

Edge(empty_event, error_event, clear_empty, clear_error) ==
  /\ status_empty' = StatusNext(status_empty, empty_event, clear_empty)
  /\ status_error' = StatusNext(status_error, error_event, clear_error)

irq(irq_en) == (status_error \/ status_empty) /\ irq_en

irqInit == status_empty = FALSE /\ status_error = FALSE
=============================================================================
