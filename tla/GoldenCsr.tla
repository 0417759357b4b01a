------------------------------ MODULE GoldenCsr ------------------------------
(***************************************************************************)
(* The registers of the software model (source/csr.py) as one value: a     *)
(* record with a field for each register.  Addresses and counts are        *)
(* numbers; CTRL, STATUS, IRQ_STATUS and IRQ_CLEAR are sets of bits.       *)
(***************************************************************************)
EXTENDS Integers

PowerUp ==
  [BASEADDR |-> 0, RINGLEN |-> 0, HEAD |-> 0, TAIL |-> 0,
   CTRL |-> {}, STATUS |-> {}, IRQ_STATUS |-> {}, IRQ_CLEAR |-> {}]

(* HEAD and STATUS belong to the hardware; IRQ_CLEAR is write-1-to-clear;  *)
(* every other register, IRQ_STATUS too, takes what is written.            *)
Write(regs, register, word) ==
  CASE register \in {"HEAD", "STATUS"} -> regs
    [] register = "IRQ_CLEAR" ->
         [regs EXCEPT !.IRQ_STATUS = @ \ word, !.STATUS = @ \ (word \cap {"ERROR"})]
    [] OTHER -> [regs EXCEPT ![register] = word]

hw_set_head(regs, head) == [regs EXCEPT !.HEAD = head]

is_enabled(regs) == "ENABLE" \in regs.CTRL
=============================================================================
