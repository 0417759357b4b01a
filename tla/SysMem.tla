------------------------------- MODULE SysMem -------------------------------
(***************************************************************************)
(* System memory (rtl/sys_mem.sv): an AXI4 slave with one read and one     *)
(* write state machine over one RAM, always ready when idle.  Reads out of *)
(* range return 0, writes out of range are dropped.  Addresses are word    *)
(* addresses; the preload port is idle while the engine runs.              *)
(***************************************************************************)
EXTENDS Integers

CONSTANT MEM_WORDS

VARIABLES
  ram,
  r_state, r_addr, r_last_beat, r_beat,
  w_state, w_addr, w_beat, bvalid    (* w_last_beat is never read *)

arready == r_state = "R_IDLE"
rvalid  == r_state = "R_ISSUE"
rlast   == r_beat = r_last_beat
rdata   == IF r_addr + r_beat < MEM_WORDS THEN ram[r_addr + r_beat] ELSE 0

awready == w_state = "W_IDLE"
wready  == w_state = "W_DATA"

ReadEdge(arvalid, araddr, arlen, rready) ==
  LET start == arready /\ arvalid
      beat  == rvalid /\ rready
  IN  /\ r_addr' = IF start THEN araddr ELSE r_addr
      /\ r_last_beat' = IF start THEN arlen ELSE r_last_beat
      /\ r_beat' = IF start THEN 0 ELSE IF beat /\ ~rlast THEN r_beat + 1 ELSE r_beat
      /\ r_state' = IF start THEN "R_ISSUE" ELSE IF beat /\ rlast THEN "R_IDLE" ELSE r_state

(* The response is raised in W_RESP and seen by the master one edge later, *)
(* when the write side is idle again.                                      *)
WriteEdge(awvalid, awaddr, wvalid, wdata, wlast, bready) ==
  LET start == awready /\ awvalid
      beat  == wready /\ wvalid
  IN  /\ w_addr' = IF start THEN awaddr ELSE w_addr
      /\ w_beat' = IF start THEN 0 ELSE IF beat /\ ~wlast THEN w_beat + 1 ELSE w_beat
      /\ w_state' = IF start THEN "W_DATA"
                    ELSE IF beat /\ wlast THEN "W_RESP"
                    ELSE IF w_state = "W_RESP" /\ bready THEN "W_IDLE"
                    ELSE w_state
      /\ bvalid' = (w_state = "W_RESP")
      /\ ram' = IF beat /\ w_addr + w_beat < MEM_WORDS
                THEN [ram EXCEPT ![w_addr + w_beat] = wdata] ELSE ram

Reset ==
  /\ r_state = "R_IDLE" /\ r_addr = 0 /\ r_last_beat = 0 /\ r_beat = 0
  /\ w_state = "W_IDLE" /\ w_addr = 0 /\ w_beat = 0 /\ bvalid = FALSE
=============================================================================
