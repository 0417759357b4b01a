--------------------------- MODULE SramController ---------------------------
(***************************************************************************)
(* The SRAM controller (rtl/sram_controller.sv) with its block RAM         *)
(* (rtl/bram.sv): moves the SRAM side of a transfer between the mid FIFO   *)
(* and the RAM, one word per cycle, and waits for the AXI master at the    *)
(* end.  The read port of the RAM is registered, so the controller asks    *)
(* for a word one cycle ahead; addresses are truncated to the RAM's size.  *)
(***************************************************************************)
EXTENDS Integers

CONSTANTS LEN_RANGE, BRAM_SIZE

VARIABLES
  state,
  cur_addr, cur_len, beat_idx,   (* cur_write is never read and left out *)
  mem, dout,                     (* the block RAM and its read register  *)
  (* inputs *)
  dm_in_empty, dm_in_dout, mid_full, mid_empty, mid_dout

dm_in_rd_en == state = "s_dm_get"
sram_done   == state = "s_wait_axi4master"

wr_en == state = "s_writing" /\ ~mid_empty     (* also mid_rd_en         *)
push  == state = "s_reading" /\ ~mid_full      (* mid_wr_en              *)

last_beat == beat_idx = (cur_len + LEN_RANGE - 1) % LEN_RANGE \/ cur_len = 0

(* Slip: no read ahead when the instruction is taken.                      *)
read_addr_late == IF push THEN cur_addr ELSE 0

(* Word 0 is read whenever nothing else is asked for.                      *)
read_addr ==
  IF state = "s_dm_get" /\ ~dm_in_dout.write THEN dm_in_dout.addr
  ELSE IF push THEN cur_addr ELSE 0

StateNext(axi4master_done) ==
  CASE state = "s_idle"    -> IF ~dm_in_empty THEN "s_dm_get" ELSE state
    [] state = "s_dm_get"  -> IF dm_in_dout.write THEN "s_writing" ELSE "s_reading"
    [] state \in {"s_writing", "s_reading"} ->
         IF (wr_en \/ push) /\ last_beat THEN "s_wait_axi4master" ELSE state
    [] state = "s_wait_axi4master" -> IF axi4master_done THEN "s_idle" ELSE state

Edge(axi4master_done) ==
  /\ state' = StateNext(axi4master_done)
  /\ cur_addr' = IF dm_in_rd_en
                 THEN IF dm_in_dout.write THEN dm_in_dout.addr ELSE dm_in_dout.addr + 1
                 ELSE IF wr_en \/ push THEN cur_addr + 1 ELSE cur_addr
  /\ cur_len' = IF dm_in_rd_en THEN dm_in_dout.len % LEN_RANGE ELSE cur_len
  /\ beat_idx' = IF dm_in_rd_en THEN 0
                 ELSE IF wr_en \/ push THEN (beat_idx + 1) % LEN_RANGE ELSE beat_idx
  /\ mem' = IF wr_en THEN [mem EXCEPT ![cur_addr % BRAM_SIZE] = mid_dout] ELSE mem
  /\ dout' = mem[read_addr % BRAM_SIZE]

Reset ==
  state = "s_idle" /\ cur_addr = 0 /\ cur_len = 0 /\ beat_idx = 0
=============================================================================
