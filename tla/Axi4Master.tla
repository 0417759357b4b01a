----------------------------- MODULE Axi4Master -----------------------------
(***************************************************************************)
(* The AXI4 master (rtl/axi_4_master.sv): one state machine that fetches   *)
(* descriptors (first choice) and moves the system memory side of          *)
(* transfers through the mid FIFO.                                         *)
(***************************************************************************)
EXTENDS Integers

CONSTANTS DESC_WORDS, LEN_RANGE

VARIABLES
  state,
  cur_addr, cur_len, beat_idx,   (* cur_write is never read and left out   *)
  desc_buf,
  (* inputs: FIFOs *)
  df_in_empty, df_in_dout, df_out_full, dm_in_empty, dm_in_dout, mid_full, mid_empty,
  (* inputs: the SRAM controller and the AXI4 slave *)
  sram_done, arready, rvalid, rlast, rdata, awready, wready, bvalid

df_in_rd_en  == state = "s_df_get"
df_out_wr_en == state = "s_df_push" /\ ~df_out_full
dm_in_rd_en  == state = "s_dm_get"

(* Slip: done before the write response has come.                          *)
axi_done_early == state \in {"s_wait_sram", "s_dm_wr_b"}

axi_done     == state = "s_wait_sram"

arvalid == state \in {"s_df_ar", "s_dm_rd_ar"}
awvalid == state = "s_dm_wr_aw"
burst   == IF cur_len = 0 THEN 0 ELSE cur_len - 1    (* arlen, awlen *)

rready == state = "s_df_r" \/ (state = "s_dm_rd_r" /\ ~mid_full)
r_hs   == rready /\ rvalid

(* Slip: WLAST one beat late.                                              *)
wlast_late == beat_idx = cur_len

(* Eight bit arithmetic: the last beat of a burst of length 0 is 255.      *)
wlast  == beat_idx = (cur_len + LEN_RANGE - 1) % LEN_RANGE
wvalid == state = "s_dm_wr_w" /\ ~mid_empty
w_hs   == wvalid /\ wready
bready == state = "s_dm_wr_b"

mid_wr_en == state = "s_dm_rd_r" /\ r_hs
mid_rd_en == w_hs

StateNext ==
  CASE state = "s_idle" ->
         IF ~df_in_empty THEN "s_df_get" ELSE IF ~dm_in_empty THEN "s_dm_get" ELSE state
    [] state = "s_df_get"    -> "s_df_ar"
    [] state = "s_df_ar"     -> IF arready THEN "s_df_r" ELSE state
    [] state = "s_df_r"      -> IF r_hs /\ rlast THEN "s_df_push" ELSE state
    [] state = "s_df_push"   -> IF df_out_wr_en THEN "s_idle" ELSE state
    [] state = "s_dm_get"    -> IF dm_in_dout.write THEN "s_dm_wr_aw" ELSE "s_dm_rd_ar"
    [] state = "s_dm_rd_ar"  -> IF arready THEN "s_dm_rd_r" ELSE state
    [] state = "s_dm_rd_r"   -> IF r_hs /\ rlast THEN "s_wait_sram" ELSE state
    [] state = "s_dm_wr_aw"  -> IF awready THEN "s_dm_wr_w" ELSE state
    [] state = "s_dm_wr_w"   -> IF w_hs /\ wlast THEN "s_dm_wr_b" ELSE state
    [] state = "s_dm_wr_b"   -> IF bvalid THEN "s_wait_sram" ELSE state
    [] state = "s_wait_sram" -> IF sram_done THEN "s_idle" ELSE state

Bump(n) == (n + 1) % LEN_RANGE

Edge ==
  /\ state' = StateNext
  /\ cur_addr' = IF df_in_rd_en THEN df_in_dout
                 ELSE IF dm_in_rd_en THEN dm_in_dout.addr ELSE cur_addr
  /\ cur_len' = IF df_in_rd_en THEN DESC_WORDS
                ELSE IF dm_in_rd_en THEN dm_in_dout.len % LEN_RANGE ELSE cur_len
  /\ beat_idx' =
       IF df_in_rd_en \/ dm_in_rd_en \/ (awvalid /\ awready) THEN 0
       ELSE IF (state = "s_df_r" /\ r_hs) \/ w_hs THEN Bump(beat_idx)
       ELSE beat_idx
  /\ desc_buf' =
       IF df_in_rd_en THEN [k \in 1 .. DESC_WORDS |-> 0]
       ELSE IF state = "s_df_r" /\ r_hs THEN [desc_buf EXCEPT ![beat_idx + 1] = rdata]
       ELSE desc_buf

Reset ==
  /\ state = "s_idle" /\ cur_addr = 0 /\ cur_len = 0 /\ beat_idx = 0
  /\ desc_buf = [k \in 1 .. DESC_WORDS |-> 0]
=============================================================================
