-------------------------- MODULE DescriptorFetcher --------------------------
(***************************************************************************)
(* The descriptor fetcher (rtl/descriptor_fetcher.sv): turns ring manager  *)
(* requests into handles for the AXI master, and checks the descriptors    *)
(* that come back.  Both FIFO writes leave through registers, one edge     *)
(* after the full flag was looked at.                                      *)
(*                                                                         *)
(* A descriptor is the four words <<SRC, DST, LEN, FLAGS>>; addresses are  *)
(* word addresses (byte address >> 2); FLAGS is its DIR bit.               *)
(***************************************************************************)
EXTENDS Integers

CONSTANTS
  None,             (* an output register with its write enable down        *)
  LEN_RANGE,        (* number of beat counts: LEN[7:0] is LEN % LEN_RANGE   *)
  MAX_SRAM_ADDR     (* last SRAM word the check lets pass                   *)

VARIABLES
  state,            (* s_normal, s_error                                    *)
  df_in_din,        (* registered write to the handle FIFO, or None         *)
  dm_in_din,        (* registered write to the data mover FIFO, or None     *)
  (* inputs *)
  fetch_req_valid, rm_df_addr, df_in_full, df_out_empty, df_out_dout, dm_in_full

dir_sys_to_sram(desc) == desc[4] = 1
sram_word_idx(desc)   == IF dir_sys_to_sram(desc) THEN desc[2] ELSE desc[1]
len_beats(desc)       == desc[3] % LEN_RANGE

desc_end_addr(desc) ==
  IF len_beats(desc) = 0 THEN sram_word_idx(desc)
  ELSE sram_word_idx(desc) + len_beats(desc) - 1

fetch_req_ready == ~df_in_full

accept == fetch_req_valid /\ fetch_req_ready

df_out_rd_en == ~df_out_empty /\ ~dm_in_full

df_error == df_out_rd_en /\ desc_end_addr(df_out_dout) > MAX_SRAM_ADDR

(* s_error neither holds anything back nor lets anything more through.     *)
Edge ==
  /\ df_in_din' = IF accept THEN rm_df_addr ELSE None
  /\ dm_in_din' = IF df_out_rd_en /\ ~df_error THEN df_out_dout ELSE None
  /\ state' = CASE state = "s_normal" -> IF df_error THEN "s_error" ELSE state
                [] state = "s_error"  -> IF accept THEN "s_normal" ELSE state

Reset == state = "s_normal" /\ df_in_din = None /\ dm_in_din = None
=============================================================================
