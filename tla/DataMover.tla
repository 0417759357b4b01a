------------------------------ MODULE DataMover ------------------------------
(***************************************************************************)
(* The data mover (rtl/data_mover.sv): splits a checked descriptor into an *)
(* instruction for the AXI master and one for the SRAM controller, and     *)
(* hands both over in the same cycle.                                      *)
(***************************************************************************)
EXTENDS Integers

VARIABLES
  state,                        (* GET_DATA, DECODE, SEND_INSTR *)
  input_data,                   (* the descriptor at work       *)
  instr_axi, instr_sram,
  (* inputs *)
  df_dm_in_empty, df_dm_in_dout, dm_sram_out_full, dm_axi_out_full

Instr(addr, len, write) == [addr |-> addr, len |-> len, write |-> write]

AxiInstr(desc) ==
  IF desc[4] = 1 THEN Instr(desc[1], desc[3], FALSE) ELSE Instr(desc[2], desc[3], TRUE)

SramInstr(desc) ==
  IF desc[4] = 1 THEN Instr(desc[2], desc[3], TRUE) ELSE Instr(desc[1], desc[3], FALSE)

df_dm_in_rd_en == state = "GET_DATA" /\ ~df_dm_in_empty

(* Write enable of both instruction FIFOs.                                 *)
wr_en == state = "SEND_INSTR" /\ ~dm_sram_out_full /\ ~dm_axi_out_full

Edge ==
  /\ state' = CASE state = "GET_DATA"   -> IF df_dm_in_rd_en THEN "DECODE" ELSE state
                [] state = "DECODE"     -> "SEND_INSTR"
                [] state = "SEND_INSTR" -> IF wr_en THEN "GET_DATA" ELSE state
  /\ input_data' = IF df_dm_in_rd_en THEN df_dm_in_dout ELSE input_data
  /\ instr_axi' = IF state = "DECODE" THEN AxiInstr(input_data) ELSE instr_axi
  /\ instr_sram' = IF state = "DECODE" THEN SramInstr(input_data) ELSE instr_sram

Reset ==
  /\ state = "GET_DATA" /\ input_data = <<0, 0, 0, 0>>
  /\ instr_axi = Instr(0, 0, FALSE) /\ instr_sram = Instr(0, 0, FALSE)
=============================================================================
