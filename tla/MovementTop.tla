---------------------------- MODULE MovementTop ----------------------------
(***************************************************************************)
(* The datapath (rtl/movement_top.sv): descriptor fetcher, data mover, AXI *)
(* master, SRAM controller and block RAM, the six FIFOs between them, and  *)
(* system memory behind the AXI port.  One step is one clock edge, seen by *)
(* every block.  The ring manager is its environment: it requests the      *)
(* descriptors of a program in order, at any pace, MAX_INFLIGHT at a time. *)
(***************************************************************************)
EXTENDS Integers, Sequences, FiniteSets

CONSTANTS
  None,
  LEN_RANGE, DESC_WORDS, MAX_SRAM_ADDR, BRAM_SIZE,
  DATA_WORDS,                                   (* words below the ring      *)
  MAX_INFLIGHT,
  DF_IN_FIFO_Q, DF_OUT_FIFO_Q, DM_FIFO_Q, MID_FIFO_Q,
  Programs                                      (* sequences of descriptors  *)

Descriptors == [1 .. DESC_WORDS -> Nat]

ASSUME MovementAssumption ==
  /\ DESC_WORDS = 4
  /\ {LEN_RANGE, BRAM_SIZE} \subseteq Nat \ {0}
  /\ {DATA_WORDS, MAX_SRAM_ADDR, MAX_INFLIGHT} \subseteq Nat
  /\ {DF_IN_FIFO_Q, DF_OUT_FIFO_Q, DM_FIFO_Q, MID_FIFO_Q} \subseteq Nat \ {0}
  /\ Programs \subseteq Seq(Descriptors)
  /\ None \notin Nat /\ None \notin Descriptors

(* The two FIFOs the fetcher writes without looking at full have room for  *)
(* every descriptor the ring manager lets into the datapath.               *)
ASSUME DepthAssumption == MAX_INFLIGHT <= DF_IN_FIFO_Q /\ MAX_INFLIGHT <= DM_FIFO_Q

VARIABLES
  df_state, df_in_din, dm_in_din,                           (* fetcher       *)
  dm_state, input_data, instr_axi, instr_sram,              (* data mover    *)
  axi_state, axi_addr, axi_len, axi_beat, desc_buf,         (* AXI master    *)
  sram_state, sram_addr, sram_len, sram_beat, mem, dout,    (* SRAM, BRAM    *)
  ram, r_state, r_addr, r_last_beat, r_beat,
  w_state, w_addr, w_beat, bvalid,                          (* system memory *)
  df_in_q, df_in_empty, df_out_q, df_out_empty,             (* FIFOs         *)
  desc_q, desc_empty, dm_axi_q, dm_axi_empty,
  dm_sram_q, dm_sram_empty, mid_q, mid_empty,
  handshake_done_d, dm_done,                                (* completion    *)
  program, requested, reported,      (* the program, requests accepted and   *)
                                     (* dm_done or df_error pulses seen      *)
  transfers                          (* history: handshakes of the engines   *)

fetcher == <<df_state, df_in_din, dm_in_din>>
mover   == <<dm_state, input_data, instr_axi, instr_sram>>
master  == <<axi_state, axi_addr, axi_len, axi_beat, desc_buf>>
sram    == <<sram_state, sram_addr, sram_len, sram_beat, mem, dout>>
sysmem  == <<ram, r_state, r_addr, r_last_beat, r_beat, w_state, w_addr, w_beat, bvalid>>
fifos   == <<df_in_q, df_in_empty, df_out_q, df_out_empty, desc_q, desc_empty,
             dm_axi_q, dm_axi_empty, dm_sram_q, dm_sram_empty, mid_q, mid_empty>>
done    == <<handshake_done_d, dm_done>>
vars    == <<fetcher, mover, master, sram, sysmem, fifos, done,
             program, requested, reported, transfers>>
-----------------------------------------------------------------------------
(* The FIFOs.                                                              *)

DfIn   == INSTANCE ShowAheadQueue
  WITH Values <- Int, Depth <- DF_IN_FIFO_Q, queue <- df_in_q, empty <- df_in_empty
DfOut  == INSTANCE ShowAheadQueue
  WITH Values <- Int, Depth <- DF_OUT_FIFO_Q, queue <- df_out_q, empty <- df_out_empty
Desc   == INSTANCE ShowAheadQueue
  WITH Values <- Int, Depth <- DM_FIFO_Q, queue <- desc_q, empty <- desc_empty
DmAxi  == INSTANCE ShowAheadQueue
  WITH Values <- Int, Depth <- DM_FIFO_Q, queue <- dm_axi_q, empty <- dm_axi_empty
DmSram == INSTANCE ShowAheadQueue
  WITH Values <- Int, Depth <- DM_FIFO_Q, queue <- dm_sram_q, empty <- dm_sram_empty
Mid    == INSTANCE ShowAheadQueue
  WITH Values <- Int, Depth <- MID_FIFO_Q, queue <- mid_q, empty <- mid_empty

(* The blocks.                                                             *)

RingSlot(k) == DATA_WORDS + DESC_WORDS * (k - 1)
MEM_WORDS   == DATA_WORDS + DESC_WORDS * Len(program)

SystemMemory == INSTANCE SysMem

Sram == INSTANCE SramController
  WITH state <- sram_state, cur_addr <- sram_addr, cur_len <- sram_len, beat_idx <- sram_beat,
       dm_in_empty <- dm_sram_empty, dm_in_dout <- DmSram!dout,
       mid_full <- Mid!full, mid_dout <- Mid!dout

Axi == INSTANCE Axi4Master
  WITH state <- axi_state, cur_addr <- axi_addr, cur_len <- axi_len, beat_idx <- axi_beat,
       df_in_dout <- DfIn!dout, df_out_full <- DfOut!full,
       dm_in_empty <- dm_axi_empty, dm_in_dout <- DmAxi!dout, mid_full <- Mid!full,
       sram_done <- Sram!sram_done,
       arready <- SystemMemory!arready, rvalid <- SystemMemory!rvalid,
       rlast <- SystemMemory!rlast, rdata <- SystemMemory!rdata,
       awready <- SystemMemory!awready, wready <- SystemMemory!wready

Fetcher(request) == INSTANCE DescriptorFetcher
  WITH state <- df_state, fetch_req_valid <- request,
       rm_df_addr <- RingSlot(requested + 1), df_in_full <- DfIn!full,
       df_out_dout <- DfOut!dout, dm_in_full <- Desc!full

Mover == INSTANCE DataMover
  WITH state <- dm_state, df_dm_in_empty <- desc_empty, df_dm_in_dout <- Desc!dout,
       dm_sram_out_full <- DmSram!full, dm_axi_out_full <- DmAxi!full

handshake_done == Sram!sram_done /\ Axi!axi_done
-----------------------------------------------------------------------------
(* Slip: no limit on descriptors in flight.                                *)
MayRequestUnlimited == requested < Len(program)

(* The ring manager asks for the descriptors in order, while its count of  *)
(* descriptors in flight is below the limit.                               *)
MayRequest == requested < Len(program) /\ requested - reported < MAX_INFLIGHT

(* One clock edge; request is the ring manager's fetch_req_valid.          *)

ClockFifos(request) ==
  /\ DfIn!Edge(df_in_din # None, df_in_din, Axi!df_in_rd_en)
  /\ DfOut!Edge(Axi!df_out_wr_en, desc_buf, Fetcher(request)!df_out_rd_en)
  /\ Desc!Edge(dm_in_din # None, dm_in_din, Mover!df_dm_in_rd_en)
  /\ DmAxi!Edge(Mover!wr_en, instr_axi, Axi!dm_in_rd_en)
  /\ DmSram!Edge(Mover!wr_en, instr_sram, Sram!dm_in_rd_en)
  /\ Mid!Edge(Axi!mid_wr_en \/ Sram!push,
              IF Axi!mid_wr_en THEN SystemMemory!rdata ELSE dout,
              Axi!mid_rd_en \/ Sram!wr_en)

ClockMemory ==
  /\ SystemMemory!ReadEdge(Axi!arvalid, axi_addr, Axi!burst, Axi!rready)
  /\ SystemMemory!WriteEdge(Axi!awvalid, axi_addr, Axi!wvalid, Mid!dout, Axi!wlast, Axi!bready)

Clock(request) ==
  /\ request => MayRequest
  /\ Fetcher(request)!Edge
  /\ Mover!Edge
  /\ Axi!Edge
  /\ Sram!Edge(Axi!axi_done)
  /\ ClockMemory
  /\ ClockFifos(request)
  /\ handshake_done_d' = handshake_done
  /\ dm_done' = (handshake_done /\ ~handshake_done_d)
  /\ requested' = requested + (IF Fetcher(request)!accept THEN 1 ELSE 0)
  /\ reported' = reported + (IF dm_done THEN 1 ELSE 0)
                          + (IF Fetcher(request)!df_error THEN 1 ELSE 0)
  /\ transfers' = transfers + (IF handshake_done THEN 1 ELSE 0)
  /\ UNCHANGED program
-----------------------------------------------------------------------------
(* Distinct words everywhere, so that a misplaced one is seen.             *)
InitialRam(p) ==
  [a \in 0 .. DATA_WORDS + DESC_WORDS * Len(p) - 1 |->
     IF a < DATA_WORDS THEN 100 + a
     ELSE LET i == a - DATA_WORDS IN p[(i \div DESC_WORDS) + 1][(i % DESC_WORDS) + 1]]

InitialMem == [a \in 0 .. BRAM_SIZE - 1 |-> 200 + a]

Init ==
  /\ program \in Programs
  /\ ram = InitialRam(program) /\ mem = InitialMem /\ dout = 0
  /\ Fetcher(FALSE)!Reset /\ Mover!Reset /\ Axi!Reset /\ Sram!Reset /\ SystemMemory!Reset
  /\ DfIn!Init /\ DfOut!Init /\ Desc!Init /\ DmAxi!Init /\ DmSram!Init /\ Mid!Init
  /\ handshake_done_d = FALSE /\ dm_done = FALSE
  /\ requested = 0 /\ reported = 0 /\ transfers = 0

Next == \E request \in BOOLEAN : Clock(request)

Spec == Init /\ [][Next]_vars

(* Fairness: the clock runs.  The ring manager need not ask for anything.  *)
FairSpec == Spec /\ WF_vars(Next)
-----------------------------------------------------------------------------
(* The software model of the engine (source/): one descriptor after the    *)
(* other, each moved as a whole, LEN words from SRC to DST.                *)

Bad(desc) == Fetcher(FALSE)!desc_end_addr(desc) > MAX_SRAM_ADDR

Moved(both, desc) ==
  LET n == desc[3] % LEN_RANGE
  IN  IF Bad(desc) THEN both
      ELSE IF desc[4] = 1
      THEN [both EXCEPT !.mem = [a \in DOMAIN @ |->
              IF a \in desc[2] .. desc[2] + n - 1 THEN both.ram[a - desc[2] + desc[1]] ELSE @[a]]]
      ELSE [both EXCEPT !.ram = [a \in DOMAIN @ |->
              IF a \in desc[2] .. desc[2] + n - 1 THEN both.mem[a - desc[2] + desc[1]] ELSE @[a]]]

Golden ==
  LET After[k \in 0 .. Len(program)] ==
        IF k = 0 THEN [ram |-> InitialRam(program), mem |-> InitialMem]
        ELSE Moved(After[k - 1], program[k])
  IN  After

One(condition) == IF condition THEN 1 ELSE 0

(* Descriptors and the two halves of transfers inside the datapath.        *)
BeforeCheck ==
  One(df_in_din # None) + Len(df_in_q) + Len(df_out_q)
  + One(axi_state \in {"s_df_ar", "s_df_r", "s_df_push"})

Checked == One(dm_in_din # None) + Len(desc_q) + One(dm_state # "GET_DATA")

AxiHalves ==
  Len(dm_axi_q) + One(axi_state \in {"s_dm_rd_ar", "s_dm_rd_r", "s_dm_wr_aw", "s_dm_wr_w",
                                     "s_dm_wr_b", "s_wait_sram"})
SramHalves ==
  Len(dm_sram_q) + One(sram_state \in {"s_writing", "s_reading", "s_wait_axi4master"})

Reporting == One(dm_done)
-----------------------------------------------------------------------------
(* Properties.                                                             *)

(* No FIFO is written while it is full, although DescriptorFetcher decides *)
(* one edge early, and none is read while it is empty: what keeps words    *)
(* from being dropped is only that the ring manager limits how many        *)
(* descriptors are in flight.                                              *)
FifosInBounds ==
  /\ df_in_din # None => ~DfIn!full
  /\ dm_in_din # None => ~Desc!full
  /\ Axi!df_in_rd_en => df_in_q # <<>>
  /\ Axi!dm_in_rd_en => dm_axi_q # <<>>
  /\ Sram!dm_in_rd_en => dm_sram_q # <<>>

(* Every requested descriptor is in exactly one place or was reported      *)
(* exactly once: none is lost in a FIFO, duplicated, or counted done twice *)
(* because the two engines finished in some unlucky order.                 *)
EveryDescriptorAccounted ==
  /\ requested = reported + BeforeCheck + Checked + AxiHalves + Reporting
  /\ AxiHalves = SramHalves

(* When the two engines agree that a transfer is over, both memories hold  *)
(* what executing the descriptors one at a time up to it gives, and the    *)
(* mid FIFO has no word left that the next transfer could take.            *)
CopiesInOrder ==
  handshake_done =>
    /\ mid_q = <<>>
    /\ \E k \in 1 .. requested :
         /\ ~Bad(program[k])
         /\ Cardinality({j \in 1 .. k : ~Bad(program[j])}) = transfers + 1
         /\ [ram |-> ram, mem |-> mem] = Golden[k]

(* The SRAM controller's read-ahead survives no stall: while the mid FIFO  *)
(* is full the block RAM is asked for word 0, and that word would be       *)
(* pushed next.  The FIFO is large enough that this never happens.         *)
ReadAheadNeverStalls == sram_state = "s_reading" => ~Mid!full

(* Every requested descriptor is eventually reported.                      *)
AllReported == \A k \in 1 .. 3 : requested >= k ~> reported >= k
=============================================================================
