------------------------- MODULE MovementTopProofs -------------------------
(***************************************************************************)
(* Theorems about the datapath, for every program, FIFO depth and limit on *)
(* descriptors in flight that satisfy the assumptions of MovementTop.      *)
(*                                                                         *)
(* FifosInBounds and EveryDescriptorAccounted need each other: the two     *)
(* FIFOs the fetcher writes blindly have room because their contents are   *)
(* part of a count that the ring manager limits, and the count is right    *)
(* because no FIFO drops a write or is read while empty.                   *)
(***************************************************************************)
EXTENDS MovementTop, TLAPS

-----------------------------------------------------------------------------
(* The inductive invariant.                                                *)

Instrs == [addr : Nat, len : Nat, write : BOOLEAN]

AxiFetches == {"s_df_ar", "s_df_r", "s_df_push"}
AxiMoves   == {"s_dm_rd_ar", "s_dm_rd_r", "s_dm_wr_aw", "s_dm_wr_w", "s_dm_wr_b", "s_wait_sram"}
SramMoves  == {"s_writing", "s_reading", "s_wait_axi4master"}

Queue(q, S) == q \in Seq(S)

FetcherOK == df_in_din \in Nat \cup {None} /\ dm_in_din \in Descriptors \cup {None}

MoverOK ==
  /\ dm_state \in {"GET_DATA", "DECODE", "SEND_INSTR"}
  /\ input_data \in Descriptors /\ instr_axi \in Instrs /\ instr_sram \in Instrs

MasterOK ==
  /\ axi_state \in {"s_idle", "s_df_get", "s_dm_get"} \cup AxiFetches \cup AxiMoves
  /\ axi_addr \in Nat /\ axi_len \in Nat /\ axi_beat \in Nat
  /\ desc_buf \in Descriptors

SramOK ==
  /\ sram_state \in {"s_idle", "s_dm_get"} \cup SramMoves
  /\ sram_addr \in Nat
  /\ mem \in [0 .. BRAM_SIZE - 1 -> Nat] /\ dout \in Nat

MemoryOK ==
  /\ ram \in [0 .. MEM_WORDS - 1 -> Nat]
  /\ r_addr \in Nat /\ r_beat \in Nat /\ w_addr \in Nat /\ w_beat \in Nat

QueuesOK ==
  /\ Queue(df_in_q, Nat) /\ Queue(df_out_q, Descriptors) /\ Queue(desc_q, Descriptors)
  /\ Queue(dm_axi_q, Instrs) /\ Queue(dm_sram_q, Instrs) /\ Queue(mid_q, Nat)

CountsOK == program \in Seq(Descriptors) /\ requested \in Nat /\ reported \in Nat

Types ==
  FetcherOK /\ MoverOK /\ MasterOK /\ SramOK /\ MemoryOK /\ QueuesOK /\ CountsOK

(* A flag that is down promises a word.                                    *)
Flags ==
  /\ ~df_in_empty => df_in_q # <<>>
  /\ ~df_out_empty => df_out_q # <<>>
  /\ ~desc_empty => desc_q # <<>>
  /\ ~dm_axi_empty => dm_axi_q # <<>>
  /\ ~dm_sram_empty => dm_sram_q # <<>>
  /\ ~mid_empty => mid_q # <<>>

(* The engines strobe rd_en one edge after they saw the flag.              *)
Gets ==
  /\ axi_state = "s_df_get" => df_in_q # <<>>
  /\ axi_state = "s_dm_get" => dm_axi_q # <<>>
  /\ sram_state = "s_dm_get" => dm_sram_q # <<>>

(* The two engines leave their wait states together, so the handshake is a *)
(* pulse and dm_done sees every one of them.                               *)
Once == handshake_done_d => axi_state = "s_idle"

Limited == requested - reported <= MAX_INFLIGHT

MovementInv ==
  Types /\ Flags /\ Gets /\ Once /\ Limited /\ EveryDescriptorAccounted
-----------------------------------------------------------------------------
(* The assumptions on the constants, one by one.                           *)
LEMMA Sizes ==
  /\ DESC_WORDS = 4
  /\ LEN_RANGE \in Nat /\ LEN_RANGE > 0 /\ BRAM_SIZE \in Nat /\ BRAM_SIZE > 0
  /\ DATA_WORDS \in Nat /\ MAX_SRAM_ADDR \in Nat /\ MAX_INFLIGHT \in Nat
  /\ DF_IN_FIFO_Q \in Nat /\ DF_OUT_FIFO_Q \in Nat /\ DM_FIFO_Q \in Nat /\ MID_FIFO_Q \in Nat
  /\ DF_IN_FIFO_Q > 0 /\ DF_OUT_FIFO_Q > 0 /\ DM_FIFO_Q > 0 /\ MID_FIFO_Q > 0
  /\ MAX_INFLIGHT <= DF_IN_FIFO_Q /\ MAX_INFLIGHT <= DM_FIFO_Q
  /\ None \notin Nat /\ None \notin Descriptors
BY MovementAssumption, DepthAssumption

(* The program's words, laid out behind the data, are numbers.             *)
LEMMA InitialRamType ==
  ASSUME program \in Seq(Descriptors)
  PROVE  InitialRam(program) \in [0 .. MEM_WORDS - 1 -> Nat]
<1>1. Len(program) \in Nat /\ DATA_WORDS \in Nat /\ DESC_WORDS = 4
      /\ MEM_WORDS = DATA_WORDS + DESC_WORDS * Len(program)
  BY Sizes DEF MEM_WORDS
<1>2. ASSUME NEW a \in 0 .. MEM_WORDS - 1, ~(a < DATA_WORDS)
      PROVE  program[((a - DATA_WORDS) \div DESC_WORDS) + 1][((a - DATA_WORDS) % DESC_WORDS) + 1] \in Nat
  <2> DEFINE i == a - DATA_WORDS
  <2>1. i \in Nat /\ i < 4 * Len(program)
    BY <1>1, <1>2
  <2> HIDE DEF i
  <2>2. (i \div 4) + 1 \in 1 .. Len(program) /\ (i % 4) + 1 \in 1 .. 4
    BY <1>1, <2>1
  <2>3. program[(i \div 4) + 1] \in [1 .. 4 -> Nat]
    BY <1>1, <2>2 DEF Descriptors
  <2>4. program[(i \div 4) + 1][(i % 4) + 1] \in Nat
    BY <2>2, <2>3
  <2> QED BY <1>1, <2>4 DEF i
<1> DEFINE word(a) ==
             IF a < DATA_WORDS THEN 100 + a
             ELSE program[((a - DATA_WORDS) \div DESC_WORDS) + 1][((a - DATA_WORDS) % DESC_WORDS) + 1]
<1>3. ASSUME NEW a \in 0 .. MEM_WORDS - 1
      PROVE  word(a) \in Nat
  BY <1>1, <1>2, <1>3
<1>4. InitialRam(program) = [a \in 0 .. MEM_WORDS - 1 |-> word(a)]
  BY <1>1 DEF InitialRam
<1> HIDE DEF word
<1> QED BY <1>3, <1>4

(* The invariant holds after rst_n.                                        *)
LEMMA Inits == Init => MovementInv
<1> SUFFICES ASSUME Init PROVE MovementInv
  OBVIOUS
<1>1. CountsOK /\ ram = InitialRam(program)
  BY MovementAssumption DEF Init, CountsOK
<1>2. ram \in [0 .. MEM_WORDS - 1 -> Nat]
  BY <1>1, InitialRamType DEF CountsOK
<1> USE DEF Init, Fetcher!Reset, Mover!Reset, Axi!Reset, Sram!Reset, SystemMemory!Reset,
            DfIn!Init, DfOut!Init, Desc!Init, DmAxi!Init, DmSram!Init, Mid!Init
<1>3. mem \in [0 .. BRAM_SIZE - 1 -> Nat]
  BY Sizes DEF InitialMem
<1>4. FetcherOK /\ QueuesOK
  BY DEF FetcherOK, QueuesOK, Queue
<1>5. MoverOK
  BY Sizes DEF MoverOK, Mover!Instr, Instrs, Descriptors
<1>6. MasterOK
  BY Sizes DEF MasterOK, Descriptors
<1>7. SramOK /\ MemoryOK
  BY <1>2, <1>3 DEF SramOK, MemoryOK
<1>8. Flags /\ Gets /\ Once /\ Limited
  BY Sizes DEF Flags, Gets, Once, Limited
<1>9. EveryDescriptorAccounted
  BY DEF EveryDescriptorAccounted, BeforeCheck, Checked, AxiHalves, SramHalves, Reporting, One
<1> QED BY <1>1, <1>4, <1>5, <1>6, <1>7, <1>8, <1>9 DEF MovementInv, Types
-----------------------------------------------------------------------------
(* The blindly written FIFOs have room.                                    *)

(* In every state of the invariant no FIFO is overrun or underrun.         *)
LEMMA InvBounds == MovementInv => FifosInBounds
<1> SUFFICES ASSUME MovementInv PROVE FifosInBounds
  OBVIOUS
<1>1. /\ Len(df_in_q) \in Nat /\ Len(df_out_q) \in Nat /\ Len(desc_q) \in Nat
      /\ Len(dm_axi_q) \in Nat /\ requested \in Nat /\ reported \in Nat
  BY DEF MovementInv, Types, QueuesOK, Queue, CountsOK
<1>2. /\ requested - reported <= MAX_INFLIGHT
      /\ requested = reported + BeforeCheck + Checked + AxiHalves + Reporting
  BY DEF MovementInv, Limited, EveryDescriptorAccounted
<1>3. /\ BeforeCheck \in Nat /\ (df_in_din # None => BeforeCheck >= Len(df_in_q) + 1)
      /\ Checked \in Nat /\ (dm_in_din # None => Checked >= Len(desc_q) + 1)
      /\ AxiHalves \in Nat /\ Reporting \in Nat
  <2>1. BeforeCheck \in Nat /\ (df_in_din # None => BeforeCheck >= Len(df_in_q) + 1)
    <3> DEFINE a == One(df_in_din # None)
               b == One(axi_state \in {"s_df_ar", "s_df_r", "s_df_push"})
    <3>1. a \in Nat /\ b \in Nat /\ (df_in_din # None => a = 1)
      BY DEF One
    <3>2. BeforeCheck = a + Len(df_in_q) + Len(df_out_q) + b
      BY DEF BeforeCheck
    <3> HIDE DEF a, b
    <3> QED BY <1>1, <3>1, <3>2
  <2>2. Checked \in Nat /\ (dm_in_din # None => Checked >= Len(desc_q) + 1)
    <3> DEFINE a == One(dm_in_din # None)
               b == One(dm_state # "GET_DATA")
    <3>1. a \in Nat /\ b \in Nat /\ (dm_in_din # None => a = 1)
      BY DEF One
    <3>2. Checked = a + Len(desc_q) + b
      BY DEF Checked
    <3> HIDE DEF a, b
    <3> QED BY <1>1, <3>1, <3>2
  <2>3. AxiHalves \in Nat /\ Reporting \in Nat
    BY <1>1 DEF AxiHalves, Reporting, One
  <2> QED BY <2>1, <2>2, <2>3
<1>4. /\ df_in_din # None => Len(df_in_q) # DF_IN_FIFO_Q
      /\ dm_in_din # None => Len(desc_q) # DM_FIFO_Q
  BY <1>1, <1>2, <1>3, Sizes
<1> QED BY <1>4 DEF FifosInBounds, DfIn!full, Desc!full, Axi!df_in_rd_en, Axi!dm_in_rd_en,
                          Sram!dm_in_rd_en, MovementInv, Gets
-----------------------------------------------------------------------------
(* One edge of a FIFO: r and w are the number of words that leave and      *)
(* enter.                                                                  *)
Rest(q, r) == IF r = 1 THEN Tail(q) ELSE q
After(q, r, w, x) == IF w = 1 THEN Append(Rest(q, r), x) ELSE Rest(q, r)

(* The length changes by what moved.                                       *)
LEMMA QueueLen ==
  ASSUME NEW S, NEW q, Queue(q, S), NEW x,
         NEW r \in {0, 1}, r = 1 => q # <<>>, NEW w \in {0, 1}, w = 1 => x \in S
  PROVE  Len(After(q, r, w, x)) = Len(q) - r + w
<1> DEFINE rest == Rest(q, r)
<1>1. rest \in Seq(S) /\ Len(rest) = Len(q) - r /\ Len(rest) \in Nat
  BY DEF Rest, Queue
<1> HIDE DEF rest
<1>2. w = 1 => Len(Append(rest, x)) = Len(rest) + 1
  BY <1>1
<1> QED BY <1>1, <1>2 DEF rest, After

(* The contents keep their type; if anything was left after the read,      *)
(* something is there after the edge.                                      *)
LEMMA QueueEdge ==
  ASSUME NEW S, NEW q, Queue(q, S), NEW x,
         NEW r \in {0, 1}, r = 1 => q # <<>>, NEW w \in {0, 1}, w = 1 => x \in S
  PROVE  /\ Queue(After(q, r, w, x), S)
         /\ Rest(q, r) # <<>> => After(q, r, w, x) # <<>>
<1> DEFINE rest == Rest(q, r)
<1>1. rest \in Seq(S) /\ Len(rest) = Len(q) - r /\ Len(rest) \in Nat
  BY DEF Rest, Queue
<1> HIDE DEF rest
<1>2. CASE w = 1
  <2>1. Append(rest, x) \in Seq(S) /\ Len(Append(rest, x)) = Len(rest) + 1 /\ Append(rest, x) # <<>>
    BY <1>1, <1>2
  <2> QED BY <1>1, <1>2, <2>1 DEF rest, After, Queue
<1>3. CASE w = 0
  BY <1>1, <1>3 DEF rest, After, Queue
<1> QED BY <1>2, <1>3

(* The handle FIFO: written blindly, read in s_df_get.                     *)
LEMMA DfInEdge ==
  ASSUME MovementInv, NEW request \in BOOLEAN, Clock(request)
  PROVE  /\ Queue(df_in_q', Nat) /\ (~df_in_empty' => df_in_q' # <<>>)
         /\ Len(df_in_q') = Len(df_in_q) - One(axi_state = "s_df_get") + One(df_in_din # None)
         /\ df_in_q' = After(df_in_q, One(axi_state = "s_df_get"), One(df_in_din # None), df_in_din)
<1> DEFINE r == One(axi_state = "s_df_get")
           w == One(df_in_din # None)
<1>1. df_in_q' = After(df_in_q, r, w, df_in_din)
  BY InvBounds DEF FifosInBounds, Clock, ClockFifos, DfIn!Edge, DfIn!full, Axi!df_in_rd_en, MovementInv, Gets, One, Rest, After
<1>2. df_in_empty' = (Rest(df_in_q, r) = <<>>)
  BY DEF Clock, ClockFifos, DfIn!Edge, DfIn!full, Axi!df_in_rd_en, MovementInv, Gets, One, Rest
<1>3. ~df_in_empty' => Rest(df_in_q, r) # <<>>
  BY <1>2
<1>4. /\ r \in {0, 1} /\ (r = 1 => df_in_q # <<>>)
      /\ w \in {0, 1} /\ (w = 1 => df_in_din \in Nat)
  BY DEF One, MovementInv, Gets, Types, FetcherOK
<1>5. Queue(df_in_q, Nat)
  BY DEF MovementInv, Types, QueuesOK
<1> HIDE DEF r, w
<1>6. Len(After(df_in_q, r, w, df_in_din)) = Len(df_in_q) - r + w
  BY <1>4, <1>5, QueueLen
<1>7. /\ Queue(After(df_in_q, r, w, df_in_din), Nat)
      /\ Rest(df_in_q, r) # <<>> => After(df_in_q, r, w, df_in_din) # <<>>
  BY <1>4, <1>5, QueueEdge
<1> QED BY <1>1, <1>3, <1>6, <1>7 DEF r, w

(* The FIFO of fetched descriptors.                                        *)
LEMMA DfOutEdge ==
  ASSUME MovementInv, NEW request \in BOOLEAN, Clock(request)
  PROVE  /\ Queue(df_out_q', Descriptors) /\ (~df_out_empty' => df_out_q' # <<>>)
         /\ Len(df_out_q') = Len(df_out_q) - One(Fetcher(request)!df_out_rd_en) + One(Axi!df_out_wr_en)
         /\ df_out_q' = After(df_out_q, One(Fetcher(request)!df_out_rd_en),
                              One(Axi!df_out_wr_en), desc_buf)
<1> DEFINE r == One(Fetcher(request)!df_out_rd_en)
           w == One(Axi!df_out_wr_en)
<1>1. df_out_q' = After(df_out_q, r, w, desc_buf)
  BY DEF Clock, ClockFifos, DfOut!Edge, DfOut!full, Axi!df_out_wr_en, Fetcher!df_out_rd_en, MovementInv, Flags, One, Rest, After
<1>2. df_out_empty' = (Rest(df_out_q, r) = <<>>)
  BY DEF Clock, ClockFifos, DfOut!Edge, DfOut!full, Axi!df_out_wr_en, Fetcher!df_out_rd_en, MovementInv, Flags, One, Rest
<1>3. ~df_out_empty' => Rest(df_out_q, r) # <<>>
  BY <1>2
<1>4. /\ r \in {0, 1} /\ (r = 1 => df_out_q # <<>>)
      /\ w \in {0, 1} /\ (w = 1 => desc_buf \in Descriptors)
  BY DEF One, Fetcher!df_out_rd_en, MovementInv, Flags, Types, MasterOK
<1>5. Queue(df_out_q, Descriptors)
  BY DEF MovementInv, Types, QueuesOK
<1> HIDE DEF r, w
<1>6. Len(After(df_out_q, r, w, desc_buf)) = Len(df_out_q) - r + w
  BY <1>4, <1>5, QueueLen
<1>7. /\ Queue(After(df_out_q, r, w, desc_buf), Descriptors)
      /\ Rest(df_out_q, r) # <<>> => After(df_out_q, r, w, desc_buf) # <<>>
  BY <1>4, <1>5, QueueEdge
<1> QED BY <1>1, <1>3, <1>6, <1>7 DEF r, w

(* The FIFO of checked descriptors: written blindly.                       *)
LEMMA DescEdge ==
  ASSUME MovementInv, NEW request \in BOOLEAN, Clock(request)
  PROVE  /\ Queue(desc_q', Descriptors) /\ (~desc_empty' => desc_q' # <<>>)
         /\ Len(desc_q') = Len(desc_q) - One(Mover!df_dm_in_rd_en) + One(dm_in_din # None)
         /\ desc_q' = After(desc_q, One(Mover!df_dm_in_rd_en), One(dm_in_din # None), dm_in_din)
<1> DEFINE r == One(Mover!df_dm_in_rd_en)
           w == One(dm_in_din # None)
<1>1. desc_q' = After(desc_q, r, w, dm_in_din)
  BY InvBounds DEF FifosInBounds, Clock, ClockFifos, Desc!Edge, Desc!full, Mover!df_dm_in_rd_en, MovementInv, Flags, One, Rest, After
<1>2. desc_empty' = (Rest(desc_q, r) = <<>>)
  BY DEF Clock, ClockFifos, Desc!Edge, Desc!full, Mover!df_dm_in_rd_en, MovementInv, Flags, One, Rest
<1>3. ~desc_empty' => Rest(desc_q, r) # <<>>
  BY <1>2
<1>4. /\ r \in {0, 1} /\ (r = 1 => desc_q # <<>>)
      /\ w \in {0, 1} /\ (w = 1 => dm_in_din \in Descriptors)
  BY DEF One, Mover!df_dm_in_rd_en, MovementInv, Flags, Types, FetcherOK
<1>5. Queue(desc_q, Descriptors)
  BY DEF MovementInv, Types, QueuesOK
<1> HIDE DEF r, w
<1>6. Len(After(desc_q, r, w, dm_in_din)) = Len(desc_q) - r + w
  BY <1>4, <1>5, QueueLen
<1>7. /\ Queue(After(desc_q, r, w, dm_in_din), Descriptors)
      /\ Rest(desc_q, r) # <<>> => After(desc_q, r, w, dm_in_din) # <<>>
  BY <1>4, <1>5, QueueEdge
<1> QED BY <1>1, <1>3, <1>6, <1>7 DEF r, w

(* The AXI master's instructions.                                          *)
LEMMA DmAxiEdge ==
  ASSUME MovementInv, NEW request \in BOOLEAN, Clock(request)
  PROVE  /\ Queue(dm_axi_q', Instrs) /\ (~dm_axi_empty' => dm_axi_q' # <<>>)
         /\ Len(dm_axi_q') = Len(dm_axi_q) - One(axi_state = "s_dm_get") + One(Mover!wr_en)
         /\ dm_axi_q' = After(dm_axi_q, One(axi_state = "s_dm_get"), One(Mover!wr_en), instr_axi)
<1> DEFINE r == One(axi_state = "s_dm_get")
           w == One(Mover!wr_en)
<1>1. dm_axi_q' = After(dm_axi_q, r, w, instr_axi)
  BY DEF Clock, ClockFifos, DmAxi!Edge, DmAxi!full, DmSram!full, Mover!wr_en, Axi!dm_in_rd_en, MovementInv, Gets, One, Rest, After
<1>2. dm_axi_empty' = (Rest(dm_axi_q, r) = <<>>)
  BY DEF Clock, ClockFifos, DmAxi!Edge, DmAxi!full, DmSram!full, Mover!wr_en, Axi!dm_in_rd_en, MovementInv, Gets, One, Rest
<1>3. ~dm_axi_empty' => Rest(dm_axi_q, r) # <<>>
  BY <1>2
<1>4. /\ r \in {0, 1} /\ (r = 1 => dm_axi_q # <<>>)
      /\ w \in {0, 1} /\ (w = 1 => instr_axi \in Instrs)
  BY DEF One, MovementInv, Gets, Types, MoverOK
<1>5. Queue(dm_axi_q, Instrs)
  BY DEF MovementInv, Types, QueuesOK
<1> HIDE DEF r, w
<1>6. Len(After(dm_axi_q, r, w, instr_axi)) = Len(dm_axi_q) - r + w
  BY <1>4, <1>5, QueueLen
<1>7. /\ Queue(After(dm_axi_q, r, w, instr_axi), Instrs)
      /\ Rest(dm_axi_q, r) # <<>> => After(dm_axi_q, r, w, instr_axi) # <<>>
  BY <1>4, <1>5, QueueEdge
<1> QED BY <1>1, <1>3, <1>6, <1>7 DEF r, w

(* The SRAM controller's instructions.                                     *)
LEMMA DmSramEdge ==
  ASSUME MovementInv, NEW request \in BOOLEAN, Clock(request)
  PROVE  /\ Queue(dm_sram_q', Instrs) /\ (~dm_sram_empty' => dm_sram_q' # <<>>)
         /\ Len(dm_sram_q') = Len(dm_sram_q) - One(sram_state = "s_dm_get") + One(Mover!wr_en)
         /\ dm_sram_q' = After(dm_sram_q, One(sram_state = "s_dm_get"),
                               One(Mover!wr_en), instr_sram)
<1> DEFINE r == One(sram_state = "s_dm_get")
           w == One(Mover!wr_en)
<1>1. dm_sram_q' = After(dm_sram_q, r, w, instr_sram)
  BY DEF Clock, ClockFifos, DmSram!Edge, DmSram!full, DmAxi!full, Mover!wr_en, Sram!dm_in_rd_en, MovementInv, Gets, One, Rest, After
<1>2. dm_sram_empty' = (Rest(dm_sram_q, r) = <<>>)
  BY DEF Clock, ClockFifos, DmSram!Edge, DmSram!full, DmAxi!full, Mover!wr_en, Sram!dm_in_rd_en, MovementInv, Gets, One, Rest
<1>3. ~dm_sram_empty' => Rest(dm_sram_q, r) # <<>>
  BY <1>2
<1>4. /\ r \in {0, 1} /\ (r = 1 => dm_sram_q # <<>>)
      /\ w \in {0, 1} /\ (w = 1 => instr_sram \in Instrs)
  BY DEF One, MovementInv, Gets, Types, MoverOK
<1>5. Queue(dm_sram_q, Instrs)
  BY DEF MovementInv, Types, QueuesOK
<1> HIDE DEF r, w
<1>6. Len(After(dm_sram_q, r, w, instr_sram)) = Len(dm_sram_q) - r + w
  BY <1>4, <1>5, QueueLen
<1>7. /\ Queue(After(dm_sram_q, r, w, instr_sram), Instrs)
      /\ Rest(dm_sram_q, r) # <<>> => After(dm_sram_q, r, w, instr_sram) # <<>>
  BY <1>4, <1>5, QueueEdge
<1> QED BY <1>1, <1>3, <1>6, <1>7 DEF r, w

(* The memory answers with a number, inside its range or not.              *)
LEMMA ReadData == MovementInv => SystemMemory!rdata \in Nat
<1> SUFFICES ASSUME MovementInv PROVE SystemMemory!rdata \in Nat
  OBVIOUS
<1>1. MEM_WORDS \in Nat
  BY Sizes DEF MEM_WORDS, MovementInv, Types, CountsOK
<1>2. MemoryOK
  BY DEF MovementInv, Types
<1> QED BY <1>1, <1>2 DEF MemoryOK, SystemMemory!rdata

(* The mid FIFO.                                                           *)
LEMMA MidEdge ==
  ASSUME MovementInv, NEW request \in BOOLEAN, Clock(request)
  PROVE  /\ Queue(mid_q', Nat) /\ (~mid_empty' => mid_q' # <<>>)
         /\ mid_q' = After(mid_q, One(Axi!mid_rd_en \/ Sram!wr_en),
                           One((Axi!mid_wr_en \/ Sram!push) /\ ~Mid!full),
                           IF Axi!mid_wr_en THEN SystemMemory!rdata ELSE dout)
         /\ Axi!mid_rd_en \/ Sram!wr_en => mid_q # <<>>
<1> DEFINE r == One(Axi!mid_rd_en \/ Sram!wr_en)
           w == One((Axi!mid_wr_en \/ Sram!push) /\ ~Mid!full)
           x == IF Axi!mid_wr_en THEN SystemMemory!rdata ELSE dout
<1>0. Axi!mid_rd_en \/ Sram!wr_en => mid_q # <<>>
  BY DEF MovementInv, Flags, Axi!mid_rd_en, Axi!w_hs, Axi!wvalid, Sram!wr_en
<1>1. mid_q' = After(mid_q, r, w, x)
  BY <1>0 DEF Clock, ClockFifos, Mid!Edge, One, Rest, After
<1>2. mid_empty' = (Rest(mid_q, r) = <<>>)
  BY <1>0 DEF Clock, ClockFifos, Mid!Edge, One, Rest
<1>3. ~mid_empty' => Rest(mid_q, r) # <<>>
  BY <1>2
<1>4. /\ r \in {0, 1} /\ (r = 1 => mid_q # <<>>)
      /\ w \in {0, 1} /\ (w = 1 => x \in Nat)
  BY <1>0, ReadData DEF One, MovementInv, Types, SramOK
<1>5. Queue(mid_q, Nat)
  BY DEF MovementInv, Types, QueuesOK
<1> HIDE DEF r, w, x
<1>6. /\ Queue(After(mid_q, r, w, x), Nat)
      /\ Rest(mid_q, r) # <<>> => After(mid_q, r, w, x) # <<>>
  BY <1>4, <1>5, QueueEdge
<1> QED BY <1>0, <1>1, <1>3, <1>6 DEF r, w, x
-----------------------------------------------------------------------------
(* One edge of each block: the types of its registers, and how many        *)
(* descriptors it holds.                                                   *)

(* The words at the front of the FIFOs, where a block looks at them.       *)
LEMMA Fronts ==
  ASSUME MovementInv
  PROVE  /\ axi_state = "s_df_get" => DfIn!dout \in Nat
         /\ axi_state = "s_dm_get" => DmAxi!dout \in Instrs
         /\ sram_state = "s_dm_get" => DmSram!dout \in Instrs
         /\ ~df_out_empty => DfOut!dout \in Descriptors
         /\ ~desc_empty => Desc!dout \in Descriptors
         /\ ~mid_empty => Mid!dout \in Nat
<1>1. \A S : \A q \in Seq(S) : q # <<>> => Head(q) \in S
  OBVIOUS
<1>2. Gets /\ Flags /\ QueuesOK
  BY DEF MovementInv, Types
<1> QED BY <1>1, <1>2 DEF Gets, Flags, QueuesOK, Queue, DfIn!dout, DmAxi!dout, DmSram!dout,
                          DfOut!dout, Desc!dout, Mid!dout

(* The fetcher holds a handle it accepted and a descriptor that passed the *)
(* check.                                                                  *)
LEMMA FetcherEdge ==
  ASSUME MovementInv, NEW request \in BOOLEAN, Clock(request)
  PROVE  /\ FetcherOK'
         /\ One(df_in_din' # None) = One(Fetcher(request)!accept)
         /\ One(dm_in_din' # None)
              = One(Fetcher(request)!df_out_rd_en) - One(Fetcher(request)!df_error)
<1>1. /\ df_in_din' = IF Fetcher(request)!accept THEN RingSlot(requested + 1) ELSE None
      /\ dm_in_din' = IF Fetcher(request)!df_out_rd_en /\ ~Fetcher(request)!df_error
                      THEN DfOut!dout ELSE None
  BY DEF Clock, Fetcher!Edge
<1>2. RingSlot(requested + 1) \in Nat /\ RingSlot(requested + 1) # None
  BY Sizes DEF RingSlot, MovementInv, Types, CountsOK
<1>3. /\ Fetcher(request)!df_out_rd_en => DfOut!dout \in Descriptors /\ DfOut!dout # None
      /\ Fetcher(request)!df_error => Fetcher(request)!df_out_rd_en
  BY Fronts, Sizes DEF Fetcher!df_out_rd_en, Fetcher!df_error
<1>4. FetcherOK'
  BY <1>1, <1>2, <1>3 DEF FetcherOK
<1>5. One(df_in_din' # None) = One(Fetcher(request)!accept)
  BY <1>1, <1>2 DEF One
<1>6. One(dm_in_din' # None)
        = One(Fetcher(request)!df_out_rd_en) - One(Fetcher(request)!df_error)
  BY <1>1, <1>3 DEF One
<1> QED BY <1>4, <1>5, <1>6

(* The data mover holds a descriptor from GET_DATA to SEND_INSTR.          *)
LEMMA MoverEdge ==
  ASSUME MovementInv, NEW request \in BOOLEAN, Clock(request)
  PROVE  /\ MoverOK'
         /\ One(dm_state' # "GET_DATA") =
              One(dm_state # "GET_DATA") + One(Mover!df_dm_in_rd_en) - One(Mover!wr_en)
<1>1. MoverOK /\ Mover!Edge
  BY DEF MovementInv, Types, Clock
<1>2. dm_state' \in {"GET_DATA", "DECODE", "SEND_INSTR"}
  BY <1>1 DEF MoverOK, Mover!Edge
<1>3. input_data' \in Descriptors
  BY <1>1, Fronts DEF MoverOK, Mover!Edge, Mover!df_dm_in_rd_en
<1>4. instr_axi' \in Instrs /\ instr_sram' \in Instrs
  BY <1>1, Sizes DEF MoverOK, Mover!Edge, Mover!AxiInstr, Mover!SramInstr, Mover!Instr, Instrs, Descriptors
<1>5. One(dm_state' # "GET_DATA") =
        One(dm_state # "GET_DATA") + One(Mover!df_dm_in_rd_en) - One(Mover!wr_en)
  BY <1>1 DEF MoverOK, Mover!Edge, Mover!df_dm_in_rd_en, Mover!wr_en, One
<1> QED BY <1>2, <1>3, <1>4, <1>5 DEF MoverOK

(* The AXI master: a fetch runs from s_df_get to the push, a move from     *)
(* s_dm_get to the handshake; a word is taken only after its flag was      *)
(* seen down in s_idle.                                                    *)
LEMMA MasterEdge ==
  ASSUME MovementInv, NEW request \in BOOLEAN, Clock(request)
  PROVE  /\ MasterOK'
         /\ One(axi_state' \in AxiFetches) =
              One(axi_state \in AxiFetches) + One(axi_state = "s_df_get") - One(Axi!df_out_wr_en)
         /\ One(axi_state' \in AxiMoves) =
              One(axi_state \in AxiMoves) + One(axi_state = "s_dm_get") - One(handshake_done)
         /\ axi_state' = "s_df_get" => axi_state = "s_idle" /\ ~df_in_empty
         /\ axi_state' = "s_dm_get" => axi_state = "s_idle" /\ ~dm_axi_empty
         /\ handshake_done => axi_state' = "s_idle"
<1>1. MasterOK /\ Axi!Edge
  BY DEF MovementInv, Types, Clock
<1>2. axi_addr' \in Nat /\ axi_len' \in Nat /\ axi_beat' \in Nat
  BY <1>1, Fronts, Sizes
     DEF MasterOK, Axi!Edge, Axi!df_in_rd_en, Axi!dm_in_rd_en, Axi!Bump, Instrs
<1>3. desc_buf' \in Descriptors
  BY <1>1, ReadData, Sizes DEF MasterOK, Axi!Edge, Descriptors
<1>4. axi_state' = Axi!StateNext
  BY <1>1 DEF Axi!Edge
<1>5. axi_state' \in {"s_idle", "s_df_get", "s_dm_get"} \cup AxiFetches \cup AxiMoves
  BY <1>1, <1>4 DEF MasterOK, Axi!StateNext, AxiFetches, AxiMoves
<1>6. One(axi_state' \in AxiFetches) =
        One(axi_state \in AxiFetches) + One(axi_state = "s_df_get") - One(Axi!df_out_wr_en)
  BY <1>1, <1>4 DEF MasterOK, Axi!StateNext, AxiFetches, AxiMoves, Axi!df_out_wr_en, One
<1>7. One(axi_state' \in AxiMoves) =
        One(axi_state \in AxiMoves) + One(axi_state = "s_dm_get") - One(handshake_done)
  BY <1>1, <1>4 DEF MasterOK, Axi!StateNext, AxiFetches, AxiMoves, handshake_done, Axi!axi_done, One
<1>8. /\ axi_state' = "s_df_get" => axi_state = "s_idle" /\ ~df_in_empty
      /\ axi_state' = "s_dm_get" => axi_state = "s_idle" /\ ~dm_axi_empty
      /\ handshake_done => axi_state' = "s_idle"
  BY <1>1, <1>4 DEF MasterOK, Axi!StateNext, AxiFetches, AxiMoves, handshake_done, Axi!axi_done
<1> QED BY <1>2, <1>3, <1>5, <1>6, <1>7, <1>8 DEF MasterOK

(* The SRAM controller with the block RAM: a move runs from s_dm_get to    *)
(* the same handshake.                                                     *)
LEMMA SramEdge ==
  ASSUME MovementInv, NEW request \in BOOLEAN, Clock(request)
  PROVE  /\ SramOK'
         /\ One(sram_state' \in SramMoves) =
              One(sram_state \in SramMoves) + One(sram_state = "s_dm_get") - One(handshake_done)
         /\ sram_state' = "s_dm_get" => sram_state = "s_idle" /\ ~dm_sram_empty
<1>1. SramOK /\ Sram!Edge(Axi!axi_done)
  BY DEF MovementInv, Types, Clock
<1>2. sram_addr' \in Nat
  BY <1>1, Fronts DEF SramOK, Sram!Edge, Sram!dm_in_rd_en, Instrs
<1>3. Sram!read_addr \in Nat
  BY <1>1, Fronts DEF SramOK, Sram!read_addr, Instrs
<1>4. \A n \in Nat : n % BRAM_SIZE \in 0 .. BRAM_SIZE - 1
  BY Sizes
<1>5. mem' \in [0 .. BRAM_SIZE - 1 -> Nat] /\ dout' \in Nat
  BY <1>1, <1>3, <1>4, Fronts DEF SramOK, Sram!Edge, Sram!wr_en
<1>6. sram_state' = Sram!StateNext(Axi!axi_done)
  BY <1>1 DEF Sram!Edge
<1>7. sram_state' \in {"s_idle", "s_dm_get"} \cup SramMoves
  BY <1>1, <1>6 DEF SramOK, Sram!StateNext, SramMoves
<1>8. One(sram_state' \in SramMoves) =
        One(sram_state \in SramMoves) + One(sram_state = "s_dm_get") - One(handshake_done)
  BY <1>1, <1>6 DEF SramOK, Sram!StateNext, SramMoves, handshake_done, Sram!sram_done, One
<1>9. sram_state' = "s_dm_get" => sram_state = "s_idle" /\ ~dm_sram_empty
  BY <1>1, <1>6 DEF SramOK, Sram!StateNext, SramMoves
<1> QED BY <1>2, <1>5, <1>7, <1>8, <1>9 DEF SramOK

(* System memory keeps its size and holds numbers.                         *)
LEMMA MemoryEdge ==
  ASSUME MovementInv, NEW request \in BOOLEAN, Clock(request)
  PROVE  MemoryOK'
<1>1. /\ MemoryOK /\ MasterOK
      /\ SystemMemory!ReadEdge(Axi!arvalid, axi_addr, Axi!burst, Axi!rready)
      /\ SystemMemory!WriteEdge(Axi!awvalid, axi_addr, Axi!wvalid, Mid!dout, Axi!wlast, Axi!bready)
  BY DEF MovementInv, Types, Clock, ClockMemory
<1>2. r_addr' \in Nat /\ r_beat' \in Nat
  BY <1>1 DEF MemoryOK, MasterOK, SystemMemory!ReadEdge
<1>3. w_addr' \in Nat /\ w_beat' \in Nat
  BY <1>1 DEF MemoryOK, MasterOK, SystemMemory!WriteEdge
<1>4. MEM_WORDS' = MEM_WORDS
  BY DEF Clock, MEM_WORDS
<1>5. Axi!wvalid => Mid!dout \in Nat
  BY Fronts DEF Axi!wvalid
<1>6. ram' \in [0 .. MEM_WORDS - 1 -> Nat]
  BY <1>1, <1>5 DEF MemoryOK, SystemMemory!WriteEdge
<1> QED BY <1>2, <1>3, <1>4, <1>6 DEF MemoryOK

(* The counts.                                                             *)
LEMMA CountsEdge ==
  ASSUME MovementInv, NEW request \in BOOLEAN, Clock(request)
  PROVE  /\ CountsOK'
         /\ requested' = requested + One(Fetcher(request)!accept)
         /\ reported' = reported + One(dm_done) + One(Fetcher(request)!df_error)
         /\ Fetcher(request)!accept => requested - reported < MAX_INFLIGHT
         /\ One(dm_done') = One(handshake_done)
         /\ handshake_done_d' = handshake_done
<1>1. CountsOK /\ Once
  BY DEF MovementInv, Types
<1>2. /\ requested' = requested + One(Fetcher(request)!accept)
      /\ reported' = reported + One(dm_done) + One(Fetcher(request)!df_error)
  BY DEF Clock, One
<1>3. CountsOK'
  <2> DEFINE a == One(Fetcher(request)!accept)
             b == One(dm_done)
             c == One(Fetcher(request)!df_error)
  <2>1. a \in Nat /\ b \in Nat /\ c \in Nat
    BY DEF One
  <2> HIDE DEF a, b, c
  <2>2. requested' = requested + a /\ reported' = reported + b + c /\ program' = program
    BY <1>2 DEF Clock, a, b, c
  <2> QED BY <1>1, <2>1, <2>2 DEF CountsOK
<1>4. Fetcher(request)!accept => requested - reported < MAX_INFLIGHT
  BY DEF Clock, MayRequest, Fetcher!accept
<1>5. handshake_done => ~handshake_done_d
  BY <1>1 DEF Once, handshake_done, Axi!axi_done
<1>6. One(dm_done') = One(handshake_done) /\ handshake_done_d' = handshake_done
  BY <1>5 DEF Clock, One
<1> QED BY <1>2, <1>3, <1>4, <1>6
-----------------------------------------------------------------------------
(* The count: what every edge moves from one place to the next.            *)
LEMMA Balance ==
  ASSUME MovementInv, NEW request \in BOOLEAN, Clock(request)
  PROVE  EveryDescriptorAccounted' /\ Limited'
<1> DEFINE accepted == One(Fetcher(request)!accept)
           popped   == One(Fetcher(request)!df_out_rd_en)
           rejected == One(Fetcher(request)!df_error)
           taken    == One(Mover!df_dm_in_rd_en)
           sent     == One(Mover!wr_en)
           pushed   == One(Axi!df_out_wr_en)
           finished == One(handshake_done)
           h  == One(df_in_din # None)
           d  == One(dm_in_din # None)
           fg == One(axi_state = "s_df_get")
           ag == One(axi_state = "s_dm_get")
           sg == One(sram_state = "s_dm_get")
           f  == One(axi_state \in AxiFetches)
           m  == One(axi_state \in AxiMoves)
           s  == One(sram_state \in SramMoves)
           w  == One(dm_state # "GET_DATA")
           rp == One(dm_done)
<1>1. /\ Len(df_in_q) \in Nat /\ Len(df_out_q) \in Nat /\ Len(desc_q) \in Nat
      /\ Len(dm_axi_q) \in Nat /\ Len(dm_sram_q) \in Nat
      /\ requested \in Nat /\ reported \in Nat
  BY DEF MovementInv, Types, QueuesOK, Queue, CountsOK
<1>2. /\ accepted \in Nat /\ popped \in Nat /\ rejected \in Nat /\ taken \in Nat
      /\ sent \in Nat /\ pushed \in Nat /\ finished \in Nat /\ accepted \in {0, 1}
  BY DEF One
<1>3. /\ h \in Nat /\ d \in Nat /\ fg \in Nat /\ ag \in Nat /\ sg \in Nat
      /\ f \in Nat /\ m \in Nat /\ s \in Nat /\ w \in Nat /\ rp \in Nat
  BY DEF One
<1>4. /\ requested = reported + (h + Len(df_in_q) + Len(df_out_q) + f) + (d + Len(desc_q) + w)
                       + (Len(dm_axi_q) + m) + rp
      /\ Len(dm_axi_q) + m = Len(dm_sram_q) + s
      /\ requested - reported <= MAX_INFLIGHT
  BY DEF MovementInv, EveryDescriptorAccounted, Limited, BeforeCheck, Checked, AxiHalves,
         SramHalves, Reporting, AxiFetches, AxiMoves, SramMoves
<1>5. /\ Len(df_in_q') = Len(df_in_q) - fg + h
      /\ Len(df_out_q') = Len(df_out_q) - popped + pushed
      /\ Len(desc_q') = Len(desc_q) - taken + d
      /\ Len(dm_axi_q') = Len(dm_axi_q) - ag + sent
      /\ Len(dm_sram_q') = Len(dm_sram_q) - sg + sent
  BY DfInEdge, DfOutEdge, DescEdge, DmAxiEdge, DmSramEdge
<1>6. /\ h' = accepted /\ d' = popped - rejected
      /\ w' = w + taken - sent
      /\ f' = f + fg - pushed /\ m' = m + ag - finished
      /\ s' = s + sg - finished
      /\ rp' = finished
  BY FetcherEdge, MoverEdge, MasterEdge, SramEdge, CountsEdge
<1>7. /\ requested' = requested + accepted
      /\ reported' = reported + rp + rejected
      /\ accepted = 1 => requested - reported < MAX_INFLIGHT
  BY CountsEdge DEF One
<1> HIDE DEF accepted, popped, rejected, taken, sent, pushed, finished,
             h, d, fg, ag, sg, f, m, s, w, rp
<1>8. /\ requested' = reported' + (h' + Len(df_in_q') + Len(df_out_q') + f')
                        + (d' + Len(desc_q') + w') + (Len(dm_axi_q') + m') + rp'
      /\ Len(dm_axi_q') + m' = Len(dm_sram_q') + s'
  <2> DEFINE before  == h + Len(df_in_q) + Len(df_out_q) + f
             checked == d + Len(desc_q) + w
             axi     == Len(dm_axi_q) + m
             srams   == Len(dm_sram_q) + s
  <2>1. before \in Nat /\ before' = before + accepted - popped
    BY <1>1, <1>2, <1>3, <1>5, <1>6
  <2>2. checked \in Nat /\ checked' = checked + (popped - rejected) - sent
    BY <1>1, <1>2, <1>3, <1>5, <1>6
  <2>3. axi \in Nat /\ axi' = axi + sent - finished
    BY <1>1, <1>2, <1>3, <1>5, <1>6
  <2>4. srams \in Nat /\ srams' = srams + sent - finished
    BY <1>1, <1>2, <1>3, <1>5, <1>6
  <2>5. requested = reported + before + checked + axi + rp /\ axi = srams
    BY <1>4
  <2> HIDE DEF before, checked, axi, srams
  <2>6. requested' = reported' + before' + checked' + axi' + rp' /\ axi' = srams'
    BY <1>1, <1>2, <1>3, <1>6, <1>7, <2>1, <2>2, <2>3, <2>4, <2>5
  <2> QED BY <2>6 DEF before, checked, axi, srams
<1>9. requested' - reported' <= MAX_INFLIGHT
  BY <1>1, <1>2, <1>3, <1>4, <1>7, Sizes
<1> QED
  BY <1>8, <1>9
     DEF EveryDescriptorAccounted, Limited, BeforeCheck, Checked, AxiHalves, SramHalves, Reporting,
         AxiFetches, AxiMoves, SramMoves, h, d, f, m, s, w, rp

(* Every edge keeps the invariant.                                         *)
LEMMA InvStep == MovementInv /\ [Next]_vars => MovementInv'
<1> SUFFICES ASSUME MovementInv, [Next]_vars PROVE MovementInv'
  OBVIOUS
<1>1. ASSUME NEW request \in BOOLEAN, Clock(request) PROVE MovementInv'
  <2>1. QueuesOK' /\ Flags'
    BY <1>1, DfInEdge, DfOutEdge, DescEdge, DmAxiEdge, DmSramEdge, MidEdge DEF QueuesOK, Flags
  <2>2. Types'
    BY <1>1, <2>1, FetcherEdge, MoverEdge, MasterEdge, SramEdge, MemoryEdge, CountsEdge DEF Types
  <2>3. axi_state' = "s_df_get" => df_in_q' # <<>>
    <3>1. axi_state' = "s_df_get" => axi_state = "s_idle" /\ df_in_q # <<>>
      BY <1>1, MasterEdge DEF MovementInv, Flags
    <3>2. axi_state = "s_idle" => Len(df_in_q') >= Len(df_in_q)
      <4>1. Len(df_in_q) \in Nat
        BY DEF MovementInv, Types, QueuesOK, Queue
      <4> QED BY <1>1, <4>1, DfInEdge DEF One
    <3> QED BY <3>1, <3>2 DEF MovementInv, Types, QueuesOK, Queue
  <2>4. axi_state' = "s_dm_get" => dm_axi_q' # <<>>
    <3>1. axi_state' = "s_dm_get" => axi_state = "s_idle" /\ dm_axi_q # <<>>
      BY <1>1, MasterEdge DEF MovementInv, Flags
    <3>2. axi_state = "s_idle" => Len(dm_axi_q') >= Len(dm_axi_q)
      <4>1. Len(dm_axi_q) \in Nat
        BY DEF MovementInv, Types, QueuesOK, Queue
      <4> QED BY <1>1, <4>1, DmAxiEdge DEF One
    <3> QED BY <3>1, <3>2 DEF MovementInv, Types, QueuesOK, Queue
  <2>5. sram_state' = "s_dm_get" => dm_sram_q' # <<>>
    <3>1. sram_state' = "s_dm_get" => sram_state = "s_idle" /\ dm_sram_q # <<>>
      BY <1>1, SramEdge DEF MovementInv, Flags
    <3>2. sram_state = "s_idle" => Len(dm_sram_q') >= Len(dm_sram_q)
      <4>1. Len(dm_sram_q) \in Nat
        BY DEF MovementInv, Types, QueuesOK, Queue
      <4> QED BY <1>1, <4>1, DmSramEdge DEF One
    <3> QED BY <3>1, <3>2 DEF MovementInv, Types, QueuesOK, Queue
  <2>6. Once'
    BY <1>1, MasterEdge, CountsEdge DEF Once
  <2> QED BY <1>1, <2>1, <2>2, <2>3, <2>4, <2>5, <2>6, Balance DEF MovementInv, Gets
<1>2. CASE UNCHANGED vars
  BY <1>2 DEF MovementInv, vars, fetcher, mover, master, sram, sysmem, fifos, done,
     Types, FetcherOK, MoverOK, MasterOK, SramOK, MemoryOK, QueuesOK, CountsOK, MEM_WORDS,
     Flags, Gets, Once, Limited, EveryDescriptorAccounted, BeforeCheck, Checked, AxiHalves,
     SramHalves, Reporting
<1> QED BY <1>1, <1>2 DEF Next

(* The inductive invariant holds in every reachable state.                 *)
THEOREM MovementInvariant == Spec => []MovementInv
BY Inits, InvStep, PTL DEF Spec

(* For every program, FIFO depth and limit: the two FIFOs the fetcher      *)
(* writes a cycle after it looked are never full then, and an engine that  *)
(* strobes rd_en for a handle or an instruction finds one.                 *)
THEOREM FifosInBoundsAlways == Spec => []FifosInBounds
BY MovementInvariant, InvBounds, PTL

(* For every program, FIFO depth and limit: each requested descriptor is   *)
(* in exactly one place or was reported exactly once.                      *)
THEOREM AccountedAlways == Spec => []EveryDescriptorAccounted
<1>1. MovementInv => EveryDescriptorAccounted
  BY DEF MovementInv
<1> QED BY <1>1, MovementInvariant, PTL
=============================================================================
