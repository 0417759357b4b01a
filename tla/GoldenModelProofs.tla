-------------------------- MODULE GoldenModelProofs --------------------------
(***************************************************************************)
(* The queues of the software model are empty between two descriptors, for *)
(* all memory sizes, queue depths and scenarios.  The argument follows the *)
(* one descriptor the event loop works on: DrainInv says, for every place  *)
(* the loop can be at, which queue holds its handle, its words or its two  *)
(* instructions, and that the half which reads leaves exactly as many      *)
(* words in the mid FIFO as the half which writes will take.               *)
(*                                                                         *)
(* And the memories between two descriptors are those of the copies made   *)
(* one after the other: CopyInv says what the mid FIFO holds between the   *)
(* two halves, in terms of the memories before the first of them.          *)
(***************************************************************************)
EXTENDS GoldenModel, TLAPS

Bits == {"ENABLE", "IRQ_EN", "RESET", "ERROR", "EMPTY"}

Registers ==
  [BASEADDR : Nat, RINGLEN : Nat, HEAD : Nat, TAIL : Nat, CTRL : SUBSET Bits,
   STATUS : SUBSET Bits, IRQ_STATUS : SUBSET Bits, IRQ_CLEAR : SUBSET Bits]

Descriptors == [1 .. DESC_WORDS -> Nat]
Handles == [addr : Nat, len : {DESC_WORDS}]

Stored ==
  /\ rows \in Seq(RowValues)
  /\ sysmem \in [0 .. SMEM_WORDS - 1 -> Nat]
  /\ sram \in [0 .. BRAM_SIZE - 1 -> Nat]
  /\ regs \in Registers

FetchIdle == df_in = <<>> /\ df_out = <<>>
MoveIdle  == dm_axi = <<>> /\ dm_sram = <<>> /\ mid = <<>>

(* The handle waits, or the words of the descriptor do.                    *)
Fetching ==
  \/ df_out = <<>> /\ \E h \in Handles : df_in = <<h>>
  \/ df_in = <<>> /\ \E d \in Descriptors : df_out = <<d>>

(* Neither half has run; the one that reads has; both have.                *)
BothWait == dm_axi = <<AxiInstruction(desc)>> /\ dm_sram = <<SramInstruction(desc)>> /\ mid = <<>>

OneWaits ==
  /\ mid \in Seq(Nat) /\ Len(mid) = Beats(desc)
  /\ \/ ToSram(desc) /\ dm_axi = <<>> /\ dm_sram = <<SramInstruction(desc)>>
     \/ ~ToSram(desc) /\ dm_axi = <<AxiInstruction(desc)>> /\ dm_sram = <<>>

Moving == desc \in Descriptors /\ (BothWait \/ OneWaits \/ MoveIdle)

InPlace ==
  /\ pc \in {"setup", "loop", "fetch", "move", "done", "raised"}
  /\ pc \in {"setup", "loop"} => FetchIdle /\ MoveIdle
  /\ pc = "fetch" => Fetching /\ MoveIdle
  /\ pc = "move" => FetchIdle /\ Moving
  /\ pc \in {"fetch", "move"} => regs.RINGLEN > 0

DrainInv == Stored /\ InPlace
-----------------------------------------------------------------------------
(* Words that are read are numbers; words that are written leave numbers.  *)
LEMMA ReadsNat ==
  ASSUME NEW n \in Nat, NEW mem \in [0 .. n - 1 -> Nat], NEW first \in Nat, NEW k \in Nat,
         k = 0 \/ first + k <= n
  PROVE  /\ ReadWords(mem, first, k) \in Seq(Nat)
         /\ Len(ReadWords(mem, first, k)) = k
         /\ ReadWords(mem, first, k) \in [1 .. k -> Nat]
<1>1. ReadWords(mem, first, k) \in [1 .. k -> Nat]
  BY DEF ReadWords
<1>2. QED
  BY <1>1 DEF ReadWords

(* Words that are written leave numbers.                                   *)
LEMMA WritesNat ==
  ASSUME NEW n \in Nat, NEW mem \in [0 .. n - 1 -> Nat], NEW first \in Nat, NEW words \in Seq(Nat)
  PROVE  WriteWords(mem, first, words) \in [0 .. n - 1 -> Nat]
<1>1. \A a \in 0 .. n - 1 :
        a \in first .. first + Len(words) - 1 => words[a - first + 1] \in Nat
  BY SMT
<1>2. QED
  BY <1>1 DEF WriteWords

(* What the fields of a descriptor are.                                    *)
LEMMA Fields ==
  ASSUME NEW d \in Descriptors
  PROVE  /\ Src(d) \in Nat /\ Dst(d) \in Nat /\ Beats(d) \in Nat /\ ToSram(d) \in BOOLEAN
         /\ AxiInstruction(d).addr \in Nat /\ SramInstruction(d).addr \in Nat
         /\ AxiInstruction(d).len = Beats(d) /\ SramInstruction(d).len = Beats(d)
         /\ AxiInstruction(d).write = ~ToSram(d) /\ SramInstruction(d).write = ToSram(d)
<1>1. Src(d) \in Nat /\ Dst(d) \in Nat /\ Beats(d) \in Nat /\ ToSram(d) \in BOOLEAN
  BY GoldenAssumption DEF Descriptors, DESC_WORDS, Src, Dst, Beats, ToSram
<1>2. QED
  BY <1>1 DEF AxiInstruction, SramInstruction

(* Four words are a sequence of words.                                     *)
LEMMA DescriptorIsSeq ==
  ASSUME NEW d \in Descriptors
  PROVE  d \in Seq(Nat)
<1>1. d = [i \in 1 .. 4 |-> d[i]] /\ \A i \in 1 .. 4 : d[i] \in Nat
  BY DEF Descriptors, DESC_WORDS
<1>2. [i \in 1 .. 4 |-> d[i]] \in Seq(Nat)
  BY <1>1
<1>3. QED
  BY <1>1, <1>2

(* An index of a memory that follows from a byte address.                  *)
LEMMA WordIndex ==
  ASSUME NEW a \in Nat
  PROVE  a \div 4 \in Nat
BY SMT

-----------------------------------------------------------------------------
(* The model starts with nothing in the queues.                            *)
LEMMA DrainInit == Init => DrainInv
<1> SUFFICES ASSUME Init PROVE DrainInv
  OBVIOUS
<1>1. rows \in Seq(RowValues)
  BY ScenarioAssumption DEF Init
<1>2. regs \in Registers
  BY DEF Init, Csr!PowerUp, Registers
<1>3. sysmem \in [0 .. SMEM_WORDS - 1 -> Nat] /\ sram \in [0 .. BRAM_SIZE - 1 -> Nat]
  BY DEF Init
<1>4. InPlace
  BY DEF Init, InPlace, FetchIdle, MoveIdle
<1>5. QED
  BY <1>1, <1>2, <1>3, <1>4 DEF DrainInv, Stored

(* A raised exception keeps everything in place.                           *)
LEMMA RaiseStep ==
  ASSUME DrainInv, NEW where, Raise(where), rows' \in Seq(RowValues)
  PROVE  DrainInv'
BY DEF DrainInv, Stored, InPlace, Raise, memories, queues

(* The next row is a row.                                                  *)
LEMMA NextRow ==
  ASSUME Stored, rows # <<>>
  PROVE  Tail(rows) \in Seq(RowValues) /\ Head(rows) \in RowValues
BY DEF Stored

(* A register row, of a register that holds a number.                      *)
LEMMA RegisterWrite ==
  ASSUME NEW r \in Registers, NEW n \in Nat, NEW register \in {"BASEADDR", "RINGLEN", "TAIL"}
  PROVE  Csr!Write(r, register, n) \in Registers
BY DEF Csr!Write, Registers

(* Rows leave the queues empty.                                            *)
LEMMA SetupStep ==
  ASSUME DrainInv, Setup
  PROVE  DrainInv'
<1> USE DEF DrainInv
<1>0. pc = "setup" /\ FetchIdle /\ MoveIdle
  BY DEF Setup, RowSmem, RowSram, RowCsr, RowDesc, RowEnable, RowUnknown, EndOfRows, Row, InPlace
<1>1. CASE RowSmem
  <2>1. rows' \in Seq(RowValues) /\ Head(rows).index \in Nat /\ Head(rows).data \in Nat
    BY <1>1, NextRow, ScenarioAssumption DEF RowSmem, Row
  <2>2. CASE Head(rows).index >= SMEM_WORDS
    BY <1>1, <2>1, <2>2, RaiseStep DEF RowSmem
  <2>3. CASE ~(Head(rows).index >= SMEM_WORDS)
    BY <1>1, <2>1, <2>3, <1>0, GoldenAssumption
       DEF RowSmem, Stored, InPlace, queues, FetchIdle, MoveIdle
  <2>4. QED
    BY <2>2, <2>3
<1>2. CASE RowSram
  <2>1. rows' \in Seq(RowValues) /\ Head(rows).index \in Nat /\ Head(rows).data \in Nat
    BY <1>2, NextRow, ScenarioAssumption DEF RowSram, Row
  <2>2. CASE Head(rows).index >= BRAM_SIZE
    BY <1>2, <2>1, <2>2, RaiseStep DEF RowSram
  <2>3. CASE ~(Head(rows).index >= BRAM_SIZE)
    BY <1>2, <2>1, <2>3, <1>0, GoldenAssumption
       DEF RowSram, Stored, InPlace, queues, FetchIdle, MoveIdle
  <2>4. QED
    BY <2>2, <2>3
<1>3. ASSUME NEW op \in {"csr_baseaddr", "csr_ringlen"}, NEW register \in {"BASEADDR", "RINGLEN"},
             RowCsr(op, register)
      PROVE  DrainInv'
  <2>1. rows' \in Seq(RowValues) /\ Head(rows).data \in Nat
    BY <1>3, NextRow, ScenarioAssumption DEF RowCsr, Row
  <2>2. regs' \in Registers
    BY <1>3, <2>1, RegisterWrite DEF RowCsr, Stored
  <2>3. QED
    BY <1>3, <2>1, <2>2, <1>0 DEF RowCsr, Stored, InPlace, queues, FetchIdle, MoveIdle
<1>4. CASE RowDesc
  <2> DEFINE d == Head(rows).desc
             slot == SlotAddress(regs.TAIL)
  <2>1. rows' \in Seq(RowValues) /\ d \in [1 .. DESC_WORDS -> Nat]
    BY <1>4, NextRow, ScenarioAssumption DEF RowDesc, Row
  <2>2. CASE EnqueueFails(slot)
    BY <1>4, <2>1, <2>2, RaiseStep DEF RowDesc
  <2>3. CASE ~EnqueueFails(slot)
    <3>1. Enqueue(slot, d)
      BY <1>4, <2>3 DEF RowDesc
    <3>2. regs.RINGLEN \in Nat \ {0} /\ regs.BASEADDR \in Nat /\ regs.TAIL \in Nat
      BY <2>3 DEF EnqueueFails, Stored, Registers
    <3>3. slot \in Nat /\ (regs.TAIL + 1) % regs.RINGLEN \in Nat
      BY <3>2 DEF SlotAddress, DESCRIPTOR_SIZE_BYTES
    <3>4. regs' \in Registers
      BY <3>1, <3>3, RegisterWrite DEF Enqueue, Stored
    <3>5. d \in Seq(Nat)
      BY <2>1, DescriptorIsSeq DEF Descriptors
    <3>6. sysmem' \in [0 .. SMEM_WORDS - 1 -> Nat]
      BY <3>1, <3>3, <3>5, WordIndex, WritesNat, GoldenAssumption DEF Enqueue, Stored
    <3>7. QED
      BY <1>4, <2>1, <2>3, <3>4, <3>6, <1>0
         DEF RowDesc, Stored, InPlace, queues, FetchIdle, MoveIdle
  <2>4. QED
    BY <2>2, <2>3
<1>5. CASE RowEnable
  <2>1. rows' \in Seq(RowValues)
    BY <1>5, NextRow DEF RowEnable, Row
  <2>2. regs' \in Registers
    BY <1>5 DEF RowEnable, Csr!Write, Stored, Registers, Bits
  <2>3. QED
    BY <1>5, <2>1, <2>2, <1>0 DEF RowEnable, Stored, InPlace, queues, FetchIdle, MoveIdle
<1>6. CASE RowUnknown
  BY <1>6, NextRow, RaiseStep DEF RowUnknown
<1>7. CASE EndOfRows
  BY <1>7, <1>0 DEF EndOfRows, Stored, InPlace, memories, queues, FetchIdle, MoveIdle
<1>8. QED
  BY <1>1, <1>2, <1>3, <1>4, <1>5, <1>6, <1>7 DEF Setup

(* The loop hands over one handle.                                         *)
LEMMA IterateStep ==
  ASSUME DrainInv, Iterate
  PROVE  DrainInv'
<1> USE DEF DrainInv
<1>1. rows' \in Seq(RowValues) /\ FetchIdle /\ MoveIdle
  BY DEF Iterate, Stored, InPlace
<1>2. CASE iters = MAX_ITERS
  BY <1>1, <1>2, RaiseStep DEF Iterate
<1>3. CASE iters # MAX_ITERS /\ regs.HEAD = regs.TAIL
  BY <1>1, <1>3 DEF Iterate, Stored, InPlace, memories, queues
<1>4. CASE iters # MAX_ITERS /\ regs.HEAD # regs.TAIL /\ (regs.RINGLEN = 0 \/ Overflows(df_in, FIFO_DEPTH))
  BY <1>1, <1>4, RaiseStep DEF Iterate
<1>5. CASE iters # MAX_ITERS /\ regs.HEAD # regs.TAIL /\ regs.RINGLEN # 0 /\ ~Overflows(df_in, FIFO_DEPTH)
  <2>1. submit_handle(SlotAddress(regs.HEAD)) /\ pc' = "fetch"
        /\ UNCHANGED <<memories, df_out, dm_axi, dm_sram, mid>>
    BY <1>5 DEF Iterate
  <2>2. regs.RINGLEN \in Nat \ {0} /\ regs.BASEADDR \in Nat /\ regs.HEAD \in Nat
    BY <1>5 DEF Stored, Registers
  <2>3. SlotAddress(regs.HEAD) \in Nat
    BY <2>2 DEF SlotAddress, DESCRIPTOR_SIZE_BYTES
  <2>4. df_in' = <<[addr |-> SlotAddress(regs.HEAD), len |-> DESC_WORDS]>>
    BY <1>1, <2>1 DEF submit_handle, FetchIdle
  <2>5. Fetching' /\ MoveIdle'
    BY <1>1, <2>1, <2>3, <2>4 DEF Fetching, FetchIdle, MoveIdle, Handles
  <2>6. QED
    BY <1>1, <2>1, <2>2, <2>5 DEF Stored, InPlace, memories
<1>6. QED
  BY <1>2, <1>3, <1>4, <1>5

(* The handle becomes the words of a descriptor.                           *)
LEMMA FetchStep ==
  ASSUME DrainInv, DescriptorFetch
  PROVE  DrainInv'
<1> USE DEF DrainInv
<1>1. rows' \in Seq(RowValues) /\ pc = "fetch" /\ MoveIdle /\ regs.RINGLEN > 0
  BY DEF DescriptorFetch, Stored, InPlace
<1>2. PICK h \in Handles : df_in = <<h>>
  BY <1>1 DEF DescriptorFetch, InPlace, Fetching
<1>3. CASE AxiFault(h.addr, h.len)
  BY <1>1, <1>2, <1>3, RaiseStep DEF DescriptorFetch
<1>4. CASE ~AxiFault(h.addr, h.len)
  <2>1. /\ df_in' = <<>> /\ df_out' = <<ReadWords(sysmem, h.addr \div 4, h.len)>>
        /\ UNCHANGED <<memories, dm_axi, dm_sram, mid, pc>>
    BY <1>2, <1>4 DEF DescriptorFetch
  <2>2. h.addr \div 4 \in Nat /\ h.len = DESC_WORDS /\ h.addr \div 4 + DESC_WORDS <= SMEM_WORDS
    BY <1>4, WordIndex, GoldenAssumption DEF AxiFault, Handles, DESC_WORDS
  <2>3. ReadWords(sysmem, h.addr \div 4, DESC_WORDS) \in Descriptors
    BY <2>2, ReadsNat, GoldenAssumption DEF Stored, Descriptors, DESC_WORDS
  <2>4. Fetching' /\ MoveIdle'
    BY <1>1, <2>1, <2>2, <2>3 DEF Fetching, MoveIdle
  <2>5. QED
    BY <1>1, <2>1, <2>4 DEF Stored, InPlace, memories
<1>5. QED
  BY <1>3, <1>4

(* The descriptor becomes two instructions.                                *)
LEMMA DecodeStep ==
  ASSUME DrainInv, Decode
  PROVE  DrainInv'
<1> USE DEF DrainInv
<1>1. rows' \in Seq(RowValues) /\ pc = "fetch" /\ MoveIdle /\ df_in = <<>> /\ regs.RINGLEN > 0
  BY DEF Decode, Stored, InPlace, Fetching
<1>2. PICK d \in Descriptors : df_out = <<d>>
  BY <1>1 DEF Decode, InPlace, Fetching
<1>3. CASE Overflows(dm_axi, DM_DEPTH) \/ Overflows(dm_sram, DM_DEPTH)
  BY <1>1, <1>3, RaiseStep DEF Decode
<1>4. CASE ~(Overflows(dm_axi, DM_DEPTH) \/ Overflows(dm_sram, DM_DEPTH))
  <2>1. /\ df_out' = <<>> /\ desc' = d /\ pc' = "move"
        /\ dm_axi' = <<AxiInstruction(d)>> /\ dm_sram' = <<SramInstruction(d)>>
        /\ UNCHANGED <<memories, df_in, mid>>
    BY <1>1, <1>2, <1>4 DEF Decode, MoveIdle
  <2>2. FetchIdle' /\ Moving'
    BY <1>1, <2>1 DEF FetchIdle, MoveIdle, Moving, BothWait, AxiInstruction, SramInstruction
  <2>3. QED
    BY <1>1, <2>1, <2>2 DEF Stored, InPlace, memories
<1>5. QED
  BY <1>3, <1>4

(* Both halves are done: nothing is left.                                  *)
LEMMA CompleteStep ==
  ASSUME DrainInv, Complete
  PROVE  DrainInv'
<1> USE DEF DrainInv
<1>1. rows' \in Seq(RowValues) /\ FetchIdle /\ Moving /\ regs \in Registers /\ regs.RINGLEN > 0
  BY DEF Complete, Stored, InPlace
<1>2. CASE regs.HEAD = regs.TAIL
  BY <1>1, <1>2, RaiseStep DEF Complete
<1>3. CASE regs.HEAD # regs.TAIL
  <2>1. NextHead \in Nat
    BY <1>1 DEF NextHead, Registers
  <2>2. regs' \in Registers
    BY <1>1, <1>3, <2>1 DEF Complete, Csr!hw_set_head, Registers
  <2>3. MoveIdle
    BY <1>1 DEF Complete, Moving, BothWait, OneWaits, MoveIdle
  <2>4. QED
    BY <1>1, <1>3, <2>2, <2>3 DEF Complete, Stored, InPlace, queues, FetchIdle, MoveIdle
<1>4. QED
  BY <1>2, <1>3

-----------------------------------------------------------------------------
(* The two halves of a move: the one that reads leaves all its words in    *)
(* the mid FIFO, the one that writes takes what it finds there.            *)
Kept == <<regs, df_in, df_out, stim, initial, desc, descs_fetched, copied, posted, iters, pc, error>>

AxiReads ==
  /\ BothWait /\ ToSram(desc) /\ dm_axi' = <<>>
  /\ mid' = ReadWords(sysmem, Src(desc) \div 4, Beats(desc))
  /\ mid' \in Seq(Nat) /\ Len(mid') = Beats(desc) /\ Beats(desc) <= MID_DEPTH
  /\ UNCHANGED <<sysmem, sram, dm_sram, Kept>>

AxiWrites ==
  /\ OneWaits /\ ~ToSram(desc) /\ dm_axi' = <<>> /\ dm_sram = <<>> /\ mid' = <<>>
  /\ sysmem' = WriteWords(sysmem, Dst(desc) \div 4, mid)
  /\ UNCHANGED <<sram, dm_sram, Kept>>

SramReads ==
  /\ BothWait /\ ~ToSram(desc) /\ dm_sram' = <<>>
  /\ mid' = ReadWords(sram, Src(desc) \div 4, Beats(desc))
  /\ mid' \in Seq(Nat) /\ Len(mid') = Beats(desc) /\ Beats(desc) <= MID_DEPTH
  /\ UNCHANGED <<sysmem, sram, dm_axi, Kept>>

SramWrites ==
  /\ OneWaits /\ ToSram(desc) /\ dm_sram' = <<>> /\ dm_axi = <<>> /\ mid' = <<>>
  /\ sram' = WriteWords(sram, Dst(desc) \div 4, mid)
  /\ UNCHANGED <<sysmem, dm_axi, Kept>>

(* The half on system memory raises, reads (the data goes to SRAM) or      *)
(* writes.                                                                 *)
LEMMA AxiEdge ==
  ASSUME DrainInv, AxiMove
  PROVE  /\ rows' \in Seq(RowValues) /\ pc = "move" /\ FetchIdle /\ regs.RINGLEN > 0 /\ desc \in Descriptors
         /\ \/ \E where : Raise(where)
            \/ AxiReads
            \/ AxiWrites
<1> USE DEF DrainInv
<1> DEFINE i == AxiInstruction(desc)
           first == i.addr \div 4
<1>1. rows' \in Seq(RowValues) /\ pc = "move" /\ FetchIdle /\ Moving /\ regs.RINGLEN > 0
  BY DEF AxiMove, Stored, InPlace
<1>2. /\ dm_axi = <<i>> /\ first \in Nat /\ i.len = Beats(desc) /\ Beats(desc) \in Nat
      /\ mid \in Seq(Nat) /\ desc \in Descriptors
  <2>1. desc \in Descriptors /\ (BothWait \/ OneWaits \/ MoveIdle) /\ dm_axi # <<>>
    BY <1>1 DEF AxiMove, AxiTurn, Moving
  <2>2. dm_axi = <<i>>
    BY <2>1 DEF BothWait, OneWaits, MoveIdle
  <2>3. mid \in Seq(Nat)
    <3>1. <<>> \in Seq(Nat)
      OBVIOUS
    <3>2. mid = <<>> \/ OneWaits
      BY <2>1 DEF BothWait, MoveIdle
    <3>3. QED
      BY <3>1, <3>2 DEF OneWaits
  <2>4. QED
    BY <2>1, <2>2, <2>3, Fields, WordIndex
<1>3. CASE i.len > 0 /\ (AxiFault(i.addr, i.len) \/ MidRefuses(i))
  <2>1. \E where : Raise(where)
    BY <1>2, <1>3 DEF AxiMove
  <2>2. QED
    BY <1>1, <1>2, <2>1
<1>4. CASE ~(i.len > 0 /\ (AxiFault(i.addr, i.len) \/ MidRefuses(i)))
  <2>1. /\ dm_axi' = <<>>
        /\ sysmem' = IF i.write THEN WriteWords(sysmem, first, SubSeq(mid, 1, i.len)) ELSE sysmem
        /\ mid' = IF i.write THEN SubSeq(mid, i.len + 1, Len(mid)) ELSE mid \o ReadWords(sysmem, first, i.len)
        /\ UNCHANGED <<sram, regs, df_in, df_out, dm_sram, results, iters, pc, error>>
    <3>1. Head(dm_axi) = i /\ Tail(dm_axi) = <<>>
      BY <1>2
    <3>2. QED
      BY <3>1, <1>4 DEF AxiMove
  <2>2. i.len = 0 \/ first + i.len <= SMEM_WORDS
    BY <1>2, <1>4, GoldenAssumption DEF AxiFault
  <2>3. CASE i.write
    <3>1. ~ToSram(desc) /\ first = Dst(desc) \div 4
      BY <1>2, <2>3, Fields DEF AxiInstruction
    <3>2. dm_sram = <<>>
      BY <3>1 DEF AxiMove, AxiTurn
    <3>3. OneWaits
      BY <1>1, <1>2, <3>2 DEF Moving, BothWait, MoveIdle
    <3>4. Len(mid) = i.len
      BY <1>2, <3>3 DEF OneWaits
    <3>5. SubSeq(mid, 1, i.len) = mid /\ mid' = <<>>
      BY <1>2, <2>1, <2>3, <3>4
    <3>6. sysmem' = WriteWords(sysmem, Dst(desc) \div 4, mid)
      BY <2>1, <2>3, <3>1, <3>5
    <3>7. AxiWrites
      <4> HIDE DEF i, first
      <4>1. QED
        BY <2>1, <3>1, <3>2, <3>3, <3>5, <3>6 DEF AxiWrites, Kept, results, fetched
    <3>8. QED
      BY <1>1, <1>2, <3>7
  <2>4. CASE ~i.write
    <3>1. BothWait /\ ToSram(desc) /\ first = Src(desc) \div 4
      BY <1>1, <1>2, <2>4, Fields DEF AxiMove, AxiTurn, Moving, BothWait, OneWaits, MoveIdle, AxiInstruction
    <3>2. ReadWords(sysmem, first, i.len) \in Seq(Nat) /\ Len(ReadWords(sysmem, first, i.len)) = i.len
      <4>1. SMEM_WORDS \in Nat /\ sysmem \in [0 .. SMEM_WORDS - 1 -> Nat] /\ first \in Nat /\ i.len \in Nat
        BY <1>2, GoldenAssumption DEF Stored
      <4> HIDE DEF i, first
      <4>2. QED
        BY <2>2, <4>1, ReadsNat
    <3>3. mid' = ReadWords(sysmem, Src(desc) \div 4, Beats(desc))
      <4>1. mid' = <<>> \o ReadWords(sysmem, first, i.len)
        BY <2>1, <2>4, <3>1 DEF BothWait
      <4> HIDE DEF i, first
      <4>2. mid' = ReadWords(sysmem, first, i.len)
        BY <4>1, <3>2
      <4>3. QED
        BY <1>2, <3>1, <4>2
    <3>4. mid' \in Seq(Nat) /\ Len(mid') = Beats(desc)
      BY <1>2, <3>1, <3>2, <3>3
    <3>5. Beats(desc) <= MID_DEPTH
      <4>1. Len(mid) = 0 /\ MID_DEPTH \in Nat
        BY <3>1, GoldenAssumption DEF BothWait
      <4>2. i.len = 0 \/ ~(MID_DEPTH - Len(mid) < i.len)
        BY <1>2, <1>4, <2>4 DEF MidRefuses
      <4> HIDE DEF i, first
      <4>3. QED
        BY <1>2, <4>1, <4>2
    <3>6. AxiReads
      <4> HIDE DEF i, first
      <4>1. sysmem' = sysmem /\ dm_axi' = <<>>
        BY <2>1, <2>4
      <4>2. QED
        BY <2>1, <3>1, <3>3, <3>4, <3>5, <4>1 DEF AxiReads, Kept, results, fetched
    <3>7. QED
      BY <1>1, <1>2, <3>6
  <2>5. QED
    BY <2>3, <2>4
<1>5. QED
  BY <1>3, <1>4

(* Either way the queues are in place.                                     *)
LEMMA AxiStep ==
  ASSUME DrainInv, AxiMove
  PROVE  DrainInv'
<1> USE DEF DrainInv
<1>1. /\ rows' \in Seq(RowValues) /\ pc = "move" /\ FetchIdle /\ regs.RINGLEN > 0 /\ desc \in Descriptors
      /\ (\E where : Raise(where)) \/ AxiReads \/ AxiWrites
  BY AxiEdge
<1>2. CASE \E where : Raise(where)
  BY <1>1, <1>2, RaiseStep
<1>3. CASE AxiWrites
  <2>1. mid \in Seq(Nat) /\ Dst(desc) \div 4 \in Nat
    BY <1>1, <1>3, Fields, WordIndex DEF AxiWrites, OneWaits
  <2>2. sysmem' \in [0 .. SMEM_WORDS - 1 -> Nat]
    BY <1>3, <2>1, WritesNat, GoldenAssumption DEF AxiWrites, Kept, Stored
  <2>3. MoveIdle'
    BY <1>3 DEF AxiWrites, Kept, MoveIdle
  <2>4. QED
    BY <1>1, <1>3, <2>2, <2>3 DEF AxiWrites, Kept, Stored, InPlace, FetchIdle, Moving
<1>4. CASE AxiReads
  <2>1. OneWaits'
    BY <1>4 DEF AxiReads, Kept, OneWaits, BothWait, Beats, ToSram, AxiInstruction, SramInstruction, Src, Dst
  <2>2. QED
    BY <1>1, <1>4, <2>1 DEF AxiReads, Kept, Stored, InPlace, FetchIdle, Moving
<1>5. QED
  BY <1>1, <1>2, <1>3, <1>4

(* The half on SRAM, the other way round.                                  *)
LEMMA SramEdge ==
  ASSUME DrainInv, SramMove
  PROVE  /\ rows' \in Seq(RowValues) /\ pc = "move" /\ FetchIdle /\ regs.RINGLEN > 0 /\ desc \in Descriptors
         /\ \/ \E where : Raise(where)
            \/ SramReads
            \/ SramWrites
<1> USE DEF DrainInv
<1> DEFINE i == SramInstruction(desc)
           first == i.addr \div 4
<1>1. rows' \in Seq(RowValues) /\ pc = "move" /\ FetchIdle /\ Moving /\ regs.RINGLEN > 0
  BY DEF SramMove, Stored, InPlace
<1>2. /\ dm_sram = <<i>> /\ first \in Nat /\ i.len = Beats(desc) /\ Beats(desc) \in Nat
      /\ mid \in Seq(Nat) /\ desc \in Descriptors
  <2>1. desc \in Descriptors /\ (BothWait \/ OneWaits \/ MoveIdle) /\ dm_sram # <<>>
    BY <1>1 DEF SramMove, SramTurn, Moving
  <2>2. dm_sram = <<i>>
    BY <2>1 DEF BothWait, OneWaits, MoveIdle
  <2>3. mid \in Seq(Nat)
    <3>1. <<>> \in Seq(Nat)
      OBVIOUS
    <3>2. mid = <<>> \/ OneWaits
      BY <2>1 DEF BothWait, MoveIdle
    <3>3. QED
      BY <3>1, <3>2 DEF OneWaits
  <2>4. QED
    BY <2>1, <2>2, <2>3, Fields, WordIndex
<1>3. CASE i.len > 0 /\ (first + i.len > BRAM_SIZE \/ MidRefuses(i))
  <2>1. \E where : Raise(where)
    BY <1>2, <1>3 DEF SramMove
  <2>2. QED
    BY <1>1, <1>2, <2>1
<1>4. CASE ~(i.len > 0 /\ (first + i.len > BRAM_SIZE \/ MidRefuses(i)))
  <2>1. /\ dm_sram' = <<>>
        /\ sram' = IF i.write THEN WriteWords(sram, first, SubSeq(mid, 1, i.len)) ELSE sram
        /\ mid' = IF i.write THEN SubSeq(mid, i.len + 1, Len(mid)) ELSE mid \o ReadWords(sram, first, i.len)
        /\ UNCHANGED <<sysmem, regs, df_in, df_out, dm_axi, results, iters, pc, error>>
    <3>1. Head(dm_sram) = i /\ Tail(dm_sram) = <<>>
      BY <1>2
    <3>2. QED
      BY <3>1, <1>4 DEF SramMove
  <2>2. i.len = 0 \/ first + i.len <= BRAM_SIZE
    BY <1>2, <1>4, GoldenAssumption DEF AxiFault
  <2>3. CASE i.write
    <3>1. ToSram(desc) /\ first = Dst(desc) \div 4
      BY <1>2, <2>3, Fields DEF SramInstruction
    <3>2. dm_axi = <<>>
      BY <3>1 DEF SramMove, SramTurn
    <3>3. OneWaits
      BY <1>1, <1>2, <3>2 DEF Moving, BothWait, MoveIdle
    <3>4. Len(mid) = i.len
      BY <1>2, <3>3 DEF OneWaits
    <3>5. SubSeq(mid, 1, i.len) = mid /\ mid' = <<>>
      BY <1>2, <2>1, <2>3, <3>4
    <3>6. sram' = WriteWords(sram, Dst(desc) \div 4, mid)
      BY <2>1, <2>3, <3>1, <3>5
    <3>7. SramWrites
      <4> HIDE DEF i, first
      <4>1. QED
        BY <2>1, <3>1, <3>2, <3>3, <3>5, <3>6 DEF SramWrites, Kept, results, fetched
    <3>8. QED
      BY <1>1, <1>2, <3>7
  <2>4. CASE ~i.write
    <3>1. BothWait /\ ~ToSram(desc) /\ first = Src(desc) \div 4
      BY <1>1, <1>2, <2>4, Fields DEF SramMove, SramTurn, Moving, BothWait, OneWaits, MoveIdle, SramInstruction
    <3>2. ReadWords(sram, first, i.len) \in Seq(Nat) /\ Len(ReadWords(sram, first, i.len)) = i.len
      <4>1. BRAM_SIZE \in Nat /\ sram \in [0 .. BRAM_SIZE - 1 -> Nat] /\ first \in Nat /\ i.len \in Nat
        BY <1>2, GoldenAssumption DEF Stored
      <4> HIDE DEF i, first
      <4>2. QED
        BY <2>2, <4>1, ReadsNat
    <3>3. mid' = ReadWords(sram, Src(desc) \div 4, Beats(desc))
      <4>1. mid' = <<>> \o ReadWords(sram, first, i.len)
        BY <2>1, <2>4, <3>1 DEF BothWait
      <4> HIDE DEF i, first
      <4>2. mid' = ReadWords(sram, first, i.len)
        BY <4>1, <3>2
      <4>3. QED
        BY <1>2, <3>1, <4>2
    <3>4. mid' \in Seq(Nat) /\ Len(mid') = Beats(desc)
      BY <1>2, <3>1, <3>2, <3>3
    <3>5. Beats(desc) <= MID_DEPTH
      <4>1. Len(mid) = 0 /\ MID_DEPTH \in Nat
        BY <3>1, GoldenAssumption DEF BothWait
      <4>2. i.len = 0 \/ ~(MID_DEPTH - Len(mid) < i.len)
        BY <1>2, <1>4, <2>4 DEF MidRefuses
      <4> HIDE DEF i, first
      <4>3. QED
        BY <1>2, <4>1, <4>2
    <3>6. SramReads
      <4> HIDE DEF i, first
      <4>1. sram' = sram /\ dm_sram' = <<>>
        BY <2>1, <2>4
      <4>2. QED
        BY <2>1, <3>1, <3>3, <3>4, <3>5, <4>1 DEF SramReads, Kept, results, fetched
    <3>7. QED
      BY <1>1, <1>2, <3>6
  <2>5. QED
    BY <2>3, <2>4
<1>5. QED
  BY <1>3, <1>4

(* Either way the queues are in place.                                     *)
LEMMA SramStep ==
  ASSUME DrainInv, SramMove
  PROVE  DrainInv'
<1> USE DEF DrainInv
<1>1. /\ rows' \in Seq(RowValues) /\ pc = "move" /\ FetchIdle /\ regs.RINGLEN > 0 /\ desc \in Descriptors
      /\ (\E where : Raise(where)) \/ SramReads \/ SramWrites
  BY SramEdge
<1>2. CASE \E where : Raise(where)
  BY <1>1, <1>2, RaiseStep
<1>3. CASE SramWrites
  <2>1. mid \in Seq(Nat) /\ Dst(desc) \div 4 \in Nat
    BY <1>1, <1>3, Fields, WordIndex DEF SramWrites, OneWaits
  <2>2. sram' \in [0 .. BRAM_SIZE - 1 -> Nat]
    BY <1>3, <2>1, WritesNat, GoldenAssumption DEF SramWrites, Kept, Stored
  <2>3. MoveIdle'
    BY <1>3 DEF SramWrites, Kept, MoveIdle
  <2>4. QED
    BY <1>1, <1>3, <2>2, <2>3 DEF SramWrites, Kept, Stored, InPlace, FetchIdle, Moving
<1>4. CASE SramReads
  <2>1. OneWaits'
    BY <1>4 DEF SramReads, Kept, OneWaits, BothWait, Beats, ToSram, AxiInstruction, SramInstruction, Src, Dst
  <2>2. QED
    BY <1>1, <1>4, <2>1 DEF SramReads, Kept, Stored, InPlace, FetchIdle, Moving
<1>5. QED
  BY <1>1, <1>2, <1>3, <1>4

(* Every step keeps the queues in place.                                   *)
LEMMA DrainStep == DrainInv /\ [Next]_goldenVars => DrainInv'
<1> SUFFICES ASSUME DrainInv, [Next]_goldenVars PROVE DrainInv'
  OBVIOUS
<1>1. CASE Setup
  BY <1>1, SetupStep
<1>2. CASE EventLoop
  BY <1>2, IterateStep, FetchStep, DecodeStep, AxiStep, SramStep, CompleteStep DEF EventLoop
<1>3. CASE UNCHANGED goldenVars
  BY <1>3 DEF goldenVars, memories, queues, results, fetched, DrainInv, Stored, InPlace, FetchIdle,
              MoveIdle, Fetching, Moving, BothWait, OneWaits
<1>4. QED
  BY <1>1, <1>2, <1>3 DEF Next, Finished

(* Between two descriptors every queue of the software model is empty, for *)
(* every scenario, all memory sizes and all queue depths: the two halves   *)
(* of a transfer always agree on the number of words, so the mid FIFO      *)
(* never hands a word of one descriptor to the next.                       *)
THEOREM QueuesAreDrained == Spec => []QueuesDrained
<1>1. DrainInv => QueuesDrained
  BY DEF DrainInv, InPlace, FetchIdle, MoveIdle, QueuesDrained
<1>2. QED
  BY <1>1, DrainInit, DrainStep, PTL DEF Spec
-----------------------------------------------------------------------------
(* What the memories hold against what they should hold: between two       *)
(* descriptors the same; while one is moved, the words in the mid FIFO are *)
(* its source, still as they were when it was decoded; when both halves    *)
(* are done, the copy it asks for.                                         *)
SourceWords == ReadWords(IF ToSram(desc) THEN sysmem ELSE sram, Src(desc) \div 4, Beats(desc))

CopyInv ==
  /\ pc \in {"loop", "fetch", "done"} => Memories = copied
  /\ pc = "move" =>
       /\ dm_axi # <<>> \/ dm_sram # <<>> => Memories = copied
       /\ dm_axi = <<>> /\ dm_sram # <<>> => mid = SourceWords
       /\ dm_axi # <<>> /\ dm_sram = <<>> => mid = SourceWords
       /\ dm_axi = <<>> /\ dm_sram = <<>> => Memories = Copy(copied, desc)

(* A copy of the descriptor, when the words to write are its source.       *)
LEMMA CopyIs ==
  ASSUME desc \in Descriptors
  PROVE  Copy(Memories, desc) =
           IF ToSram(desc) THEN [smem |-> sysmem, sram |-> WriteWords(sram, Dst(desc) \div 4, SourceWords)]
           ELSE [smem |-> WriteWords(sysmem, Dst(desc) \div 4, SourceWords), sram |-> sram]
<1>1. CASE ToSram(desc)
  BY <1>1 DEF Copy, Memories, SourceWords
<1>2. CASE ~ToSram(desc)
  BY <1>2 DEF Copy, Memories, SourceWords
<1>3. QED
  BY <1>1, <1>2

(* The write half copies; the read half leaves the source in the mid FIFO. *)
LEMMA AxiCopies ==
  ASSUME DrainInv, CopyInv, AxiMove
  PROVE  CopyInv'
<1>1. /\ pc = "move" /\ desc \in Descriptors
      /\ (\E where : Raise(where)) \/ AxiReads \/ AxiWrites
  BY AxiEdge
<1>2. CASE \E where : Raise(where)
  BY <1>2 DEF Raise, CopyInv
<1>3. CASE AxiWrites
  <2>1. dm_axi # <<>> /\ dm_sram = <<>> /\ ~ToSram(desc)
    <3>1. dm_axi = <<AxiInstruction(desc)>> /\ dm_sram = <<>> /\ ~ToSram(desc)
      BY <1>3, Zenon DEF AxiWrites, OneWaits
    <3>2. QED
      BY <3>1
  <2>2. Memories = copied /\ mid = SourceWords
    BY <1>1, <2>1 DEF CopyInv
  <2>3. Memories' = Copy(copied, desc)
    <3>1. Memories' = [smem |-> WriteWords(sysmem, Dst(desc) \div 4, SourceWords), sram |-> sram]
      BY <1>3, <2>2 DEF AxiWrites, Memories
    <3>2. QED
      BY <1>1, <2>1, <2>2, <3>1, CopyIs
  <2>4. pc' = "move" /\ dm_axi' = <<>> /\ dm_sram' = <<>> /\ copied' = copied /\ desc' = desc
    BY <1>1, <1>3 DEF AxiWrites, Kept
  <2>5. QED
    BY <2>3, <2>4 DEF CopyInv
<1>4. CASE AxiReads
  <2>1. dm_axi # <<>> /\ dm_sram # <<>> /\ ToSram(desc)
    BY <1>4 DEF AxiReads, BothWait
  <2>2. Memories = copied /\ mid' = SourceWords
    BY <1>1, <1>4, <2>1 DEF CopyInv, AxiReads, SourceWords
  <2>3. /\ pc' = "move" /\ dm_axi' = <<>> /\ dm_sram' # <<>> /\ copied' = copied
        /\ desc' = desc /\ sysmem' = sysmem /\ sram' = sram
    BY <1>1, <1>4, <2>1 DEF AxiReads, Kept
  <2>4. Memories' = Memories /\ SourceWords' = SourceWords
    BY <2>3 DEF Memories, SourceWords
  <2>5. QED
    BY <2>2, <2>3, <2>4 DEF CopyInv
<1>5. QED
  BY <1>1, <1>2, <1>3, <1>4

(* The same for the half on SRAM.                                          *)
LEMMA SramCopies ==
  ASSUME DrainInv, CopyInv, SramMove
  PROVE  CopyInv'
<1>1. /\ pc = "move" /\ desc \in Descriptors
      /\ (\E where : Raise(where)) \/ SramReads \/ SramWrites
  BY SramEdge
<1>2. CASE \E where : Raise(where)
  BY <1>2 DEF Raise, CopyInv
<1>3. CASE SramWrites
  <2>1. dm_sram # <<>> /\ dm_axi = <<>> /\ ToSram(desc)
    <3>1. dm_sram = <<SramInstruction(desc)>> /\ dm_axi = <<>> /\ ToSram(desc)
      BY <1>3, Zenon DEF SramWrites, OneWaits
    <3>2. QED
      BY <3>1
  <2>2. Memories = copied /\ mid = SourceWords
    BY <1>1, <2>1 DEF CopyInv
  <2>3. Memories' = Copy(copied, desc)
    <3>1. Memories' = [smem |-> sysmem, sram |-> WriteWords(sram, Dst(desc) \div 4, SourceWords)]
      BY <1>3, <2>2 DEF SramWrites, Memories
    <3>2. QED
      BY <1>1, <2>1, <2>2, <3>1, CopyIs
  <2>4. pc' = "move" /\ dm_axi' = <<>> /\ dm_sram' = <<>> /\ copied' = copied /\ desc' = desc
    BY <1>1, <1>3 DEF SramWrites, Kept
  <2>5. QED
    BY <2>3, <2>4 DEF CopyInv
<1>4. CASE SramReads
  <2>1. dm_axi # <<>> /\ dm_sram # <<>> /\ ~ToSram(desc)
    BY <1>4 DEF SramReads, BothWait
  <2>2. Memories = copied /\ mid' = SourceWords
    BY <1>1, <1>4, <2>1 DEF CopyInv, SramReads, SourceWords
  <2>3. /\ pc' = "move" /\ dm_sram' = <<>> /\ dm_axi' # <<>> /\ copied' = copied
        /\ desc' = desc /\ sysmem' = sysmem /\ sram' = sram
    BY <1>1, <1>4, <2>1 DEF SramReads, Kept
  <2>4. Memories' = Memories /\ SourceWords' = SourceWords
    BY <2>3 DEF Memories, SourceWords
  <2>5. QED
    BY <2>2, <2>3, <2>4 DEF CopyInv
<1>5. QED
  BY <1>1, <1>2, <1>3, <1>4

(* Every step keeps the copy exact.                                        *)
LEMMA CopyStep == DrainInv /\ CopyInv /\ [Next]_goldenVars => CopyInv'
<1> SUFFICES ASSUME DrainInv, CopyInv, [Next]_goldenVars PROVE CopyInv'
  OBVIOUS
<1>1. CASE Setup
  <2>1. CASE EndOfRows
    <3>1. Memories' = copied' /\ pc' \in {"loop", "done"}
      BY <2>1 DEF EndOfRows, Memories, memories
    <3>2. QED
      BY <3>1 DEF CopyInv
  <2>2. CASE ~EndOfRows
    <3>1. pc' \in {"setup", "raised"}
      BY <1>1, <2>2 DEF Setup, RowSmem, RowSram, RowCsr, RowDesc, RowEnable, RowUnknown, Row, Raise
    <3>2. QED
      BY <3>1 DEF CopyInv
  <2>3. QED
    BY <2>1, <2>2
<1>2. CASE Iterate
  <2>1. pc = "loop" /\ pc' \in {"raised", "done", "fetch"} /\ UNCHANGED <<sysmem, sram, copied>>
    BY <1>2 DEF Iterate, Raise, memories, results, fetched
  <2>2. QED
    BY <2>1 DEF CopyInv, Memories
<1>3. CASE DescriptorFetch
  <2>1. pc = "fetch" /\ pc' \in {"raised", "fetch"} /\ UNCHANGED <<sysmem, sram, copied>>
    BY <1>3 DEF DescriptorFetch, Raise, memories, results, fetched
  <2>2. QED
    BY <2>1 DEF CopyInv, Memories
<1>4. CASE Decode
  <2>1. pc = "fetch" /\ UNCHANGED <<sysmem, sram, copied>>
        /\ (pc' = "raised" \/ (pc' = "move" /\ dm_axi' # <<>> /\ dm_sram' # <<>>))
    <3>1. MoveIdle
      BY <1>4 DEF Decode, DrainInv, InPlace
    <3>2. pc = "fetch" /\ UNCHANGED <<sysmem, sram, copied>>
      BY <1>4 DEF Decode, Raise, memories, results, fetched
    <3>3. \/ pc' = "raised"
          \/ /\ pc' = "move" /\ dm_axi' = Append(dm_axi, AxiInstruction(Head(df_out)))
             /\ dm_sram' = Append(dm_sram, SramInstruction(Head(df_out)))
      BY <1>4, Zenon DEF Decode, Raise
    <3>4. QED
      BY <3>1, <3>2, <3>3 DEF MoveIdle
  <2>2. QED
    BY <2>1 DEF CopyInv, Memories
<1>5. CASE AxiMove
  BY <1>5, AxiCopies
<1>6. CASE SramMove
  BY <1>6, SramCopies
<1>7. CASE Complete
  <2>1. CASE regs.HEAD = regs.TAIL
    <3>1. pc' = "raised"
      BY <1>7, <2>1 DEF Complete, Raise
    <3>2. QED
      BY <3>1 DEF CopyInv
  <2>2. CASE regs.HEAD # regs.TAIL
    <3>1. /\ pc = "move" /\ dm_axi = <<>> /\ dm_sram = <<>> /\ pc' = "loop"
          /\ copied' = Copy(copied, desc) /\ UNCHANGED <<sysmem, sram>>
      BY <1>7, <2>2 DEF Complete
    <3>2. QED
      BY <3>1 DEF CopyInv, Memories
  <2>3. QED
    BY <2>1, <2>2
<1>8. CASE UNCHANGED goldenVars
  <2>1. UNCHANGED <<pc, sysmem, sram, copied, dm_axi, dm_sram, mid, desc>>
    BY <1>8 DEF goldenVars, memories, queues, results, fetched
  <2>2. Memories' = Memories /\ SourceWords' = SourceWords
    BY <2>1 DEF Memories, SourceWords
  <2>3. QED
    BY <2>1, <2>2 DEF CopyInv
<1>9. QED
  BY <1>1, <1>2, <1>3, <1>4, <1>5, <1>6, <1>7, <1>8 DEF Next, EventLoop, Finished

(* Whatever descriptors a scenario posts, in whatever order, overlapping   *)
(* or not: between two of them, and at the end, the memories hold what     *)
(* copying them one after the other gives.  No word of one burst is lost,  *)
(* doubled or left to the next.                                            *)
THEOREM CopiesAreExact == Spec => []MovesAreCopies
<1>1. Init => CopyInv
  BY DEF Init, CopyInv
<1>2. CopyInv => MovesAreCopies
  BY DEF CopyInv, MovesAreCopies
<1>3. QED
  BY <1>1, <1>2, DrainInit, DrainStep, CopyStep, PTL DEF Spec
=============================================================================
