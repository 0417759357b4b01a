----------------------------- MODULE GoldenModel -----------------------------
(***************************************************************************)
(* The software model of the engine (source/) as sim/run_golden.py drives  *)
(* it: the rows of a scenario preload the memories, set the registers and  *)
(* post descriptors; then an event loop fetches one descriptor after the   *)
(* other, runs its two halves through the mid FIFO and advances HEAD.      *)
(* Every exception abandons the scenario: pc = "raised", with where it     *)
(* comes from in error.                                                    *)
(*                                                                         *)
(* Byte addresses are numbers, a memory is a function of word indices.  A  *)
(* descriptor, packed or not, is its four words SRC, DST, LEN, FLAGS; the  *)
(* packing of handles and instructions keeps all their fields but LEN,     *)
(* which is cut to LEN_RANGE.                                              *)
(***************************************************************************)
EXTENDS Integers, Sequences, SequencesExt

CONSTANTS
  SMEM_WORDS, BRAM_SIZE,            (* sizes of the two memories, in words *)
  FIFO_DEPTH, DM_DEPTH, MID_DEPTH,  (* queue depths                        *)
  LEN_RANGE,                        (* 256: LEN has eight bits             *)
  MAX_ITERS,                        (* iterations of the event loop        *)
  Scenarios                         (* sequences of rows                   *)

DESC_WORDS == 4
DESCRIPTOR_SIZE_BYTES == 16

ASSUME GoldenAssumption ==
  /\ {SMEM_WORDS, BRAM_SIZE, FIFO_DEPTH, DM_DEPTH, MID_DEPTH, LEN_RANGE} \subseteq Nat \ {0}
  /\ MAX_ITERS \in Nat \ {0}

(* The rows of all scenarios; indices and words in them are numbers.       *)
RowValues == UNION {{s[i] : i \in DOMAIN s} : s \in Scenarios}

ASSUME ScenarioAssumption ==
  /\ Scenarios \subseteq Seq(RowValues)
  /\ \A r \in RowValues :
       /\ r.op \in {"smem", "sram"} => r.index \in Nat /\ r.data \in Nat
       /\ r.op \in {"csr_baseaddr", "csr_ringlen"} => r.data \in Nat
       /\ r.op = "desc" => r.desc \in [1 .. DESC_WORDS -> Nat]

VARIABLES
  rows,                             (* rows of the scenario still to come  *)
  sysmem, sram, regs,               (* memories and registers              *)
  df_in, df_out, dm_axi, dm_sram, mid,
  stim,                             (* lines of stim.txt                   *)
  initial,                          (* both memories when the loop starts  *)
  desc, descs_fetched,              (* current descriptor, all so far      *)
  iters, pc, error,
  posted,                           (* history: posted descriptors, slots  *)
  copied                            (* history: what the memories should   *)
                                    (* hold, see Copy                      *)

memories == <<sysmem, sram, regs>>
queues   == <<df_in, df_out, dm_axi, dm_sram, mid>>
fetched  == <<desc, descs_fetched, copied>>
results  == <<stim, initial, fetched, posted>>
goldenVars == <<rows, memories, queues, results, iters, pc, error>>

Memories == [smem |-> sysmem, sram |-> sram]

Csr == INSTANCE GoldenCsr
-----------------------------------------------------------------------------
(* Memories and descriptors.                                               *)

ReadWords(mem, first, n) == [i \in 1 .. n |-> mem[first + i - 1]]

WriteWords(mem, first, words) ==
  [a \in DOMAIN mem |-> IF a \in first .. first + Len(words) - 1
                        THEN words[a - first + 1] ELSE mem[a]]

Src(d) == d[1]
Dst(d) == d[2]
Beats(d) == d[3] % LEN_RANGE
ToSram(d) == d[4] % 2 = 1          (* DIR = 1: system memory to SRAM       *)

(* Slip: both directions address system memory with SRC.                   *)
AxiInstructionSrc(d) == [addr |-> Src(d), len |-> Beats(d), write |-> ~ToSram(d)]

AxiInstruction(d) ==
  [addr |-> IF ToSram(d) THEN Src(d) ELSE Dst(d), len |-> Beats(d), write |-> ~ToSram(d)]

(* Slip: the SRAM half takes LEN for the index of the last beat.           *)
SramInstructionShort(d) ==
  [addr |-> IF ToSram(d) THEN Dst(d) ELSE Src(d),
   len |-> IF Beats(d) = 0 THEN 0 ELSE Beats(d) - 1, write |-> ToSram(d)]

SramInstruction(d) ==
  [addr |-> IF ToSram(d) THEN Dst(d) ELSE Src(d), len |-> Beats(d), write |-> ToSram(d)]

(* What one descriptor asks for: all beats are read before the first is    *)
(* written.                                                                *)
Copy(m, d) ==
  IF ToSram(d)
  THEN [m EXCEPT !.sram = WriteWords(@, Dst(d) \div 4, ReadWords(m.smem, Src(d) \div 4, Beats(d)))]
  ELSE [m EXCEPT !.smem = WriteWords(@, Dst(d) \div 4, ReadWords(m.sram, Src(d) \div 4, Beats(d)))]

(* Where the AXI side refuses an address.                                  *)
AxiFault(addr, n) == addr % 4 # 0 \/ addr \div 4 + n > SMEM_WORDS
-----------------------------------------------------------------------------
(* The ring.                                                               *)

SlotAddress(index) ==
  regs.BASEADDR + (index % regs.RINGLEN) * DESCRIPTOR_SIZE_BYTES

(* Slip: the model of the full ring uses every slot.                       *)
FullNever == FALSE

Full == ((regs.TAIL % regs.RINGLEN) + 1) % regs.RINGLEN = regs.HEAD % regs.RINGLEN

(* Slip: HEAD is also advanced when the descriptor is fetched.             *)
NextHeadTwice == ((regs.HEAD % regs.RINGLEN) + 2) % regs.RINGLEN

NextHead == ((regs.HEAD % regs.RINGLEN) + 1) % regs.RINGLEN
-----------------------------------------------------------------------------
Init ==
  /\ rows \in Scenarios
  /\ sysmem = [a \in 0 .. SMEM_WORDS - 1 |-> 0]
  /\ sram = [a \in 0 .. BRAM_SIZE - 1 |-> 0]
  /\ regs = Csr!PowerUp
  /\ df_in = <<>> /\ df_out = <<>> /\ dm_axi = <<>> /\ dm_sram = <<>> /\ mid = <<>>
  /\ stim = <<>> /\ initial = Memories
  /\ desc = <<0, 0, 0, 0>> /\ descs_fetched = <<>> /\ posted = <<>> /\ copied = initial
  /\ iters = 0 /\ pc = "setup" /\ error = "none"

Raise(where) ==
  /\ pc' = "raised" /\ error' = where
  /\ UNCHANGED <<memories, queues, results, iters>>

RowOps == {"smem", "sram", "csr_baseaddr", "csr_ringlen", "desc", "enable"}

(* Setup phase: one row.  stim gets the line that repeats it on the board. *)
Row(op) == pc = "setup" /\ rows # <<>> /\ Head(rows).op = op /\ rows' = Tail(rows)

Line(op, addr, data) == [op |-> op, addr |-> addr, data |-> data]

RowSmem ==
  LET row == Head(rows)
  IN  /\ Row("smem")
      /\ IF row.index >= SMEM_WORDS THEN Raise("row") ELSE
         /\ sysmem' = [sysmem EXCEPT ![row.index] = row.data]
         /\ stim' = Append(stim, Line("sysmem_write", 4 * row.index, row.data))
         /\ UNCHANGED <<sram, regs, queues, initial, fetched, posted, iters, pc, error>>

RowSram ==
  LET row == Head(rows)
  IN  /\ Row("sram")
      /\ IF row.index >= BRAM_SIZE THEN Raise("row") ELSE
         /\ sram' = [sram EXCEPT ![row.index] = row.data]
         /\ stim' = Append(stim, Line("sram_write", 4 * row.index, row.data))
         /\ UNCHANGED <<sysmem, regs, queues, initial, fetched, posted, iters, pc, error>>

RowCsr(op, register) ==
  /\ Row(op)
  /\ regs' = Csr!Write(regs, register, Head(rows).data)
  /\ stim' = Append(stim, Line("csr_write", register, Head(rows).data))
  /\ UNCHANGED <<sysmem, sram, queues, initial, fetched, posted, iters, pc, error>>

(* Slip: the slot is taken from the TAIL that enqueue has already advanced. *)
DescriptorLinesLate(slot, d, tail) ==
  [i \in 1 .. DESC_WORDS |-> Line("sysmem_write", SlotAddress(tail) + 4 * (i - 1), d[i])]
  \o <<Line("csr_write", "TAIL", tail)>>

DescriptorLines(slot, d, tail) ==
  [i \in 1 .. DESC_WORDS |-> Line("sysmem_write", slot + 4 * (i - 1), d[i])]
  \o <<Line("csr_write", "TAIL", tail)>>

(* A ring without slots, a full ring and a slot outside memory raise.      *)
EnqueueFails(slot) ==
  IF regs.RINGLEN = 0 THEN TRUE ELSE Full \/ slot \div 4 + DESC_WORDS > SMEM_WORDS

Enqueue(slot, d) ==
  /\ sysmem' = WriteWords(sysmem, slot \div 4, d)
  /\ regs' = Csr!Write(regs, "TAIL", (regs.TAIL + 1) % regs.RINGLEN)

RowDesc ==
  LET d    == Head(rows).desc
      slot == SlotAddress(regs.TAIL)
  IN  /\ Row("desc")
      /\ IF EnqueueFails(slot) THEN Raise("ring") ELSE
         /\ Enqueue(slot, d)
         /\ stim' = stim \o DescriptorLines(slot, d, regs'.TAIL)
         /\ posted' = Append(posted, [desc |-> d, slot |-> slot \div 4])
         /\ UNCHANGED <<sram, queues, initial, fetched, iters, pc, error>>

(* CTRL is not part of stim: RUN_DMA of the firmware sets ENABLE.          *)
RowEnable ==
  /\ Row("enable")
  /\ regs' = Csr!Write(regs, "CTRL", regs.CTRL \cup {"ENABLE", "IRQ_EN"})
  /\ UNCHANGED <<sysmem, sram, queues, results, iters, pc, error>>

RowUnknown ==
  /\ pc = "setup" /\ rows # <<>> /\ Head(rows).op \notin RowOps
  /\ rows' = Tail(rows)
  /\ Raise("row")

EndOfRows ==
  /\ pc = "setup" /\ rows = <<>>
  /\ initial' = Memories /\ copied' = Memories
  /\ pc' = IF Csr!is_enabled(regs) THEN "loop" ELSE "done"
  /\ UNCHANGED <<rows, memories, queues, stim, desc, descs_fetched, posted, iters, error>>
-----------------------------------------------------------------------------
(* Event loop.                                                             *)

(* A FIFO raises when a word is put into it and it is full.                *)
Overflows(queue, depth) == Len(queue) = depth

submit_handle(addr) == df_in' = Append(df_in, [addr |-> addr, len |-> DESC_WORDS])

(* fetch_next_descriptor: the handle of HEAD's slot goes to the AXI master. *)
Iterate ==
  /\ pc = "loop"
  /\ IF iters = MAX_ITERS THEN Raise("iterations")
     ELSE IF regs.HEAD = regs.TAIL THEN
       pc' = "done" /\ UNCHANGED <<memories, queues, results, iters, error>>
     ELSE IF regs.RINGLEN = 0 THEN Raise("ring")
     ELSE IF Overflows(df_in, FIFO_DEPTH) THEN Raise("fifo") ELSE
       /\ submit_handle(SlotAddress(regs.HEAD))
       /\ iters' = iters + 1
       /\ pc' = "fetch"
       /\ UNCHANGED <<memories, df_out, dm_axi, dm_sram, mid, results, error>>
  /\ UNCHANGED rows

(* The AXI master takes handles before instructions.                       *)
DescriptorFetch ==
  LET handle == Head(df_in)
  IN  /\ pc = "fetch" /\ df_out = <<>> /\ df_in # <<>>
      /\ IF AxiFault(handle.addr, handle.len) THEN Raise("axi") ELSE
         /\ df_in' = Tail(df_in)
         /\ df_out' = Append(df_out, ReadWords(sysmem, handle.addr \div 4, handle.len))
         /\ UNCHANGED <<memories, dm_axi, dm_sram, mid, results, iters, pc, error>>
      /\ UNCHANGED rows

(* The fetched descriptor becomes two instructions.                        *)
Decode ==
  LET d == Head(df_out)
  IN  /\ pc = "fetch" /\ df_out # <<>>
      /\ IF Overflows(dm_axi, DM_DEPTH) \/ Overflows(dm_sram, DM_DEPTH) THEN Raise("fifo") ELSE
         /\ df_out' = Tail(df_out)
         /\ desc' = d
         /\ descs_fetched' = Append(descs_fetched, d)
         /\ dm_axi' = Append(dm_axi, AxiInstruction(d))
         /\ dm_sram' = Append(dm_sram, SramInstruction(d))
         /\ pc' = "move"
         /\ UNCHANGED <<memories, df_in, mid, stim, initial, copied, posted, iters, error>>
      /\ UNCHANGED rows

(* The half that reads is drained first.                                   *)
AxiTurn  == dm_axi # <<>> /\ (ToSram(desc) \/ dm_sram = <<>>)
SramTurn == dm_sram # <<>> /\ (~ToSram(desc) \/ dm_axi = <<>>)

(* Slip: room is looked for before the burst, not before every word.       *)
MidRefusesOnce(i) == IF i.write THEN Len(mid) < i.len ELSE Len(mid) = MID_DEPTH

(* The mid FIFO raises when it is empty or full before the burst is over.  *)
MidRefuses(i) == IF i.write THEN Len(mid) < i.len ELSE MID_DEPTH - Len(mid) < i.len

AxiMove ==
  LET i == Head(dm_axi)
      first == i.addr \div 4
  IN  /\ pc = "move" /\ AxiTurn
      /\ IF i.len > 0 /\ (AxiFault(i.addr, i.len) \/ MidRefuses(i))
         THEN Raise("axi") ELSE
         /\ dm_axi' = Tail(dm_axi)
         /\ sysmem' = IF i.write THEN WriteWords(sysmem, first, SubSeq(mid, 1, i.len)) ELSE sysmem
         /\ mid' = IF i.write THEN SubSeq(mid, i.len + 1, Len(mid))
                   ELSE mid \o ReadWords(sysmem, first, i.len)
         /\ UNCHANGED <<sram, regs, df_in, df_out, dm_sram, results, iters, pc, error>>
      /\ UNCHANGED rows

(* The SRAM controller checks nothing: the list index or the FIFO raises.  *)
SramMove ==
  LET i == Head(dm_sram)
      first == i.addr \div 4
  IN  /\ pc = "move" /\ SramTurn
      /\ IF i.len > 0 /\ (first + i.len > BRAM_SIZE \/ MidRefuses(i))
         THEN Raise("sram") ELSE
         /\ dm_sram' = Tail(dm_sram)
         /\ sram' = IF i.write THEN WriteWords(sram, first, SubSeq(mid, 1, i.len)) ELSE sram
         /\ mid' = IF i.write THEN SubSeq(mid, i.len + 1, Len(mid))
                   ELSE mid \o ReadWords(sram, first, i.len)
         /\ UNCHANGED <<sysmem, regs, df_in, df_out, dm_axi, results, iters, pc, error>>
      /\ UNCHANGED rows

Complete ==
  /\ pc = "move" /\ dm_axi = <<>> /\ dm_sram = <<>>
  /\ IF regs.HEAD = regs.TAIL THEN Raise("ring") ELSE
     /\ regs' = Csr!hw_set_head(regs, NextHead)
     /\ copied' = Copy(copied, desc)
     /\ pc' = "loop"
     /\ UNCHANGED <<sysmem, sram, queues, stim, initial, desc, descs_fetched, posted, iters, error>>
  /\ UNCHANGED rows

Finished == pc \in {"done", "raised"} /\ UNCHANGED goldenVars

Setup ==
  \/ RowSmem \/ RowSram
  \/ RowCsr("csr_baseaddr", "BASEADDR") \/ RowCsr("csr_ringlen", "RINGLEN")
  \/ RowDesc \/ RowEnable \/ RowUnknown \/ EndOfRows

EventLoop == Iterate \/ DescriptorFetch \/ Decode \/ AxiMove \/ SramMove \/ Complete

Next == Setup \/ EventLoop \/ Finished

Spec == Init /\ [][Next]_goldenVars
-----------------------------------------------------------------------------
(* What the scenario should do.                                            *)

(* One line of stim.txt on memories and registers that are all zero.       *)
Replay(s, line) ==
  CASE line.op = "sysmem_write" -> [s EXCEPT !.smem = WriteWords(@, line.addr \div 4, <<line.data>>)]
    [] line.op = "sram_write"   -> [s EXCEPT !.sram = WriteWords(@, line.addr \div 4, <<line.data>>)]
    [] line.op = "csr_write"    -> [s EXCEPT !.regs = Csr!Write(@, line.addr, line.data)]

Blank ==
  [smem |-> [a \in 0 .. SMEM_WORDS - 1 |-> 0], sram |-> [a \in 0 .. BRAM_SIZE - 1 |-> 0],
   regs |-> Csr!PowerUp]

(* The board after the first i lines.                                      *)
Boards(lines) ==
  LET after[i \in 0 .. Len(lines)] == IF i = 0 THEN Blank ELSE Replay(after[i - 1], lines[i])
  IN  after

WritesCsr(line, registers) == line.op = "csr_write" /\ line.addr \in registers

(* RINGLEN or BASEADDR is written again when descriptors are in the ring.  *)
Reconfigured ==
  \E i, j \in DOMAIN stim :
    i < j /\ WritesCsr(stim[i], {"TAIL"}) /\ WritesCsr(stim[j], {"BASEADDR", "RINGLEN"})

SlotWords(k) == posted[k].slot .. posted[k].slot + DESC_WORDS - 1

(* Nothing but enqueue writes the ring: neither a later row nor a move.    *)
RingUntouched ==
  /\ ~Reconfigured
  /\ \A k \in DOMAIN posted :
       /\ ReadWords(initial.smem, posted[k].slot, DESC_WORDS) = posted[k].desc
       /\ \A j \in DOMAIN posted :
            LET d == posted[j].desc
            IN  ToSram(d) \/ SlotWords(k) \cap (Dst(d) \div 4 .. Dst(d) \div 4 + Beats(d) - 1) = {}

PostedDescs == [k \in DOMAIN posted |-> posted[k].desc]
-----------------------------------------------------------------------------
(* Properties.                                                             *)

(* The registers and queues have the contents the code gives them; HEAD    *)
(* stays inside a ring that is not reconfigured.                           *)
TypeOK ==
  /\ sysmem \in [0 .. SMEM_WORDS - 1 -> Nat] /\ sram \in [0 .. BRAM_SIZE - 1 -> Nat]
  /\ Len(df_in) <= FIFO_DEPTH /\ Len(df_out) <= FIFO_DEPTH
  /\ Len(dm_axi) <= DM_DEPTH /\ Len(dm_sram) <= DM_DEPTH /\ Len(mid) <= MID_DEPTH
  /\ iters \in 0 .. MAX_ITERS
  /\ ~Reconfigured /\ posted # <<>> => regs.HEAD < regs.RINGLEN /\ regs.TAIL < regs.RINGLEN

(* No word and no instruction of one descriptor is left for the next: the  *)
(* two halves agree on the number of beats, also when LEN is cut to 0.     *)
QueuesDrained ==
  pc = "loop" =>
    df_in = <<>> /\ df_out = <<>> /\ dm_axi = <<>> /\ dm_sram = <<>> /\ mid = <<>>

(* golden_smem.hex and golden_sram.hex are the memories after the fetched  *)
(* descriptors copied one after the other, whatever the burst does to the  *)
(* queues on the way.                                                      *)
MovesAreCopies ==
  pc \in {"loop", "fetch", "done"} => Memories = copied

(* The ring hands over what was posted, in order, all of it, and HEAD ends *)
(* at TAIL, as long as only enqueue writes the ring.                       *)
FetchedAsPosted ==
  RingUntouched /\ pc # "setup" =>
    /\ IsPrefix(descs_fetched, PostedDescs)
    /\ pc = "done" /\ Csr!is_enabled(regs) =>
         descs_fetched = PostedDescs /\ regs.HEAD = regs.TAIL

(* The event loop runs into its limit only when RINGLEN was changed behind *)
(* posted descriptors, which can leave TAIL outside the ring.              *)
StallsOnlyReconfigured == error = "iterations" => Reconfigured

(* stim.txt repeats the setup: sent to a board whose memories are zero, it *)
(* gives initial_smem.hex, initial_sram.hex and the model's registers.     *)
StimReplays ==
  pc \in {"loop", "fetch", "move", "done"} =>
    LET board == Boards(stim)[Len(stim)]
    IN  /\ board.smem = initial.smem /\ board.sram = initial.sram
        /\ \A r \in {"BASEADDR", "RINGLEN", "TAIL"} : board.regs[r] = regs[r]
=============================================================================
