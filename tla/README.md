# AXI DMA engine: TLA+ models

This directory models the scatter-gather DMA engine of this repository: the RTL
under `rtl/`, the software model under `source/` with the runner that drives it
(`sim/run_golden.py`), and the host tools and the firmware under `firmware&local/`
that load a board, run it and judge the result. The code is the reference; where a
document says something else, the code decides what a module does and the document
decides what a property asks.

## 1. The system

The engine has one clock. In every cycle all blocks compute their outputs from
their registers and take their next state together, so one step of a model is
one rising edge of all blocks of that model. Between blocks there are strobes,
valid/ready handshakes and FIFOs. What is concurrent is: software on the
AXI4-Lite port, the ring manager, the descriptor fetcher, the data mover, the
AXI4 master, the SRAM controller and the memory behind AXI, each a state machine
of its own. Around the engine there are three programs: the firmware, which reads
frames from a UART one byte at a time, the host tool at the other end of the line,
and the display, a process that reads the host tool's events from a pipe. The
software model is sequential: it finishes one descriptor before it takes the next.

| Part | State | Operations | Talks to |
|---|---|---|---|
| CSR block `rtl/csr.sv` | registers, sticky status and interrupt bits, AXI4-Lite channels, clear pulse | capture AW, W; commit a write; B handshake; read; events; soft reset | software, ring manager, interrupt block |
| Ring manager `rtl/ring_manager.sv` | `head`, `inflight_count`, `was_empty`, `int_status_error` | issue a descriptor address, count, wrap, pause on error, reset | CSR, fetcher, datapath |
| Interrupt block `rtl/IRQ.sv` | its own copy of two sticky flags | set by events, write-1-to-clear | CSR strobes, ring manager |
| FIFO `rtl/fifo.sv` | buffer, two pointers, registered `dout` and `empty` | write, read, both, reset | six instances in `movement_top` |
| Descriptor fetcher `rtl/descriptor_fetcher.sv` | state, two registered FIFO writes | take an address, pass or reject a descriptor | ring manager, AXI4 master, data mover |
| Data mover `rtl/data_mover.sv` | state, descriptor, two instructions | get, decode, send both halves | fetcher, AXI4 master, SRAM controller |
| AXI4 master `rtl/axi_4_master.sv` | state, address, length, beat | fetch descriptors, move words in both directions, wait for the SRAM controller | system memory, FIFOs |
| SRAM controller `rtl/sram_controller.sv`, `rtl/bram.sv` | state, address, length, beat, block RAM, its read register | write, read ahead, wait for the AXI4 master | FIFOs |
| System memory `rtl/sys_mem.sv` | memory, read and write state machines | AXI bursts | AXI4 master |
| Movement top `rtl/movement_top.sv` | the FIFOs, `handshake_done_d`, `dm_done` | wiring, completion pulse | all of the above |
| Memory access controller `rtl/mem_access_ctrl.sv` | preload and readback registers | word access before and after a run | firmware |
| Firmware `firmware&local/uart_read_write.c` | parser state, sync buffer, frame | wait for SYNC, read header and payload, process a command, `RUN_DMA` | host, CSR, memory access controller |
| Host runner `firmware&local/host_runner.py` | what it has sent (`image`, `csr_writes`), transfers | send `stim.txt`, walk the ring, run, dump CSRs, verify each transfer | firmware, display |
| Serial host `firmware&local/serial_host.py` | the model's memory images | write both memories, send `stim.txt`, run, compare two CRCs; dry run | firmware, software model |
| Live display `firmware&local/viz.py` | expected and actual cells | events from a pipe | host runner |
| Software model `source/` | memories, registers, five queues | fetch, decode, two halves of a move, complete | scenario runner |
| Scenario runner `sim/run_golden.py` | rows, `stim`, snapshot | setup rows, event loop, output files | software model, host tools |

`dma_top.sv`, which connects CSR block, ring manager, interrupt block and
`movement_top`, is not in the repository. Its wiring is taken from the port names,
the interface files (`csr_interfaces.sv`, `rm_df_if.sv`, `as_rm_if.sv`,
`rm_to_irq_if.sv`) and the comments beside them; the definitions that stand for it
are marked external in `PROJECT.json`.

### What is hard, and what correct means

- **Ring manager.** Pulses from two sources (`as_done`, `df_error`) and its own
  issue can fall in one cycle, and the counter changes by one at most. HEAD moves at
  issue, not at completion. Correct: the counter never reports less than is in
  flight and never passes the limit (the FIFOs have no other protection); the slots
  between HEAD and TAIL are a queue; polling `RING_EMPTY` without `BUSY` is a sound
  test for the end; HEAD always moves on.
- **CSR and interrupts.** Address and data of a write arrive separately; clearing
  an error is split over two cycles and two blocks; the flags are kept twice; the
  soft reset waits for the bus while software goes on. Correct: a paused engine
  always shows why, the pin always has a cause software can see, a reset completes.
- **FIFO.** Wrap bits, a registered flag that is late by one edge and a read port
  that looks ahead. Correct: a bounded queue, and `dout` is the oldest word whenever
  the flag is down.
- **Datapath.** Seven state machines; the two halves of a transfer run on two
  engines that must meet, descriptor fetches overtake moves, the fetcher writes
  FIFOs a cycle after it looked at `full`, block RAM is read ahead. Correct: what is
  moved is what one-at-a-time execution moves, every descriptor is reported once,
  no FIFO overflows.
- **Software model.** Rows of a scenario come in any order and may rewrite the ring
  behind posted descriptors; one half of a transfer fills the mid FIFO before the
  other drains it; every overflow, bad address or full ring is an exception that
  abandons the scenario. Correct: nothing of one descriptor is left for the next, the
  memories are those of copies made one after the other, what is fetched is what was
  posted, and `stim.txt` repeats the setup on a board.
- **Verification on the host.** Expected words come from images taken before the run,
  the board keeps the words of the test before, and only parts of memory are compared.
  Correct: a PASS is deserved; a board that works passes.
- **Serial link.** A byte stream without retransmission, answers that carry no number,
  timeouts on one side and polling budgets on the other. Correct: a PASS is never the
  result of lost bytes or of a late answer, a session that nothing disturbs passes
  whatever the last one left, nobody waits for ever.

`PROJECT.json` lists every hazard with its line.

## 2. Modules

| Module | Models |
|---|---|
| `BoundedQueue` | abstract: values leave in order, once, at most `Capacity` wait |
| `RingManager` | registers, outputs and edge of the ring manager |
| `DescriptorRing` | software, ring manager and an abstract datapath |
| `DescriptorRingProofs` | theorems about `DescriptorRing` |
| `FifoProofs` | theorems about `Fifo` |
| `ControlPlaneProofs` | theorems about `ControlPlane` |
| `MovementTopProofs`, `MovementCopyProofs` | theorems about `MovementTop` |
| `GoldenModelProofs`, `GoldenRingProofs` | theorems about `GoldenModel` |
| `HostVerifyProofs` | theorems about `HostVerify` |
| `Fifo` | the FIFO with its pointers, flag and read register |
| `ShowAheadQueue` | what the FIFO offers its users; `Fifo` implements it |
| `Csr`, `IrqBlock` | registers and edge of the two blocks |
| `ControlPlane` | AXI4-Lite software, `Csr`, `RingManager`, `IrqBlock`, a datapath of two counters |
| `DescriptorFetcher`, `DataMover`, `Axi4Master`, `SramController`, `SysMem` | one block each: outputs and edge |
| `MovementTop` | these five and six `ShowAheadQueue`s, wired as `movement_top.sv` wires them |
| `MCMovementTop` | descriptor programs for TLC |
| `GoldenCsr` | registers of `source/csr.py` as one value |
| `GoldenModel` | the software model and the scenario runner: one action per kind of row and per step of the event loop |
| `MCGoldenModel` | scenarios for TLC |
| `Viz` | events, handlers and the reader of the live display |
| `HostVerify` | extends `GoldenModel`: a tool is started on its output, loads a board, runs it and judges; `Viz` shows it |
| `MCHostVerify` | scenarios for TLC |
| `HostLink` | host tool and firmware as two processes with a byte channel in each direction |

Registers, states and signals keep their RTL names. A block's module declares its
registers as VARIABLES and its inputs as CONSTANTS or parameters, defines its
combinational outputs as operators and its `always_ff` block as `Edge`; the
composing module instantiates it with the wires substituted and conjoins the
edges. Where an `always_comb` block assigns one signal in several branches the
model has one operator for that signal.

In `DescriptorRing` each action of software (`Configure`, `Post`, `SetEnable`,
`ClearError`, `WriteReset`, `FinishReset`) includes the clock edge in which it takes
effect, and `Wait`, `HoldReset` are edges without one. In `ControlPlane` the same
writes go through the AXI4-Lite channels and take several edges.

Software writes CTRL.RESET whatever the engine is doing, as line 207 of
`uart_read_write.c` does; the datapath is not reset by it. The history variable
`orphaned` of both modules is how many descriptors the last reset left in the
datapath. It is not counted down when they leave: the ring manager cannot tell which
completions are theirs, and neither can the counter that has lost them.

### Abstractions

- Addresses are word indices; `BASEADDR` is 0. AXI and SRAM addresses are words
  where the RTL shifts a byte address by two.
- In `DescriptorRing` a descriptor is a model value that passes (`Good`) or fails
  (`Bad`) the fetcher's check. In `MovementTop` it is four words SRC, DST, LEN,
  FLAGS in memory, fetched by the modelled AXI burst.
- CTRL, STATUS, IRQ_STATUS and IRQ_CLEAR words are sets of their bits; a captured
  address or word and its `*_pending` bit are one variable, `None` when not pending.
- Byte strobes are all ones (every store of the firmware is a 32-bit store).
- RINGLEN is written once between two resets.
- Left out because nothing reads them or they never differ: `sw_rst_enable`,
  `rresp`, `bresp`, `cur_write` of the two engines, `w_last_beat` of `sys_mem`.
- FIFO write and read clock are one clock, as `movement_top.sv` connects them.
- `None` stands for a registered FIFO write that is not strobed.
- *Software model.* A descriptor, packed or not, is its four words; the packing of
  handles and instructions keeps all fields but LEN, which is cut to `LEN_RANGE`. An
  exception is `pc = "raised"` with its origin in `error`. Files are the sequences and
  functions they hold; their text format is left out.
- *Host verification.* The link is perfect, and a CRC stands for the words it is taken
  over, so what is checked is which words are compared with what. The memories of the
  board are left over from an earlier test, its registers are those of power-up. The engine behind
  `RUN_DMA` does its work, loses one transfer, damages one word of either memory, or
  stops with NACK after any number of transfers. `TicksAreTrue` holds over that link:
  when an answer is lost, `host_runner.py:294-300` sends 0 to the display and still ticks.
- *Serial link.* A byte is a digit of base `BYTE` (32 for 256) and a word has
  `WORD_BYTES` digits (2 for 4), so headers, sync words and payloads keep their layout and can be taken for
  one another. The line of text the firmware prints before an answer is `WORD_BYTES`
  bytes `TXT`. One word is moved; the CRC of one word is one-to-one. A message may
  lose one of its bytes when it is sent. Two seconds are taken to suffice for every
  answer but that of `RUN_DMA`, thirty (serial_host.py) for that one too.
- Power-up values that no reset sets (`fifo_buf`, `dout`) are arbitrary in `Fifo`.

## 3. Runs

All runs that pass check deadlock too: hardware always has a next edge, and the
programs end in states that stutter explicitly.

| Run | Question | Instance |
|---|---|---|
| `ring` | counter and its leak, polling and queue with bad descriptors and resets at any time; does HEAD move on, and is a reserve of free slots enough | limit 2, rings of 3 and 4, reserve 2, handle FIFO of 2, one good and one bad image, RESET written with up to two descriptors in the datapath |
| `fifo` | do pointers and flag implement the queue | 4 entries, two words |
| `control` | visibility of errors, polling, pin, reset over the bus; does clearing an error release the engine | limit 1, ring of 2, four CTRL and all IRQ_CLEAR words, RESET written to an empty datapath |
| `movement` | does the datapath move what the software model moves, and finish | every program of three of five descriptors, limit 2, FIFOs of 2 |
| `movement_sizes` | are the default FIFO depths enough for the longest bursts | defaults of `movement_top.sv` and limit 4, twelve reads of 255 words |
| `golden` | does the software model copy, drain, hand over what was posted, and write a `stim.txt` that repeats it | 16 and 4 words of memory, queues of 1 and a mid FIFO of 2, up to three descriptors of ten images, rings of 1 to 4, one more row anywhere |
| `verify` | what a PASS or FAIL of each tool, of the dry run and of the display means | one or two descriptors of six images, preloaded or not, two kinds of left-over memory, four engine outcomes |
| `link` | can losses, timeouts and left-overs make a tool report PASS by mistake, fail by mistake, or hang | both tools, two sessions, one lost byte in the first |

Bounds and why they are enough:

- *Limit and ring length.* Coincidence of pulses needs an issue, a bad descriptor
  and a completion, and a limit of two lets all of them meet. With the reserve of two
  the rings hold one and two pending descriptors, so the ring, TAIL and the limit can
  each be what stops the ring manager. `COUNT_RANGE` is above the limit, so a wrap of the
  counter shows. A limit of one is enough in `control`, which is about registers and
  bus; what the counter loses to pulses is the question of `ring`, and every safety
  property of both runs is proved for every limit. `ring_leak` and `ring_late_reset`
  have a limit of three, and rings shorter and longer than it.
- *Resets.* `RESET_LOAD` bounds how many descriptors the datapath holds when RESET is
  written; nothing bounds what is issued in that very cycle. With 2, the limit, a reset
  of an engine without orphans is free; one behind another that left orphans is
  bounded, or orphans would add up. `ring` reaches orphans counted down below zero, new
  descriptors issued beside orphans, and drained resets after both. With 0, in
  `control`, an issue at the edge of the write still leaves an orphan.
- *FIFOs of two.* The smallest power of two that is not below the in-flight limit:
  the fetcher's late writes are protected by the limit alone, and a smaller FIFO
  would not show that the limit protects them. `movement` mutated to drop the limit
  overflows. The mid FIFO has 32 entries in `movement`; `movement_sizes` uses the
  real 64. The read-ahead survives with 32 as well and fails with 16: descriptor
  fetches hold the AXI4 master while the SRAM controller fills the FIFO, four beats
  and their overhead per descriptor in flight.
- *Programs.* Three descriptors give two transfers in a row with a third being
  fetched. The images cover both directions, one and two beats, a transfer that
  reads what the one before it wrote, the same range in both directions, and a
  rejected one. Four words of memory on each side are the smallest on which shifted
  overlap shows. All words differ, so a misplaced one is seen.
- *CTRL words.* Nothing, enabled, RESET, and RESET with IRQ_EN. ENABLE without IRQ_EN
  is left out: IRQ_EN only gates the pin, and `PinHasCause` needs it up.
- *Scenarios.* Two descriptors are the fewest of which one can overwrite, or read, what
  the other wrote; the third in `golden` lets a ring of two or three wrap or overflow. LEN 0
  and a LEN above `LEN_RANGE`, more beats than the mid FIFO holds, addresses outside
  memory or not a multiple of four, and a move into the ring are among the images. A
  row that rewrites RINGLEN, BASEADDR, a word of the ring or a word outside memory, or
  an unknown one, stands before, between or behind the descriptors.
- *Boards.* Left-over words 0 and 7, damage 0 and 999: a damaged word may be one that
  looks never written. Two memories of 16 and 4 words hold the ring, sources and
  destinations with words between them that nobody touches.
- *Link.* One lost byte already shifts every later field of its frame, and the second
  session shows what is left behind; `LOSSY_SESSIONS` keeps that one undisturbed, so
  `CleanSessionPasses` is about the state it finds. The numbers are chosen so that confusion can
  happen: the word that is moved, its address and the lengths share digits with the
  opcodes (the address 4 begins like RUN_DMA). The digits of the sync word are those of
  no other field: a word of the scenario that holds 0xDEADBEEF is not covered.
- *AXI4-Lite.* Address and data are shown independently in any later cycle, responses
  are taken in any cycle. One access at a time, as the firmware's stores and loads.

### Runs that disagree with a document

| Run | Shows |
|---|---|
| `ring_late_reset` | RUN_DMA resets an engine that still works (`uart_read_write.c:207`), the reset forgets the count and not the work (`ring_manager.sv:98`), and the completion of the old work is subtracted from the count of the new: `RING_EMPTY` without `BUSY` with a descriptor in flight |
| `ring_leak` | `df_error` in the cycle of an issue or of `as_done` is lost by the counter (`ring_manager.sv:74-79`): `BUSY` stays up until a reset. `LeakBounded` and `HeadMoves` show that the engine goes on working, one at a time in the worst case |
| `movement_zero_length` | LEN 0 from SRAM is accepted and the engine stops for ever |
| `verify_right_board` | a board that works is reported FAIL: by `serial_host.py` when no transfer changes SRAM (`scenarios/reverse_direction.csv`), by `host_runner.py` when a transfer reads what another wrote (`two_desc_chain_mixed_dir.csv`). `RunnerAcceptsIndependent` and `SerialAcceptsUploads` say when it passes |

Others are plain from the code, or are recorded in `PROJECT.json` without a run of their own:

- HEAD moves at issue, so a producer that follows the full condition of
  `docs/csr_spec.md` may overwrite a descriptor still to be fetched; `IssuedIntact`
  holds when as many slots as the in-flight limit are kept free.
- The EMPTY event (`ring_manager.sv:55`) is raised when the last descriptor is issued,
  while `docs/irq_spec.md:9` speaks of all being handled; software that polls
  `RING_EMPTY` without `BUSY` is safe (`DoneMeansDone`, `PollSound`). No property is
  about the event itself.
- The ring manager computes `sw_rst_enable`, "allow sw_rst once all descriptors in-flight
  are completed" (`ring_manager.sv:34`), and nothing reads it. The firmware does not wait
  either: it never takes ENABLE down after a run, leaves its loop on ERROR (line 245) or
  on its budget with descriptors possibly in flight, and writes CTRL_RESET at the start
  of the next run. The old work must then outlast the UART frame of that command.
  Beyond what `ring_late_reset` shows: a completion counted at 0 takes the counter to its
  top value, the ring manager issues nothing and `BUSY` stays up until the next reset
  (that is why `LeakBounded` and `HeadMoves` speak of `orphaned = 0`); new descriptors
  come on top of the old ones, so the datapath may hold up to the limit and the orphans,
  more than the FIFOs behind the fetcher are sized for; and handles left behind are
  fetched from slots that software has filled again (`IssuedIntact`). `MovementTop` has
  no soft reset. A reset of a drained engine repairs all of it.
- An SRAM address beyond the block RAM, below the limit of 65535, is accepted and wraps.
  The block RAM has 1024 words by `dma_pkg.sv:33`, and 256 on the board
  (`vivado_config.sv:14`).
- `fifo.sv:3-9` holds an unresolved merge conflict about the default parameters, so the
  file does not compile as it is. Every instance in `movement_top.sv` sets both, and
  the models do not depend on it.
- An error that arrives between the write of IRQ_CLEAR and the pulse it causes sets
  STATUS.ERROR, and the pulse then removes the pause: the error is visible and the
  engine runs on.
- `docs/descriptor_struct.md:14-18` holds an unresolved merge conflict about the width
  of LEN; the RTL takes its low eight bits.
- `host_runner.py` sends CSR reads as soon as `RUN_DMA` has timed out, and takes its
  late answer for theirs: with `host_runner` as the only tool, one session and no
  losses, `AnswersBelong` is violated. Its verdict stays right (`PassIsTrue`), and
  `serial_host.py` is not affected (`SerialAnswersBelong`).
- `host_runner.py` raises TypeError at line 111 when STATUS could be read and
  IRQ_STATUS could not, and IndexError at line 126 when nothing follows SYNC (the
  verdict `crash` of `HostLink`); its exit code does not depend on the verification
  (line 461).
- IRQ_STATUS of `source/csr.py` can be written; that of `csr.sv` cannot.
- `serial_host.py` compares system memory with the image before the run, so it never
  checks a download, and it misses a lost transfer that leaves every word of SRAM as
  the model has it; `SerialCatchesLost` states what it does catch.
- A lost opcode byte shifts the frame of a write whose address begins with 4 and whose
  payload begins with 0 into a `RUN_DMA`: the firmware runs the ring it has, and the
  tool takes that answer for the answer to its write. The word that was not written is
  found by the verification, so no wrong PASS follows (`PassIsTrue`).

### Fairness

Safety runs assume none. `DescriptorRing` assumes for its liveness that the datapath
keeps working: `sys_mem` answers every burst and every block runs on the clock, so a
handle is taken, a descriptor fetched and a move finished in the end (`movement`
checks exactly this of the detailed datapath, as `AllReported`, with no fairness but
that of the clock). Software is not assumed to do anything. `ControlPlane` assumes
that the clock runs and that a master keeps showing what it offers and takes its
response, which AXI4-Lite demands; the datapath need not answer.

`HostLink` assumes that both programs run (weak fairness of `Host` and of `Firmware`):
every wait of the host is a read with a timeout, every wait of the firmware for the engine has a
polling budget, and while it waits for bytes it has no step to take. Nothing is
assumed about losses, about the engine's result, or that a tool is started again.
`GoldenModel` and `HostVerify` are checked for safety alone; both end, or raise, in
every behaviour, because the rows and the iterations are bounded.

A master that polls without a pause can put the soft reset off for ever
(`csr.sv:398`); the firmware waits after RESET, and no liveness of reset is claimed.

## 4. Proofs

Eight modules hold proofs; the constants are arbitrary within the named assumptions of
the modules they are about.

### The ring

`DescriptorRingProofs` proves for every ring length, in-flight limit, handle FIFO
depth, reserve and set of descriptor images that meet `RingAssumption`:

- `TypeCorrect`: `Spec => []TypeOK`. The part that needs an argument is that HEAD and
  TAIL stay inside the ring: the ring manager wraps HEAD by comparing for equality with
  `RINGLEN - 1`, which is enough because RINGLEN changes only while both are 0.
- `InflightSound`: `Spec => []InflightCovers`: the counter never undercounts what the
  datapath holds by more than the last reset left there, and after one that left nothing
  it never passes the limit.
- `LeakIsBounded`: `Spec => []LeakBounded`: what the counter loses to coinciding pulses
  stays below the limit.
- `DoneIsSound`: `Spec => []DoneMeansDone`.
- `ExactWithoutErrors`: without bad descriptors, `Spec => []CountIsExact`; with bad ones
  `ring_leak` refutes it.
- `ResetDrains`: `Spec => ResetOnlyDrains`. HEAD is 0 while RESET is up, and RINGLEN and
  TAIL still describe the old ring, so the ring manager would offer slot 0 at every edge
  but for ENABLE, which the write of RESET alone has taken down (`FlightInv`).
- `ReserveSuffices`: with a reserve of at least `MAX_INFLIGHT` slots,
  `Spec => []IssuedIntact`. A reserve of one slot, which the documented full condition
  amounts to, is not enough.
- `RingImplementsQueue`: `Spec => RingIsQueue`, the refinement of `BoundedQueue` by the
  slots between HEAD and TAIL, for every reserve. Its capacity is one less than the
  longest ring, so `RingAssumption` says that there is a longest one.

None of them supposes anything of the moment of a reset: RESET may be written to a
working engine, as the firmware may do. Properties that an orphan can break have
`orphaned = 0` as a premise; that they hold again after a reset that left nothing is part
of what is proved, whatever went on before it. With orphans about there remain types,
`InflightCovers` and `DoneMeansDone` with the orphans in their sums, `ResetOnlyDrains` and
`RingIsQueue`.

`FlightInv` is `TypeOK`, `InflightCovers`, `LeakBounded` and that ENABLE is down
while RESET is up. A reset sets the counter to 0 and `orphaned` to what the datapath
holds (`ResetEdge`), so both sums start even; from then on no edge takes more from the
counter than from the datapath, unless the counter wraps below zero, when an orphan is
about and the sum grows. `LeakBounded` needs that whatever leaves at an edge was in the
datapath before (`LeavesHeld`): a lost decrement needs two pulses, so two descriptors, or
one and an issue below the limit. `DoneMeansDone` follows from `FlightInv`.

`IssuedIntact` says nothing of where the slots are. `SlotInv` adds to `FlightInv` that
the handles waiting to be fetched name the slots just behind HEAD in order (`Behind`)
and that they and the pending descriptors together fit into the ring (`Room`). Software
posts with RESERVE slots free and at most MAX_INFLIGHT handles wait, so the slot of TAIL
is none of theirs. All three speak of `orphaned = 0`. The steps are `BehindStep`,
`RoomStep` and `IntactStep`; an edge with a reset that leaves nothing behind, or with a
ring not configured yet, leaves no handle waiting (`EmptyStep`).

The refinement needs no more than `TypeOK`. An edge that issues drops the first pending
descriptor (`SlotFrom` shifts by one when HEAD does, across the wrap as well), `Post`
appends one behind the last, and the slot it writes is none of the pending ones because
software leaves a slot free; a reset is the only step that drops any (`Flush`).

### The FIFO

`FifoProofs` proves for every depth and every set of words (the pointers of `Fifo` count
modulo twice the depth, which the RTL's `$clog2` bits do for the powers of two that
`movement_top.sv` uses):

- `FifoSound`: `Spec => [](TypeOK /\ LookAhead)`, and from it `FifoTypes`;
- `FifoImplements`: `Spec => ImplementsQueue`, the refinement of `ShowAheadQueue`;
- `FifoInOrder`: `Spec => InOrder`, the refinement of `BoundedQueue`.

`TypeOK` and `LookAhead` together are inductive. The pointers are compared modulo twice
the depth: `Dist` is how far the write pointer is ahead and `SlotAt` the entry of the
k-th word; `DistBump`, `FullDist`, `SlotMoves` and `SlotOfWrite` are all the arithmetic there is
(the entry behind the last word is the one written next, and no waiting word is in it
unless the buffer is full). `EdgeContents` lifts one edge to the sequence of waiting
words, and both refinements follow from it case by case.

### The control plane

`ControlPlaneProofs` proves for every ring length and limit, every
set of CTRL and IRQ_CLEAR words and every pace of the datapath (`ControlAssumption` says
that words are sets of bits and `None` is none of them; `SizesAssumption`, which the last
two theorems use, that the ring has a slot, that the counter is wide enough for the limit
and that no word of software sets RESET together with ENABLE):

- `PauseShows`: `Spec => []PauseIsVisible`, which is inductive as it stands;
- `ResetCompletes`: `Spec => ResetClears`. `BusInv` says that there is one access at a
  time and that while RESET is up no write has been captured: the write that set the
  bit has left the channels, and the next is offered at the earliest in the cycle in
  which the response is taken, when the soft reset is one edge ahead of it;
- `PinIsExplained`: `Spec => []PinHasCause`. The flags of the interrupt block survive
  CTRL.RESET, so `PinHasCause` is not inductive. `PinInv` adds that while the copies
  disagree IRQ_EN is down, no write that raises it is on its way, and IRQ_CLEAR with
  both bits is still to come or on its way (`uncleared`, `ClearsBoth`). This is where
  the firmware's order RESET, IRQ_CLEAR, CTRL is needed;
- `ControlTypes`: `Spec => []TypeOK`, and `PollIsSound`: `Spec => []PollSound`. The word
  software takes was sampled some edges before, so that it is still true when it is taken
  needs that no write commits while a read is under way (`BusInv`), that the counter and
  the orphans of the last reset together cover what the datapath holds (`CountsInv`), and
  that TAIL is inside the ring it was computed for when it is written (`WriteInv`). RESET
  may find the engine at work. `ResetInv` says that it has taken ENABLE down and brings
  HEAD to 0 before its response can be taken, hence before the next read. `PlaneInv` is
  their conjunction with `PollSound`.

### The datapath

`MovementTopProofs` proves for every program, memory size, width of LEN, FIFO depth and
in-flight limit, with the FIFOs that the fetcher writes no smaller than the limit
(`MovementAssumption`, `DepthAssumption`; the depths of `movement_top.sv` satisfy it):

- `FifosInBoundsAlways`: `Spec => []FifosInBounds`;
- `AccountedAlways`: `Spec => []EveryDescriptorAccounted`.

Neither is inductive, and each needs the other. The fetcher writes a cycle after it
looked at `full`; that there is still room follows only because what waits in those FIFOs
is part of the sum that `EveryDescriptorAccounted` compares with requested minus reported,
which the ring manager limits (`Limited`). The sum in turn is right only because no write
is dropped and nothing is read from an empty FIFO. `MovementInv` adds the types of all
registers and FIFOs, that a flag that is down promises a word (`Flags`), that an engine in
a state which strobes `rd_en` finds one (`Gets`), and that the handshake of the two
engines is a pulse, so that `dm_done` is raised once for it (`Once`); `MovementInvariant`
states that all of it always holds. The proof takes the blocks one by one: each lemma says
what one block's edge does to its part of the sum, and the last adds them up.

`MovementCopyProofs` proves, under the same assumptions, that the datapath moves what
executing the descriptors one at a time moves:

- `CopiesAreInOrder`: `Spec /\ []ReadAheadNeverStalls => []CopiesInOrder`;
- `ReadsKeepUp` and `KeptUpCopiesInOrder`: for programs the engine keeps up with
  (`KeepsUp`), with bursts of any length, `Spec => []ReadAheadNeverStalls`, hence
  `Spec => []CopiesInOrder`.

The hypotheses say what the engine is made for. A descriptor fits a burst
(`LEN_RANGE >= DESC_WORDS`: 256 and 4 in the RTL). A descriptor that passes the check has
at least one word and its two ranges lie in the data part of system memory and in the
block RAM (`Executable`): a length of zero hangs the engine (`movement_zero_length`), an
address beyond the block RAM wraps, and a move into the ring changes descriptors that may
or may not have been fetched. That the read-ahead does not stall is needed because while
the mid FIFO is full the block RAM is asked for word 0.

`KeepsUp` says when it does not. The SRAM controller pushes a word per edge as soon as it
has its half of a download; the AXI4 master first fetches whatever handles wait, eight
edges each (`FETCH_EDGES`), because it prefers them to instructions. Behind a download
longer than the mid FIFO there must therefore be so few descriptors that can be in flight
with it, n of them, that 8 n + 3 words fit. With every descriptor accepted n is at most
`MAX_INFLIGHT - 1`: 27 words for the limit of 4, of the 64 that
`movement_top.sv` has; of the powers of two 32 is enough as well, and 16, where TLC finds the
stall, is not.
A rejected descriptor leaves the count of those in flight at once, so a run of rejected
ones raises n; with limit 4 and 64 words up to four of them behind a download are harmless.
For ten of them TLC finds the stall in `MovementTop`, whose environment goes on requesting.
`ring_manager.sv:50` stops requesting at the first one until software clears the error,
which `MovementTop` does not assume. The theorems also take it that the FIFO behind the
fetch has room for every descriptor in flight (`MAX_INFLIGHT <= DF_OUT_FIFO_Q`: 4 and 64).
The programs of `movement` satisfy all the hypotheses, and so do programs of bursts of 255
words inside the memories at the sizes of the RTL; those of `movement_sizes` write
behind system memory, so for them the run, not the theorem, is the evidence.

`CopiesInOrder` speaks of the handshake alone; `DataInv`, which is inductive, follows every
descriptor and every word between two of them:

- `OrderInv`. `Checks` descriptors have left the check, `Passed(n)` of the first n pass it
  and `Nth(i)` is the i-th that does. Each FIFO holds the elements of a list that depends
  on the program alone, in line behind a number that the counters of `MovementInv` give
  (`InLine`): handles and fetched descriptors before the check, accepted descriptors and the
  two kinds of instruction behind it (`FetchOrder`, `MoveOrder`). `Slide` says for any queue
  that an edge which reads, writes or does both keeps it in line. `FetchBurst` follows the words of
  the descriptor being fetched, `RingKept` says that no move has touched the ring, and
  `SlaveFollows` ties the two state machines of `sys_mem` to that of the master.
- `CopyInv`. Both engines work on the same descriptor, `Now`, with the same length
  (`AxiBurst`, `SramBurst`), and the register behind the block RAM holds the word to be
  pushed next. The mid FIFO holds the words of the source that were read and not yet
  written, and the memories are those before the transfer with the written words in place
  (`CopyState`).
- `IdleInv`. Between two transfers the mid FIFO is empty and the memories are what the
  program so far makes them.

`KeptUp` adds the pace. `Begun` counts the descriptors whose fetch has begun, and `Delay`
is by state of the master the number of edges until it writes or begins the next fetch.
`LagInv` states that while the SRAM controller reads ahead

    Len(mid_q) + Delay <= 8 * (Begun - Nth(transfers + 1)) + 3

Each edge adds a word at most and takes one from `Delay`; where `Delay` rises from 2 to 9,
at `s_df_get`, `Begun` rises by one. That no edge is wasted is `PaceInv`: the slave is idle
when a write address comes, the master sees its half of the transfer once the SRAM
controller has taken the other, and the late empty flag hides one word at most. `InFlight`
bounds `Begun` by the limit on descriptors in flight, counting those that pass
(`PassedApart`).

`Golden` is a recursive function and `Nth` is defined by counting; what is needed of them
(`GoldenStep`, `GoldenSame`, `PassedNext`, `NthIs`) is proved by the least counterexample
(`Least`), from the fact that `<` is well-founded on the naturals.

### The software model

`GoldenModelProofs` and `GoldenRingProofs` prove for all memory sizes, queue depths and
scenarios whose rows hold numbers (`GoldenAssumption`, `ScenarioAssumption`):

- `QueuesAreDrained`: `Spec => []QueuesDrained`. `DrainInv` follows the one descriptor
  the loop works on: at `fetch` its handle or its words wait in one queue; at `move`
  both instructions wait and the mid FIFO is empty, or the half that writes waits and
  the mid FIFO holds exactly `Beats` words, or all is empty. Exceptions leave the loop, so
  a partly executed burst never reaches the next descriptor.
- `CopiesAreExact`: `Spec => []MovesAreCopies`. What the memories should hold is the
  history variable `copied`: the memories at the end of the rows, and one `Copy` further
  with every descriptor that completes. `CopyInv` adds what is true between the two halves:
  before either has run the memories are `copied`; once the half that reads has run the
  memories still are, and the mid FIFO holds the words of the source; when both have run
  the memories are `Copy` of them.
- `GoldenTypes`: `Spec => []TypeOK`. `QueueSizes` needs `DrainInv`, `HEAD < RINGLEN` needs
  `RingInv`.
- `FetchesThePosted`: `Spec => []FetchedAsPosted`. As long as no row reconfigures the
  ring, TAIL is the number of posted descriptors, HEAD that of the completed ones, and
  the test for a full ring keeps both below RINGLEN (`Ordered`, a part of `RingInv`).
  `FetchInv` adds that memory holds every posted descriptor in its slot, that the handle
  names the slot of HEAD and that the words behind it are the next descriptor. That
  the slots hold the posted descriptors when the rows end, and that no move writes into
  them, is the hypothesis `RingUntouched` of the property.
- `StallsAreReconfigured`: `Spec => []StallsOnlyReconfigured` for scenarios in which no
  `csr_ringlen` row exceeds `MAX_ITERS`: the iterations are at most the posted
  descriptors, which are fewer than RINGLEN. Without that hypothesis the statement is
  false: a ring longer than the limit may simply hold more descriptors than the loop
  takes. The scenarios of the `golden` run satisfy it.
- `StimIsFaithful`: `Spec => []StimReplays`. The board after each line is a recursive
  function of the lines (`Boards`), which is what its definition says by the least
  counterexample (`BoardsAre`); lines that follow do not change what came before
  (`BoardsSame`). `ReplayInv`: while the rows run, the board that replays the lines so far
  has the model's memories and ring registers. A memory row and its line write the same
  word; the five lines of a descriptor write, one after the other, what `enqueue` writes
  at once, also into a slot that is not aligned, and TAIL as `enqueue` has left it.

### The verdicts of the host tools

`HostVerifyProofs` proves for all memory sizes and scenarios what the verdicts are worth.
What a sequence of descriptors does to the memories is a recursive function (`Runs`);
`RunsNext`, `Stays` and `Moves` say it word by word: a word is what the last descriptor
that writes it found in its source, or what it was. `ExecInv` says that the software
model's memories are `Runs` of the fetched descriptors on the memories its loop started
with, and that every fetched descriptor stays inside them; with `FetchedAsPosted`, which
needs `RingUntouched`, these are the posted descriptors (`GoldenEnds`).

- `DryRunIsComplete`: `vSpec => [](RingUntouched => DryRunAccepts)`. The dry run compares
  memories before and after; a word nobody overwrites still is what its transfer moved,
  and the word it came from is what it was unless another transfer wrote it.
- `RunnerPassIsSound`: `vSpec => [](RingUntouched => RunnerPassIsRight)`, for rows whose
  BASEADDR and source addresses are multiples of four (`AlignedRows`), because the tool
  looks up by byte address what it has sent by the word. `RunnerInv`: while lines are
  sent, the tool knows every word that the board of `StimReplays` holds at that line, and
  TAIL and BASEADDR (`Knows`); the ring walk finds the posted descriptors and the words
  of their sources when the loop started (`WalkFinds`); every judged transfer is intact
  or the verdict is FAIL. That this is enough when transfers are chained, although the
  expected words are those before the run, is `AllHeld`: if source and destination of
  every transfer hold the source's initial words, executing the descriptors in order
  gives each written word the value it has on the board. Nothing is assumed of the
  engine, nor of what the board held before.

- `RunnerIsComplete`: `vSpec => [](RingUntouched /\ Csr!is_enabled(regs) =>
  RunnerAcceptsIndependent)`, again for `AlignedRows`. A board is loaded on top of what an
  earlier test left. `LoadInv`: a word of the board is the one `StimReplays` has at that
  line, or no line sent so far named it; `SlotsInv`: stim.txt names every word of every
  posted slot. So the ring on the board is the one that was posted (`LoadedBoard`), and so
  is every source word the tool knows (`Remembered`, `SourcesLoaded`); `IndependentRuns`:
  executing the descriptors then leaves source and destination with the expected words;
  `RightInv` carries that to the verdict. Without ENABLE the model does not execute the
  descriptors, and nothing says that they stay inside the memories.
- `SerialIsComplete`: `vSpec => [](RingUntouched => SerialAcceptsUploads)`. serial_host.py
  sends both images first, so its board is alike in every word (`Alike`), and alike boards
  stay alike (`RunsAlike`); uploads leave system memory alone (`Uploads`). ENABLE follows
  from the hypothesis that something changed (`IdleInv`).
- `SerialIsSound`: `vSpec => [](RingUntouched => SerialCatchesLost)`. The range that is
  compared ends with the last word the model changed; a word of SRAM that shows that
  a transfer is missing is one that the complete run changes (`LostShows`), because no word
  is written twice.

All of these need `RingUntouched`: a row or a transfer that writes into the ring changes
what the model fetches, and the tools do not look at it again. `HostAssumption` says that
what an earlier test left are words.

- `DisplayIsTrue`: `vSpec => []TicksAreTrue`, without a hypothesis. The display lags behind
  the host by the events in the pipe, so `TicksAreTrue` is not inductive: `DisplayInv` says
  that there is a sequence of tables, the first being what the display shows and each of the
  others what the next event in the pipe makes of the one before, in which every table is
  true, and in the last of which every cell has its tick unless the host has failed
  a transfer. The reader drops the first table of the sequence (`DisplayReads`). A judged
  transfer adds one for each of its events (`DisplaySends`), and `BlockShown` says which
  they are: pending cells of destination and source, a word more, a tick more (`Tab`,
  `CellFills`, `CellTicks`); one region still has the cells of the transfer before when the
  first event of a block is handled (`PendingTrue`). That ticks find their cell needs that
  the addresses of a block differ (`CellFound`), and that the words sent are
  numbers and the transfers descriptors (`SentInv`).

### Only model-checked

- Liveness (`HeadMoves`, `ClearResumes`, `AllReported`, `SessionEnds`): temporal reasoning
  from fairness needs ENABLED, which the provers do not have.
- `ReadAheadNeverStalls` for programs outside `Executable` or `KeepsUp`. `movement_sizes`
  checks one at the depths of `movement_top.sv`; it is false for a mid FIFO of 16.
- `PassIsTrue`, `CleanSessionPasses` and `SerialAnswersBelong` of `HostLink`. They compare
  bytes: whether the rest of a cut answer, or a header put together from two, looks like
  a good one depends on the digits of addresses, words and sync words, which the theorems
  would have to take as hypotheses, and words are composed of their bytes by folds
  (induction over data). `PassIsTrue` asks two things: that the words are where they
  should be, and that in a session which began with a waiting firmware some run was
  acknowledged. An acknowledged run that moved nothing satisfies the second; the first is
  what refutes a PASS then.

## 5. Not modelled

- `mem_access_ctrl.sv`, the preload ports and the ownership of the memories by INIT_DONE
  (taken to be 1 in `MovementTop`); the shim through which the firmware reaches them.
- `vivado_config.sv` but for its connection of `sys_mem` to the engine, test benches and
  their memory, firmware variants, bring-up programs and unit tests, `sim/test_esp32.py`,
  synthesis and constraint files.
- `source/data_mover.py`, `irq.py` and `axi-lite.py`, which no program uses; methods of
  `serial_host.py` that nothing calls; the status hooks of `csr.py`; read directives of
  `stim.txt`, which nothing writes.
- Text formats of files, console output, drawing of tables, search for serial ports.
- Two masters on the AXI4-Lite port; byte strobes other than all ones.
- In `MovementTop`, programs that overwrite the ring itself: descriptors are
  prefetched, so their result depends on the pace. `GoldenModel` includes them.

## 6. What is left

1. `DmaSystem`: `RingManager` and `MovementTop` on one clock, shown to implement
   `DescriptorRing` with its datapath mapped to `issued` and `moving`.
2. `MemAccessCtrl` with the preload ports of `sys_mem` and the block RAM, ownership by
   INIT_DONE, and `RUN_DMA` with its budgets on `ControlPlane`.
3. Conditions on the digits under which `SerialAnswersBelong` and `PassIsTrue` of
   `HostLink` hold for every link, and their proofs.
