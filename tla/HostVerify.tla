----------------------------- MODULE HostVerify ------------------------------
(***************************************************************************)
(* What the host tools conclude.  When the software model has produced its *)
(* files, one tool judges: dry_run of serial_host.py checks the model      *)
(* alone; serial_host.py and host_runner.py load a board, run its engine   *)
(* and compare.  The engine does its work, or loses a transfer, or damages *)
(* one word of either memory, or ends with NACK.  The serial link is       *)
(* perfect here (HostLink has the other one) and a CRC stands for the      *)
(* words it is taken over.                                                 *)
(***************************************************************************)
EXTENDS GoldenModel, FiniteSetsExt

CONSTANTS
  Tools,      (* tools that may be started                                *)
  Stale,      (* words an earlier test may have left all over the board   *)
  Damage,     (* words a failing engine writes                            *)
  Displays    (* subset of BOOLEAN: host_runner with --viz                *)

(* A memory holds words.                                                   *)
ASSUME HostAssumption == Stale \subseteq Nat

VARIABLES
  tool, phase, verdict,
  board,                      (* memories and registers of the board      *)
  todo,                       (* lines of stim.txt still to send          *)
  image, csr_writes,          (* host_runner: what has been sent          *)
  transfers, checked,         (* host_runner: transfers, how many judged  *)
  outcome, lost,              (* history: what the engine did             *)
  pipe, viewing, expected, actual

V == INSTANCE Viz

displayVars == <<pipe, viewing, expected, actual>>
boardVars  == <<board, outcome, lost>>
hostVars   == <<tool, phase, verdict, todo, image, csr_writes, transfers, checked>>
verifyVars == <<goldenVars, boardVars, hostVars, displayVars>>

vInit ==
  /\ Init
  /\ tool = "none" /\ phase = "golden" /\ verdict = "none"
  /\ board = Blank /\ outcome = "none" /\ lost = 0
  /\ todo = <<>> /\ image = [smem |-> <<>>, sram |-> <<>>] /\ csr_writes = [TAIL |-> 0, BASEADDR |-> 0]
  /\ transfers = <<>> /\ checked = 0
  /\ V!vizInit
-----------------------------------------------------------------------------
(* The model runs first; a tool starts with the files it has written.      *)

RunGolden ==
  phase = "golden" /\ (Setup \/ EventLoop) /\ UNCHANGED <<boardVars, hostVars, displayVars>>

Start ==
  /\ phase = "golden" /\ pc \in {"done", "raised"}
  /\ \E t \in Tools, w \in Stale, display \in Displays :
       /\ pc = "raised" => t = "dry_run"
       /\ tool' = t
       /\ viewing' = (display /\ t = "host_runner")
       /\ board' = [Blank EXCEPT !.smem = [a \in DOMAIN @ |-> w], !.sram = [a \in DOMAIN @ |-> w]]
       /\ phase' = CASE t = "dry_run" -> "verify" [] t = "serial_host" -> "clear" [] OTHER -> "send"
  /\ todo' = stim
  /\ UNCHANGED <<goldenVars, outcome, lost, verdict, image, csr_writes, transfers, checked,
                 pipe, expected, actual>>
-----------------------------------------------------------------------------
(* Loading the board.                                                      *)

Over(mem, words) == [a \in DOMAIN mem |-> IF words[a] # 0 THEN words[a] ELSE mem[a]]

(* Slip: only words that are not zero are sent.                            *)
ClearMemoriesNonZero ==
  /\ phase = "clear"
  /\ board' = [board EXCEPT !.smem = Over(@, initial.smem), !.sram = Over(@, initial.sram)]
  /\ phase' = "send"
  /\ UNCHANGED <<goldenVars, outcome, lost, tool, verdict, todo, image, csr_writes, transfers, checked, displayVars>>

(* serial_host.py writes every word of both images first.                  *)
ClearMemories ==
  /\ phase = "clear"
  /\ board' = [board EXCEPT !.smem = initial.smem, !.sram = initial.sram]
  /\ phase' = "send"
  /\ UNCHANGED <<goldenVars, outcome, lost, tool, verdict, todo, image, csr_writes, transfers, checked, displayVars>>

Put(map, key, value) == [x \in DOMAIN map \cup {key} |-> IF x = key THEN value ELSE map[x]]

(* host_runner.py remembers the last value sent to each place.             *)
SendLine ==
  LET line == Head(todo)
  IN  /\ phase = "send" /\ todo # <<>>
      /\ board' = Replay(board, line)
      /\ todo' = Tail(todo)
      /\ IF tool = "host_runner"
         THEN CASE line.op = "csr_write" ->
                     csr_writes' = Put(csr_writes, line.addr, line.data) /\ UNCHANGED image
                [] line.op = "sysmem_write" ->
                     image' = [image EXCEPT !.smem = Put(@, line.addr, line.data)] /\ UNCHANGED csr_writes
                [] line.op = "sram_write" ->
                     image' = [image EXCEPT !.sram = Put(@, line.addr, line.data)] /\ UNCHANGED csr_writes
         ELSE UNCHANGED <<image, csr_writes>>
      /\ UNCHANGED <<goldenVars, outcome, lost, tool, phase, verdict, transfers, checked, displayVars>>

Sent(map, addr) == IF addr \in DOMAIN map THEN map[addr] ELSE 0

(* Slip: the source is walked in steps of one byte.                        *)
SourceWordUnscaled(map, addr, j) == Sent(map, addr + j - 1)

SourceWord(map, addr, j) == Sent(map, addr + 4 * (j - 1))

(* One entry of the ring walk, with the words that should arrive, taken    *)
(* from what was sent.                                                     *)
Transfer(i) ==
  LET at(k) == Sent(image.smem, csr_writes.BASEADDR + 16 * (i - 1) + 4 * (k - 1))
      d == [k \in 1 .. DESC_WORDS |-> at(k)]
      source == IF ToSram(d) THEN image.smem ELSE image.sram
  IN  [desc |-> d, words |-> [j \in 1 .. Beats(d) |-> SourceWord(source, Src(d), j)]]

WalkRing ==
  /\ phase = "send" /\ todo = <<>> /\ tool = "host_runner"
  /\ transfers' = [i \in 1 .. csr_writes.TAIL |-> Transfer(i)]
  /\ phase' = "run"
  /\ UNCHANGED <<goldenVars, boardVars, tool, verdict, todo, image, csr_writes, checked, displayVars>>

StimSent ==
  /\ phase = "send" /\ todo = <<>> /\ tool = "serial_host"
  /\ phase' = "run"
  /\ UNCHANGED <<goldenVars, boardVars, tool, verdict, todo, image, csr_writes, transfers, checked, displayVars>>
-----------------------------------------------------------------------------
(* The engine, on the ring that is in the board's memory.                  *)

BoardDescs ==
  [k \in 1 .. board.regs.TAIL |->
     ReadWords(board.smem, (board.regs.BASEADDR \div 4) + DESC_WORDS * (k - 1), DESC_WORDS)]

DestinationOf(d) == IF ToSram(d) THEN "sram" ELSE "smem"

(* The memories after the first k descriptors.                             *)
Runs(m, descs) ==
  LET after[k \in 0 .. Len(descs)] == IF k = 0 THEN m ELSE Copy(after[k - 1], descs[k])
  IN  after

Run(descs) == Runs(board, descs)[Len(descs)]

(* An empty ring is refused.  A descriptor of no words is no work for the  *)
(* engine to get right: see Axi4Master.                                    *)
RunDma ==
  /\ phase = "run"
  /\ \/ /\ BoardDescs # <<>> /\ \A k \in DOMAIN BoardDescs : Beats(BoardDescs[k]) > 0
        /\ board' = Run(BoardDescs)
        /\ outcome' = "right" /\ phase' = "verify" /\ UNCHANGED <<lost, verdict>>
     \/ \E k \in DOMAIN BoardDescs :
          /\ board' = Run(RemoveAt(BoardDescs, k))
          /\ outcome' = "lost" /\ lost' = k /\ phase' = "verify" /\ UNCHANGED verdict
     \/ \E region \in V!Regions, word \in Damage : \E a \in DOMAIN board[region] :
          /\ BoardDescs # <<>>
          /\ board' = [Run(BoardDescs) EXCEPT ![region][a] = word]
          /\ outcome' = "damaged" /\ phase' = "verify" /\ UNCHANGED <<lost, verdict>>
     \/ \E n \in 0 .. Len(BoardDescs) :
          /\ board' = Run(SubSeq(BoardDescs, 1, n))
          /\ outcome' = "refused" /\ verdict' = "fail" /\ phase' = "end" /\ UNCHANGED lost
  /\ UNCHANGED <<goldenVars, tool, todo, image, csr_writes, transfers, checked, displayVars>>
-----------------------------------------------------------------------------
(* host_runner.py: verify_one_transfer.                                    *)

Words(region, addr, n) == ReadWords(board[region], addr \div 4, n)

SourceOf(d) == IF ToSram(d) THEN "smem" ELSE "sram"

Cells(addr, words) == [j \in DOMAIN words |-> V!Cell(addr + 4 * (j - 1), words[j], "shown")]

ShownWords(region, addr, words) ==
  [j \in DOMAIN words |-> [type |-> "actual", region |-> region, addr |-> addr + 4 * (j - 1), value |-> words[j]]]

Ticks(status, region, addr, n) ==
  [j \in 1 .. n |-> [type |-> status, region |-> region, addr |-> addr + 4 * (j - 1)]]

(* Slip: the CRC of the source is not asked for.                           *)
IntactUnchecked(t) ==
  Words(DestinationOf(t.desc), Dst(t.desc), Beats(t.desc)) = t.words

Intact(t) ==
  /\ Words(DestinationOf(t.desc), Dst(t.desc), Beats(t.desc)) = t.words
  /\ Words(SourceOf(t.desc), Src(t.desc), Beats(t.desc)) = t.words

(* Expected cells, then each cell as it is read.                           *)
Announce(t) ==
  LET d == t.desc  n == Beats(t.desc)
  IN  <<[type |-> "expected", region |-> DestinationOf(d), cells |-> Cells(Dst(d), t.words)],
        [type |-> "expected", region |-> SourceOf(d), cells |-> Cells(Src(d), t.words)]>>
      \o ShownWords(DestinationOf(d), Dst(d), Words(DestinationOf(d), Dst(d), n))
      \o ShownWords(SourceOf(d), Src(d), Words(SourceOf(d), Src(d), n))

Verdicts(t) ==
  LET d == t.desc  n == Beats(t.desc)
      status(region, addr) == IF Words(region, addr, n) = t.words THEN "match" ELSE "fail"
  IN  Ticks(status(DestinationOf(d), Dst(d)), DestinationOf(d), Dst(d), n)
      \o Ticks(status(SourceOf(d), Src(d)), SourceOf(d), Src(d), n)

(* A transfer of no words is skipped and counts as passed.                 *)
VerifyTransfer ==
  LET t == transfers[checked + 1]
  IN  /\ phase = "verify" /\ tool = "host_runner" /\ checked < Len(transfers)
      /\ verdict' = IF Beats(t.desc) = 0 \/ Intact(t) THEN verdict ELSE "fail"
      /\ IF Beats(t.desc) = 0 THEN UNCHANGED displayVars
         ELSE V!Send(Announce(t) \o Verdicts(t)) /\ UNCHANGED <<viewing, expected, actual>>
      /\ checked' = checked + 1
      /\ UNCHANGED <<goldenVars, boardVars, tool, phase, todo, image, csr_writes, transfers>>

Report ==
  /\ phase = "verify" /\ tool = "host_runner" /\ checked = Len(transfers)
  /\ verdict' = IF verdict = "none" THEN "pass" ELSE "fail"
  /\ phase' = "end"
  /\ UNCHANGED <<goldenVars, boardVars, tool, todo, image, csr_writes, transfers, checked, displayVars>>
-----------------------------------------------------------------------------
(* serial_host.py: two CRCs.                                               *)

Changed == {a \in DOMAIN sram : initial.sram[a] # sram[a]}
NonZero == {a \in DOMAIN initial.smem : initial.smem[a] # 0}

SameOn(S, mem1, mem2) == S # {} => \A a \in Min(S) .. Max(S) : mem1[a] = mem2[a]

(* Slip: the last changed word is left out of the range.                   *)
SerialPassesShort ==
  /\ Changed # {}
  /\ SameOn(Changed \ {Max(Changed)}, board.sram, sram)
  /\ SameOn(NonZero, board.smem, initial.smem)

(* The words of SRAM between the first and the last that the model changed *)
(* and the words of system memory between the first and the last preloaded.*)
SerialPasses ==
  /\ Changed # {}
  /\ SameOn(Changed, board.sram, sram)
  /\ SameOn(NonZero, board.smem, initial.smem)

VerifyCrcs ==
  /\ phase = "verify" /\ tool = "serial_host"
  /\ verdict' = IF SerialPasses THEN "pass" ELSE "fail"
  /\ phase' = "end"
  /\ UNCHANGED <<goldenVars, boardVars, tool, todo, image, csr_writes, transfers, checked, displayVars>>
-----------------------------------------------------------------------------
(* serial_host.py --dry-run: the model against itself, from its memories   *)
(* before and after.  A scenario that raises fails.                        *)

(* Words outside a memory are skipped.                                     *)
Agree(d, from, to) ==
  \A j \in 0 .. Beats(d) - 1 :
    LET sw == (Src(d) \div 4) + j  dw == (Dst(d) \div 4) + j
    IN  sw \in DOMAIN from /\ dw \in DOMAIN to => to[dw] = from[sw]

(* Slip: a download is compared with SRAM as it was before the run.        *)
SelfCheckInitial(d) ==
  IF ToSram(d) THEN Agree(d, initial.smem, sram) ELSE Agree(d, initial.sram, sysmem)

SelfCheck(d) ==
  IF ToSram(d) THEN Agree(d, initial.smem, sram) ELSE Agree(d, sram, sysmem)

DryRun ==
  /\ phase = "verify" /\ tool = "dry_run"
  /\ verdict' = IF pc = "done" /\ \A k \in DOMAIN posted : SelfCheck(posted[k].desc)
                THEN "pass" ELSE "fail"
  /\ phase' = "end"
  /\ UNCHANGED <<goldenVars, boardVars, tool, todo, image, csr_writes, transfers, checked, displayVars>>
-----------------------------------------------------------------------------
Display ==
  (V!stdin_reader \/ (tool = "host_runner" /\ V!Interrupt)) /\ UNCHANGED <<goldenVars, boardVars, hostVars>>

Stop == phase = "end" /\ pipe = <<>> /\ UNCHANGED verifyVars

Host ==
  \/ Start \/ ClearMemories \/ SendLine \/ WalkRing \/ StimSent \/ RunDma
  \/ VerifyTransfer \/ Report \/ VerifyCrcs \/ DryRun

vNext == RunGolden \/ Host \/ Display \/ Stop

vSpec == vInit /\ [][vNext]_verifyVars
-----------------------------------------------------------------------------
(* Properties.                                                             *)

Place(region, addr, n) == {region} \X (addr \div 4 .. (addr \div 4) + n - 1)

Source(k)      == LET d == posted[k].desc IN Place(SourceOf(d), Src(d), Beats(d))
Destination(k) == LET d == posted[k].desc IN Place(DestinationOf(d), Dst(d), Beats(d))

(* A later transfer writes what this one read or wrote; an earlier one     *)
(* wrote what this one reads.                                              *)
Overwritten(k) ==
  \E j \in DOMAIN posted : j > k /\ Destination(j) \cap (Source(k) \cup Destination(k)) # {}

Chained(k) == \E j \in DOMAIN posted : j < k /\ Destination(j) \cap Source(k) # {}

Golden(place) == IF place[1] = "sram" THEN sram[place[2]] ELSE sysmem[place[2]]

(* Every word of every source was sent to the board.                       *)
Preloaded(k) ==
  \A p \in Source(k) : 4 * p[2] \in DOMAIN image[p[1]]

(* host_runner.py is sound although it expects the words as they were      *)
(* before the run: when it reports PASS of a scenario with an enable row,  *)
(* every destination holds what the software model put there, whether or   *)
(* not transfers are chained and whatever the board held before.           *)
RunnerPassIsRight ==
  tool = "host_runner" /\ verdict = "pass" /\ Csr!is_enabled(regs) =>
    \A k \in DOMAIN posted : \A p \in Destination(k) : board[p[1]][p[2]] = Golden(p)

(* It accepts a board that works, when no transfer touches what another    *)
(* reads or writes and the stimulus has every source word.                 *)
RunnerAcceptsIndependent ==
  /\ tool = "host_runner" /\ phase = "end" /\ outcome = "right"
  /\ \A k \in DOMAIN posted : ~Overwritten(k) /\ ~Chained(k) /\ Preloaded(k)
  => verdict = "pass"

(* serial_host.py fails a board that lost a transfer to SRAM whenever SRAM *)
(* shows it, although it looks at one range of SRAM only: when all go to   *)
(* SRAM and none is overwritten.                                           *)
SerialCatchesLost ==
  /\ tool = "serial_host" /\ phase = "end" /\ outcome = "lost" /\ Csr!is_enabled(regs)
  /\ \A k \in DOMAIN posted : ToSram(posted[k].desc) /\ ~Overwritten(k)
  /\ Runs(initial, RemoveAt(PostedDescs, lost))[Len(posted) - 1].sram # sram
  => verdict = "fail"

(* It accepts a board that works when all transfers go to SRAM and change  *)
(* something, whatever an earlier test left in the memories.               *)
SerialAcceptsUploads ==
  /\ tool = "serial_host" /\ phase = "end" /\ outcome = "right"
  /\ Changed # {}
  /\ \A k \in DOMAIN posted : ToSram(posted[k].desc)
  => verdict = "pass"

(* The dry run accepts every scenario in which no transfer is overwritten  *)
(* later and only transfers out of SRAM read what another one wrote.       *)
DryRunAccepts ==
  /\ tool = "dry_run" /\ phase = "end" /\ pc = "done"
  /\ Csr!is_enabled(regs)
  /\ \A k \in DOMAIN posted : ~Overwritten(k) /\ (Chained(k) => ~ToSram(posted[k].desc))
  => verdict = "pass"

(* The display never ticks a cell that shows another word than expected,   *)
(* and when the host has reported PASS and all events are handled, every   *)
(* cell has its tick.                                                      *)
TicksAreTrue ==
  /\ \A r \in V!Regions : \A i \in DOMAIN actual[r] :
       actual[r][i].status = "match" =>
         \E j \in DOMAIN expected[r] :
           expected[r][j].addr = actual[r][i].addr /\ expected[r][j].value = actual[r][i].value
  /\ viewing /\ pipe = <<>> /\ phase = "end" /\ verdict = "pass" =>
       \A r \in V!Regions : \A i \in DOMAIN actual[r] : actual[r][i].status = "match"

(* What "PASS / FAIL" of the tools promises of a board that works.         *)
RightBoardPasses ==
  outcome = "right" /\ phase = "end" /\ Csr!is_enabled(regs) => verdict = "pass"
=============================================================================
