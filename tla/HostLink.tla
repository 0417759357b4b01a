------------------------------- MODULE HostLink ------------------------------
(***************************************************************************)
(* The serial link: a host tool sends one command after the other to the   *)
(* firmware (uart_read_write.c) and waits for the answer to each.  Bytes   *)
(* may be lost in both directions.  RUN_DMA may take longer than the host  *)
(* waits.  When a tool has ended, one may be started again, on the same    *)
(* board.                                                                  *)
(*                                                                         *)
(* One word is moved, from SRC of system memory to DST of SRAM; its ring   *)
(* stands for nothing but TAIL.  A byte is a digit of base BYTE, a word    *)
(* has WORD_BYTES of them, the lowest first (256 and 4 in the code).  The  *)
(* line of text before an answer is WORD_BYTES bytes TXT.  Every byte      *)
(* carries, as history, the command it belongs to.                         *)
(***************************************************************************)
EXTENDS Integers, Sequences, SequencesExt

CONSTANTS
  BYTE, WORD_BYTES,
  PACKET_SYNC_WORD, CMD_ACK, CMD_NACK, TXT,
  SRC, DST, WORD,                 (* the transfer and the word it moves    *)
  Tools,
  MAX_SESSIONS, LOSSY_SESSIONS, MAX_LOSS   (* bounds                       *)

CMD_WRITE_SRAM == 1
CMD_WRITE_SYSMEM == 2
CMD_WRITE_CSR == 3
CMD_RUN_DMA == 4
CMD_READ_SRAM == 6
CMD_READ_SYSMEM == 7
CMD_CRC_SRAM == 8
CMD_CRC_SYSMEM == 9
CMD_READ_CSR == 10
CSR_HEAD == 8
CSR_TAIL == 12
CSR_STATUS == 20
CSR_IRQ_STATUS == 24

VARIABLES
  up, down,                       (* bytes on the way to, from the board   *)
  losses,                         (* bytes lost so far                     *)
  tool, session,
  hstate, step, window,           (* host: state, command, last bytes      *)
  bad,                            (* host: commands that went wrong        *)
  verdict,
  fstate, sync_buffer, frame,     (* firmware: parser                      *)
  smem, sram, csr,                (* board                                 *)
  serving, clean, undisturbed, belong, ran   (* history                     *)

linkVars     == <<up, down, losses>>
hostVars     == <<tool, session, hstate, step, window, bad, verdict>>
firmwareVars == <<fstate, sync_buffer, frame>>
boardVars    == <<smem, sram, csr>>
historyVars  == <<serving, clean, undisturbed, belong, ran>>
vars == <<linkVars, hostVars, firmwareVars, boardVars, historyVars>>
-----------------------------------------------------------------------------
(* Bytes and words.                                                        *)

Bytes(word) == [i \in 1 .. WORD_BYTES |-> (word \div BYTE^(i - 1)) % BYTE]
Word(bytes) == FoldRight(LAMBDA b, w : w * BYTE + b, bytes, 0)

Values(items) == [i \in DOMAIN items |-> items[i].byte]
Drop(items, n) == SubSeq(items, n + 1, Len(items))
Take(items, n) == Values(SubSeq(items, 1, n))

(* Bytes of a command are put on a channel; one of them may get lost.      *)
Send(channel, after, bytes, from) ==
  LET items == [i \in DOMAIN bytes |-> [byte |-> bytes[i], cmd |-> from]]
  IN  \/ after = channel \o items /\ UNCHANGED <<losses, undisturbed>>
      \/ /\ losses < MAX_LOSS /\ session <= LOSSY_SESSIONS
         /\ losses' = losses + 1 /\ undisturbed' = FALSE
         /\ \E i \in DOMAIN items : after = channel \o RemoveAt(items, i)

(* The CRC of one word is one-to-one.                                      *)
Crc(word) == BYTE^WORD_BYTES - 1 - word

Zeros == [i \in 1 .. WORD_BYTES |-> 0]
-----------------------------------------------------------------------------
(* What the tools send, in order.                                          *)

Carries(op) == op \in {CMD_WRITE_SRAM, CMD_WRITE_SYSMEM, CMD_WRITE_CSR, CMD_CRC_SRAM, CMD_CRC_SYSMEM}
Returns(op) == op \in {CMD_READ_SRAM, CMD_READ_SYSMEM, CMD_CRC_SRAM, CMD_CRC_SYSMEM, CMD_READ_CSR}

Command(part, op, addr, word) == [part |-> part, op |-> op, addr |-> addr, word |-> word, expect |-> 0]

Check(op, addr, word) == [Command("verify", op, addr, WORD_BYTES) EXCEPT !.expect = word]

Packet(c) ==
  LET payload == IF Carries(c.op) THEN Bytes(c.word) ELSE <<>>
  IN  Bytes(PACKET_SYNC_WORD) \o <<c.op>> \o Bytes(c.addr) \o Bytes(Len(payload)) \o payload

Stim == <<Command("setup", CMD_WRITE_SYSMEM, SRC, WORD), Command("setup", CMD_WRITE_CSR, CSR_TAIL, 1)>>

Run == <<Command("run", CMD_RUN_DMA, 0, 0)>>

Dump ==
  <<Command("status", CMD_READ_CSR, CSR_STATUS, 0), Command("irq_status", CMD_READ_CSR, CSR_IRQ_STATUS, 0),
    Command("dump", CMD_READ_CSR, CSR_HEAD, 0), Command("dump", CMD_READ_CSR, CSR_TAIL, 0)>>

RunnerScript ==
  Stim \o Run \o Dump
  \o <<Check(CMD_READ_SRAM, DST, WORD), Check(CMD_CRC_SRAM, DST, Crc(WORD)), Check(CMD_CRC_SYSMEM, SRC, Crc(WORD))>>

(* Initial images, stim.txt, spot checks before and after the run, CRCs.   *)
SerialScript ==
  <<Command("setup", CMD_WRITE_SYSMEM, SRC, WORD), Command("setup", CMD_WRITE_SRAM, DST, 0)>>
  \o Stim \o <<Command("setup", CMD_READ_SYSMEM, SRC, 0)>>
  \o Run \o Dump
  \o <<Command("spot", CMD_READ_SRAM, DST, 0), Command("spot", CMD_READ_SYSMEM, SRC, 0),
       Check(CMD_CRC_SRAM, DST, Crc(WORD)), Check(CMD_CRC_SYSMEM, SRC, Crc(WORD))>>

Script == IF tool = "host_runner" THEN RunnerScript ELSE SerialScript

cmd == Script[step]
DumpParts == {"status", "irq_status", "dump"}
LastDump == CHOOSE i \in DOMAIN Script : Script[i].part = "dump" /\ Script[i + 1].part # "dump"
BadParts(b) == {Script[i].part : i \in b}
-----------------------------------------------------------------------------
Begin(t, s) ==
  /\ tool' = t /\ session' = s
  /\ hstate' = "send" /\ step' = 1 /\ window' = Zeros /\ bad' = {} /\ verdict' = "none"

Init ==
  /\ up = <<>> /\ down = <<>> /\ losses = 0
  /\ tool \in Tools /\ session = 1
  /\ hstate = "send" /\ step = 1 /\ window = Zeros /\ bad = {} /\ verdict = "none"
  /\ fstate = "sync" /\ sync_buffer = Zeros /\ frame = [op |-> 0, addr |-> 0, len |-> 0, word |-> 0]
  /\ smem = [a \in {SRC} |-> 0] /\ sram = [a \in {DST} |-> 0] /\ csr = [a \in {CSR_TAIL} |-> 0]
  /\ serving = <<0, 0>> /\ clean = TRUE /\ undisturbed = TRUE /\ belong = TRUE /\ ran = "none"
-----------------------------------------------------------------------------
(* Host.                                                                   *)

Transmit ==
  /\ hstate = "send"
  /\ Send(up, up', Packet(cmd), <<session, step>>)
  /\ hstate' = "scan" /\ window' = Zeros
  /\ UNCHANGED <<down, tool, session, step, bad, verdict, firmwareVars, boardVars, serving, clean, belong, ran>>

End(v) == hstate' = "end" /\ verdict' = v /\ UNCHANGED step

(* The program after a command, with the commands that went wrong.  After  *)
(* the dump a failed run ends it; host_runner.py formats IRQ_STATUS even   *)
(* when only STATUS could be read.                                         *)
Advance(b) ==
  IF step = LastDump /\ tool = "host_runner" /\ "irq_status" \in BadParts(b) /\ "status" \notin BadParts(b)
  THEN End("crash")
  ELSE IF step = LastDump /\ "run" \in BadParts(b) THEN End("fail")
  ELSE IF step = Len(Script) THEN End(IF "verify" \in BadParts(b) THEN "fail" ELSE "pass")
  ELSE step' = step + 1 /\ hstate' = "send" /\ UNCHANGED verdict

(* The command is over: result is "ok", "nack", "timeout" (no answer, or   *)
(* too little data) or "no ack" (nothing behind the sync word).            *)
RunnerCompletes(result, value) ==
  LET good == result = "ok" /\ (cmd.part = "verify" => value = cmd.expect)
  IN  /\ bad' = IF good THEN bad ELSE bad \cup {step}
      /\ IF result = "no ack" THEN End("crash")
         ELSE IF cmd.part = "setup" /\ ~good THEN End("fail")
         ELSE Advance(bad')

(* Slip: after a command without an answer the next one is sent.           *)
SerialCompletesOn(result, value) ==
  LET good == result = "ok" /\ (cmd.part = "verify" => value = cmd.expect)
  IN  bad' = (IF good THEN bad ELSE bad \cup {step}) /\ Advance(bad')

(* A failed dump is given up; every other failure ends the program, but    *)
(* for the NACK of RUN_DMA and a wrong CRC.                                *)
SerialCompletes(result, value) ==
  LET good == result = "ok" /\ (cmd.part = "verify" => value = cmd.expect)
  IN  /\ bad' = IF good THEN bad ELSE bad \cup {step}
      /\ IF result # "ok" /\ cmd.part \in DumpParts
         THEN IF "run" \in BadParts(bad) THEN End("fail")
              ELSE step' = LastDump + 1 /\ hstate' = "send" /\ UNCHANGED verdict
         ELSE IF result = "ok" \/ (cmd.part = "run" /\ result = "nack") THEN Advance(bad')
         ELSE End("fail")

(* Slip: a refused command is sent again until it is accepted.             *)
CompletesAgain(result, value) ==
  IF result = "nack" THEN hstate' = "send" /\ UNCHANGED <<step, bad, verdict>>
  ELSE IF tool = "host_runner" THEN RunnerCompletes(result, value) ELSE SerialCompletes(result, value)

Completes(result, value) ==
  IF tool = "host_runner" THEN RunnerCompletes(result, value) ELSE SerialCompletes(result, value)

(* wait_for_ack: bytes are skipped until the last ones are the sync word.  *)
Scan ==
  /\ hstate = "scan" /\ down # <<>>
  /\ down' = Tail(down)
  /\ window' = Append(Tail(window), Head(down).byte)
  /\ hstate' = IF window' = Bytes(PACKET_SYNC_WORD) THEN "ack" ELSE "scan"
  /\ UNCHANGED <<up, losses, tool, session, step, bad, verdict, firmwareVars, boardVars, historyVars>>

(* Slip: whatever follows the sync word is an acknowledgement.             *)
AcceptedAny(byte) == TRUE

Accepted(byte) == byte = CMD_ACK

TakeAck ==
  /\ hstate = "ack" /\ down # <<>>
  /\ down' = Tail(down)
  /\ belong' = (belong /\ Head(down).cmd = <<session, step>>)
  /\ IF ~Accepted(Head(down).byte) THEN Completes("nack", 0)
     ELSE IF Returns(cmd.op) THEN hstate' = "data" /\ UNCHANGED <<step, bad, verdict>>
     ELSE Completes("ok", 0)
  /\ UNCHANGED <<up, losses, tool, session, window, firmwareVars, boardVars, serving, clean, undisturbed, ran>>

TakeData ==
  /\ hstate = "data" /\ Len(down) >= WORD_BYTES
  /\ down' = Drop(down, WORD_BYTES)
  /\ Completes("ok", Word(Take(down, WORD_BYTES)))
  /\ UNCHANGED <<up, losses, tool, session, window, firmwareVars, boardVars, historyVars>>

(* The firmware waits for bytes that are not there.                        *)
Blocked ==
  \/ fstate = "sync" /\ up = <<>>
  \/ fstate = "header" /\ Len(up) < 1 + 2 * WORD_BYTES
  \/ fstate = "payload" /\ Len(up) < frame.len

(* Two seconds are enough for every answer but that of a run; 30 seconds,  *)
(* which serial_host.py gives RUN_DMA, are enough for that one too.        *)
Late == fstate = "running" /\ ~(tool = "serial_host" /\ cmd.op = CMD_RUN_DMA)

GiveUp ==
  \/ hstate \in {"scan", "ack"} /\ down = <<>>
  \/ hstate = "data" /\ Len(down) < WORD_BYTES

TimeOut ==
  /\ GiveUp /\ (Blocked \/ Late)
  /\ down' = <<>>
  /\ Completes(IF hstate = "ack" THEN "no ack" ELSE "timeout", 0)
  /\ undisturbed' = FALSE
  /\ UNCHANGED <<up, losses, tool, session, window, firmwareVars, boardVars, serving, clean, belong, ran>>

(* A tool is started again; it drops what it finds in its input buffer.    *)
Restart ==
  /\ hstate = "end" /\ session < MAX_SESSIONS
  /\ \E t \in Tools : Begin(t, session + 1)
  /\ down' = <<>>
  /\ clean' = (up = <<>> /\ fstate = "sync") /\ undisturbed' = TRUE /\ belong' = TRUE /\ ran' = "none"
  /\ UNCHANGED <<up, losses, firmwareVars, boardVars, serving>>

Host == Transmit \/ Scan \/ TakeAck \/ TakeData \/ TimeOut
-----------------------------------------------------------------------------
(* Firmware.                                                               *)

StateWaitSync ==
  /\ fstate = "sync" /\ up # <<>>
  /\ up' = Tail(up)
  /\ sync_buffer' = Append(Tail(sync_buffer), Head(up).byte)
  /\ fstate' = IF sync_buffer' = Bytes(PACKET_SYNC_WORD) THEN "header" ELSE "sync"
  /\ UNCHANGED <<down, losses, hostVars, frame, boardVars, historyVars>>

(* Slip: the word of the frame before is not cleared.                      *)
HeaderKeep(bytes) ==
  [op |-> bytes[1], addr |-> Word(SubSeq(bytes, 2, 1 + WORD_BYTES)),
   len |-> Word(SubSeq(bytes, 2 + WORD_BYTES, 1 + 2 * WORD_BYTES)), word |-> frame.word]

Header(bytes) ==
  [op |-> bytes[1], addr |-> Word(SubSeq(bytes, 2, 1 + WORD_BYTES)),
   len |-> Word(SubSeq(bytes, 2 + WORD_BYTES, 1 + 2 * WORD_BYTES)), word |-> 0]

StateReadHeader ==
  LET n == 1 + 2 * WORD_BYTES
  IN  /\ fstate = "header" /\ Len(up) >= n
      /\ frame' = Header(Take(up, n))
      /\ serving' = Head(up).cmd
      /\ up' = Drop(up, n)
      /\ fstate' = IF frame'.len > 0 THEN "payload" ELSE "process"
      /\ UNCHANGED <<down, losses, hostVars, sync_buffer, boardVars, clean, undisturbed, belong, ran>>

(* The bytes are or-ed into payload_word.                                  *)
StateReadPayload ==
  LET bytes == Take(up, IF frame.len < WORD_BYTES THEN frame.len ELSE WORD_BYTES)
      old   == Bytes(frame.word)
  IN  /\ fstate = "payload" /\ Len(up) >= frame.len
      /\ frame' = [frame EXCEPT !.word =
                     Word([i \in 1 .. WORD_BYTES |->
                             IF i \in DOMAIN bytes /\ bytes[i] > old[i] THEN bytes[i] ELSE old[i]])]
      /\ up' = Drop(up, frame.len)
      /\ fstate' = "process"
      /\ UNCHANGED <<down, losses, hostVars, sync_buffer, boardVars, historyVars>>

Text == [i \in 1 .. WORD_BYTES |-> TXT]
Answer(code) == Bytes(PACKET_SYNC_WORD) \o <<code>>

Store(mem, op) ==
  IF frame.op = op /\ frame.len >= WORD_BYTES /\ frame.addr \in DOMAIN mem
  THEN [mem EXCEPT ![frame.addr] = frame.word] ELSE mem

Load(mem) == IF frame.addr \in DOMAIN mem THEN mem[frame.addr] ELSE 0

(* A range of another length than one word has another CRC.                *)
CrcRange(mem) == IF frame.word = WORD_BYTES THEN Crc(Load(mem)) ELSE 0

Value ==
  CASE frame.op = CMD_READ_SRAM   -> Load(sram)
    [] frame.op = CMD_READ_SYSMEM -> Load(smem)
    [] frame.op = CMD_READ_CSR    -> Load(csr)
    [] frame.op = CMD_CRC_SRAM    -> CrcRange(sram)
    [] frame.op = CMD_CRC_SYSMEM  -> CrcRange(smem)

(* Unknown operations and payloads that are too short are refused.         *)
Refused ==
  \/ ~Carries(frame.op) /\ ~Returns(frame.op)
  \/ Carries(frame.op) /\ frame.len < WORD_BYTES

NextFrame == fstate' = "sync" /\ sync_buffer' = Zeros

StateProcess ==
  /\ fstate = "process" /\ frame.op # CMD_RUN_DMA
  /\ smem' = Store(smem, CMD_WRITE_SYSMEM)
  /\ sram' = Store(sram, CMD_WRITE_SRAM)
  /\ csr' = Store(csr, CMD_WRITE_CSR)
  /\ Send(down, down',
          IF Refused THEN Answer(CMD_NACK)
          ELSE Text \o Answer(CMD_ACK) \o (IF Returns(frame.op) THEN Bytes(Value) ELSE <<>>), serving)
  /\ NextFrame
  /\ UNCHANGED <<up, hostVars, frame, serving, clean, belong, ran>>

(* RUN_DMA: reset and restored registers leave TAIL as it was.             *)
RunDma ==
  /\ fstate = "process" /\ frame.op = CMD_RUN_DMA
  /\ IF csr[CSR_TAIL] = 0
     THEN Send(down, down', Text \o Text \o Answer(CMD_NACK), serving) /\ NextFrame
     ELSE Send(down, down', Text, serving) /\ fstate' = "running" /\ UNCHANGED sync_buffer
  /\ UNCHANGED <<up, hostVars, frame, boardVars, serving, clean, belong, ran>>

(* Polling has ended: the engine is done and has or has not moved the      *)
(* word, or it has shown an error, or the budget is used up.               *)
RunEnds ==
  /\ fstate = "running"
  /\ \/ /\ sram' = [sram EXCEPT ![DST] = smem[SRC]]
        /\ ran' = "right" /\ Send(down, down', Text \o Answer(CMD_ACK), serving)
     \/ /\ ran' = "wrong" /\ Send(down, down', Text \o Answer(CMD_ACK), serving) /\ UNCHANGED sram
     \/ /\ ran' = "refused" /\ Send(down, down', Text \o Answer(CMD_NACK), serving) /\ UNCHANGED sram
  /\ NextFrame
  /\ UNCHANGED <<up, hostVars, frame, smem, csr, serving, clean, belong>>

Firmware == StateWaitSync \/ StateReadHeader \/ StateReadPayload \/ StateProcess \/ RunDma \/ RunEnds
-----------------------------------------------------------------------------
Stop == hstate = "end" /\ session = MAX_SESSIONS /\ UNCHANGED vars

Next == Host \/ Firmware \/ Restart \/ Stop

Spec == Init /\ [][Next]_vars

(* Both programs run; budgets and timeouts end every wait.                 *)
FairSpec == Spec /\ WF_vars(Host) /\ WF_vars(Firmware)
-----------------------------------------------------------------------------
(* Properties.                                                             *)

Moved == smem[SRC] = WORD /\ sram[DST] = WORD

(* PASS is never reported by mistake: the board holds the word at both     *)
(* ends, whatever was lost or came late, and when the session found the    *)
(* firmware waiting, a run of this session has ended well.                 *)
PassIsTrue ==
  verdict = "pass" => Moved /\ (clean => ran # "none" /\ ran # "refused")

(* A session that nothing disturbs passes if the engine does its work,     *)
(* whatever an earlier session has left in the parser and the memories.    *)
CleanSessionPasses ==
  hstate = "end" /\ clean /\ undisturbed /\ ran = "right" => verdict = "pass"

(* An acknowledgement is taken by the command it answers.                  *)
AnswersBelong == belong

(* serial_host.py, which waits for the end of every run and stops when a   *)
(* command fails, never takes a late answer for another command.           *)
SerialAnswersBelong == tool = "serial_host" /\ clean => AnswersBelong

(* Every session ends: host and firmware never wait for each other.        *)
SessionEnds == []<>(hstate = "end")
=============================================================================
