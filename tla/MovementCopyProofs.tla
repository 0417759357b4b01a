------------------------ MODULE MovementCopyProofs -------------------------
(***************************************************************************)
(* The datapath moves what executing the descriptors one at a time moves   *)
(* (CopiesInOrder of MovementTop), for every program, FIFO depth, limit on *)
(* descriptors in flight and length of a burst.                            *)
(*                                                                         *)
(* The invariant follows every descriptor.  Before the check the places of *)
(* the pipeline hold descriptors requested - BeforeCheck + 1 to requested  *)
(* of the program; behind it they hold, in order, those that passed, from  *)
(* number transfers + 1 on.  The two engines work on that one: what the    *)
(* mid FIFO holds are the words of its source that were read and not yet   *)
(* written, and both memories are those before it with the written words.  *)
(*                                                                         *)
(* The last part bounds how far the SRAM controller reads ahead of the AXI *)
(* master, so that the mid FIFO is never full (ReadAheadNeverStalls).      *)
(***************************************************************************)
EXTENDS MovementTopProofs, FiniteSetTheorems, WellFoundedInduction

(* What the engine is made for: a good descriptor has at least one word,   *)
(* lies inside the data part of system memory and inside the block RAM,    *)
(* and a descriptor fits a burst.                                          *)
Words(desc) == desc[3] % LEN_RANGE

Within(desc) ==
  /\ Words(desc) > 0
  /\ IF desc[4] = 1
     THEN desc[1] + Words(desc) <= DATA_WORDS /\ desc[2] + Words(desc) <= BRAM_SIZE
     ELSE desc[1] + Words(desc) <= BRAM_SIZE /\ desc[2] + Words(desc) <= DATA_WORDS

Executable(p) == \A k \in 1 .. Len(p) : ~Bad(p[k]) => Within(p[k])

(* Behind a download longer than the mid FIFO the master fetches whatever  *)
(* is in flight before it turns to the download, rejected descriptors      *)
(* included, eight edges each, and the read-ahead fills the FIFO meanwhile *)
(* by a word per edge.  The FIFO is deep enough for the descriptors        *)
(* k + 1 .. d that can be in flight together.                              *)
FETCH_EDGES == DESC_WORDS + 4

KeepsUp(p) ==
  \A k \in 1 .. Len(p), d \in 1 .. Len(p) :
    /\ k <= d /\ ~Bad(p[k]) /\ p[k][4] # 1 /\ Words(p[k]) > MID_FIFO_Q
    /\ Cardinality({j \in k + 1 .. d : ~Bad(p[j])}) < MAX_INFLIGHT
    => FETCH_EDGES * (d - k) + 3 < MID_FIFO_Q
-----------------------------------------------------------------------------
(* The i-th descriptor that passes the check.                              *)
Passed(c) == Cardinality({j \in 1 .. c : ~Bad(program[j])})

Nth(i) == CHOOSE k \in 1 .. Len(program) : ~Bad(program[k]) /\ Passed(k) = i

Accepted == [i \in Nat |-> program[Nth(i)]]
AxiPart  == [i \in Nat |-> Mover!AxiInstr(program[Nth(i)])]
SramPart == [i \in Nat |-> Mover!SramInstr(program[Nth(i)])]
Slots    == [i \in Nat |-> RingSlot(i)]

(* The words of q are those of the list h behind its b-th.                 *)
InLine(q, h, b) == \A i \in 1 .. Len(q) : q[i] = h[b + i]

(* How many descriptors have left the check; which one is being fetched.   *)
Checks  == requested - BeforeCheck
Fetched == Checks + Len(df_out_q) + 1

AxiBusy   == One(axi_state \in AxiMoves)
SramBusy  == One(sram_state \in SramMoves)
MoverBusy == One(dm_state # "GET_DATA")

(* The ring is as software left it, and the handles name its slots.        *)
RingKept == \A a \in DATA_WORDS .. MEM_WORDS - 1 : ram[a] = InitialRam(program)[a]

FetchOrder ==
  /\ requested <= Len(program)
  /\ InLine(df_out_q, program, Checks)
  /\ InLine(df_in_q, Slots, Checks + Len(df_out_q) + One(axi_state \in AxiFetches))
  /\ df_in_din # None => df_in_din = RingSlot(requested)

(* The burst that fetches a descriptor.                                    *)
FetchBurst ==
  /\ axi_state \in AxiFetches => axi_addr = RingSlot(Fetched)
  /\ axi_state = "s_df_ar" => axi_len = DESC_WORDS /\ axi_beat = 0
  /\ axi_state = "s_df_r" =>
       /\ r_addr = axi_addr /\ r_last_beat = DESC_WORDS - 1 /\ r_beat = axi_beat
       /\ axi_beat < DESC_WORDS
       /\ \A w \in 1 .. axi_beat : desc_buf[w] = program[Fetched][w]
  /\ axi_state = "s_df_push" => desc_buf = program[Fetched]

MoveOrder ==
  /\ transfers \in Nat
  /\ Passed(Checks) = transfers + AxiHalves + Checked
  /\ dm_in_din # None => dm_in_din = program[Nth(Passed(Checks))]
  /\ InLine(desc_q, Accepted, transfers + AxiHalves + MoverBusy)
  /\ dm_state # "GET_DATA" => input_data = program[Nth(transfers + AxiHalves + 1)]
  /\ dm_state = "SEND_INSTR" =>
       instr_axi = Mover!AxiInstr(input_data) /\ instr_sram = Mover!SramInstr(input_data)
  /\ InLine(dm_axi_q, AxiPart, transfers + AxiBusy)
  /\ InLine(dm_sram_q, SramPart, transfers + SramBusy)

(* The slave follows the master.                                           *)
SlaveFollows ==
  /\ r_state = IF axi_state \in {"s_df_r", "s_dm_rd_r"} THEN "R_ISSUE" ELSE "R_IDLE"
  /\ w_state = "W_DATA" <=> axi_state = "s_dm_wr_w"
-----------------------------------------------------------------------------
(* The transfer at work, and the memories before it.                       *)
Now    == program[Nth(transfers + 1)]
Up     == Now[4] = 1
Before == Golden[IF transfers = 0 THEN 0 ELSE Nth(transfers)]

AxiWords ==
  IF axi_state = "s_dm_rd_r" THEN r_beat
  ELSE IF axi_state = "s_dm_wr_w" THEN axi_beat
  ELSE IF axi_state \in {"s_dm_wr_b", "s_wait_sram"} THEN Words(Now) ELSE 0

SramWords ==
  IF sram_state \in {"s_writing", "s_reading"} THEN sram_beat
  ELSE IF sram_state = "s_wait_axi4master" THEN Words(Now) ELSE 0

ReadSoFar  == IF Up THEN AxiWords ELSE SramWords
WroteSoFar == IF Up THEN SramWords ELSE AxiWords

Source == [i \in Nat |-> IF Up THEN Before.ram[Now[1] + i - 1] ELSE Before.mem[Now[1] + i - 1]]

(* The first n words of the source at the destination.                     *)
Copied(to, n) ==
  [a \in DOMAIN to |-> IF a \in Now[2] .. Now[2] + n - 1 THEN Source[a - Now[2] + 1] ELSE to[a]]

AxiBurst ==
  /\ axi_state \in AxiMoves => axi_addr = Mover!AxiInstr(Now).addr /\ axi_len = Words(Now)
  /\ axi_state \in {"s_dm_rd_ar", "s_dm_rd_r"} => Up
  /\ axi_state \in {"s_dm_wr_aw", "s_dm_wr_w", "s_dm_wr_b"} => ~Up
  /\ axi_state = "s_dm_rd_r" => r_addr = axi_addr /\ r_last_beat = axi_len - 1 /\ r_beat < axi_len
  /\ axi_state = "s_dm_wr_w" => w_addr = axi_addr /\ w_beat = axi_beat /\ axi_beat < axi_len

SramBurst ==
  /\ sram_state \in {"s_writing", "s_reading"} =>
       sram_len = Words(Now) /\ sram_beat \in Nat /\ sram_beat < sram_len
  /\ sram_state = "s_writing" => Up /\ sram_addr = Now[2] + sram_beat
  /\ sram_state = "s_reading" =>
       ~Up /\ sram_addr = Now[1] + sram_beat + 1 /\ dout = Before.mem[Now[1] + sram_beat]

CopyState ==
  /\ WroteSoFar <= ReadSoFar
  /\ Len(mid_q) = ReadSoFar - WroteSoFar
  /\ InLine(mid_q, Source, WroteSoFar)
  /\ ram = IF Up THEN Before.ram ELSE Copied(Before.ram, WroteSoFar)
  /\ mem = IF Up THEN Copied(Before.mem, WroteSoFar) ELSE Before.mem

ProgramOK == program \in Seq(Descriptors) /\ Executable(program)

OrderInv == RingKept /\ FetchOrder /\ FetchBurst /\ MoveOrder /\ SlaveFollows
CopyInv  == AxiBurst /\ SramBurst /\ (AxiHalves > 0 => CopyState)
IdleInv  == AxiHalves = 0 => mid_q = <<>> /\ ram = Before.ram /\ mem = Before.mem

DataInv == MovementInv /\ ProgramOK /\ OrderInv /\ CopyInv /\ IdleInv
-----------------------------------------------------------------------------
(* Induction by the least counterexample.                                  *)

(* A set of numbers that is not empty has a least one.                     *)
LEMMA Least ==
  ASSUME NEW S \in SUBSET Nat, S # {}
  PROVE  \E m \in S : \A n \in S : m <= n
<1> DEFINE R == OpToRel(<, Nat)
<1>1. \A x, y \in Nat : x < y => <<x, y>> \in R
  BY DEF OpToRel
<1>2. IsWellFoundedOn(R, Nat)
  BY NatLessThanWellFounded
<1> HIDE DEF R
<1>3. \E x \in S : \A y \in S : ~(<<y, x>> \in R)
  BY <1>2, WFMin
<1>4. PICK m \in S : \A y \in S : ~(<<y, m>> \in R)
  BY <1>3
<1>5. \A y \in S : ~(y < m)
  BY <1>1, <1>4
<1>6. \A y \in S : m <= y
  BY <1>5
<1> QED BY <1>6
-----------------------------------------------------------------------------
(* The descriptors that pass the check, counted.                           *)

(* Those among the first c are finitely many.                              *)
LEMMA PassedNat ==
  ASSUME NEW c \in Nat
  PROVE  /\ IsFiniteSet({j \in 1 .. c : ~Bad(program[j])})
         /\ Passed(c) \in Nat
<1>1. IsFiniteSet(1 .. c)
  BY FS_Interval
<1>2. IsFiniteSet({j \in 1 .. c : ~Bad(program[j])})
  BY <1>1, FS_Subset
<1> QED BY <1>2, FS_CardinalityType DEF Passed

(* None of none.                                                           *)
LEMMA PassedZero == Passed(0) = 0
<1>1. {j \in 1 .. 0 : ~Bad(program[j])} = {}
  OBVIOUS
<1> QED BY <1>1, FS_EmptySet DEF Passed

(* One more descriptor adds one or nothing.                                *)
LEMMA PassedNext ==
  ASSUME NEW c \in Nat
  PROVE  Passed(c + 1) = Passed(c) + One(~Bad(program[c + 1]))
<1> DEFINE S(n) == {j \in 1 .. n : ~Bad(program[j])}
<1>1. IsFiniteSet(S(c)) /\ Passed(c) \in Nat
  BY PassedNat
<1>2. CASE Bad(program[c + 1])
  <2>1. S(c + 1) = S(c)
    BY <1>2
  <2> HIDE DEF S
  <2>2. Cardinality(S(c + 1)) = Cardinality(S(c))
    BY <2>1
  <2> QED BY <1>1, <1>2, <2>2 DEF Passed, One, S
<1>3. CASE ~Bad(program[c + 1])
  <2>1. S(c + 1) = S(c) \cup {c + 1} /\ c + 1 \notin S(c)
    BY <1>3
  <2> HIDE DEF S
  <2>2. Cardinality(S(c) \cup {c + 1}) = Cardinality(S(c)) + 1
    BY <1>1, <2>1, FS_AddElement
  <2> QED BY <1>3, <2>1, <2>2 DEF Passed, One, S
<1> QED BY <1>2, <1>3

(* More descriptors, not fewer that pass.                                  *)
LEMMA PassedGrows ==
  ASSUME NEW c \in Nat, NEW d \in Nat, c <= d
  PROVE  Passed(c) <= Passed(d)
<1> DEFINE S(n) == {j \in 1 .. n : ~Bad(program[j])}
<1>1. S(c) \subseteq S(d) /\ IsFiniteSet(S(d))
  BY PassedNat
<1> HIDE DEF S
<1> QED BY <1>1, FS_Subset DEF Passed, S

(* The descriptor that passes is the one of its number.                    *)
LEMMA NthOf ==
  ASSUME NEW k \in 1 .. Len(program), Len(program) \in Nat, ~Bad(program[k])
  PROVE  Nth(Passed(k)) = k
<1>1. \A x, y \in 1 .. Len(program) : x < y /\ ~Bad(program[y]) => Passed(x) < Passed(y)
  <2> SUFFICES ASSUME NEW x \in 1 .. Len(program), NEW y \in 1 .. Len(program),
                      x < y, ~Bad(program[y])
               PROVE  Passed(x) < Passed(y)
    OBVIOUS
  <2>1. y - 1 \in Nat /\ x \in Nat /\ x <= y - 1 /\ (y - 1) + 1 = y
    OBVIOUS
  <2>2. Passed((y - 1) + 1) = Passed(y - 1) + One(~Bad(program[(y - 1) + 1]))
    BY <2>1, PassedNext
  <2>3. Passed(y) = Passed(y - 1) + 1
    BY <2>1, <2>2 DEF One
  <2>4. Passed(x) <= Passed(y - 1) /\ Passed(x) \in Nat /\ Passed(y - 1) \in Nat
    BY <2>1, PassedGrows, PassedNat
  <2> QED BY <2>3, <2>4
<1>2. ASSUME NEW x \in 1 .. Len(program) PROVE Passed(x) \in Nat
  <2>1. x \in Nat
    OBVIOUS
  <2> QED BY <2>1, PassedNat
<1>3. \A x \in 1 .. Len(program) : ~Bad(program[x]) /\ Passed(x) = Passed(k) => x = k
  BY <1>1, <1>2
<1> QED BY <1>3 DEF Nth

(* Every number up to Passed(c) is that of a descriptor among the first c. *)
LEMMA NthIs ==
  ASSUME Len(program) \in Nat, NEW c \in 0 .. Len(program), NEW i \in Nat, 1 <= i, i <= Passed(c)
  PROVE  /\ Nth(i) \in 1 .. c /\ ~Bad(program[Nth(i)]) /\ Passed(Nth(i)) = i
         /\ Nth(i) - 1 \in Nat /\ Passed(Nth(i) - 1) = i - 1
<1> DEFINE S == {n \in 0 .. c : i <= Passed(n)}
<1>1. S \in SUBSET Nat /\ S # {}
  OBVIOUS
<1>2. PICK m \in S : \A n \in S : m <= n
  <2> HIDE DEF S
  <2> QED BY <1>1, Least
<1>3. m \in 0 .. c /\ i <= Passed(m) /\ m # 0
  BY <1>2, PassedZero
<1>4. m - 1 \in Nat /\ m - 1 \notin S /\ m - 1 \in 0 .. c /\ (m - 1) + 1 = m
  BY <1>2, <1>3
<1>5. Passed(m - 1) \in Nat /\ Passed(m - 1) < i
  <2>1. Passed(m - 1) \in Nat
    BY <1>4, PassedNat
  <2> QED BY <1>4, <2>1
<1>6. Passed((m - 1) + 1) = Passed(m - 1) + One(~Bad(program[(m - 1) + 1]))
  BY <1>4, PassedNext
<1>7. Passed(m) = i /\ ~Bad(program[m]) /\ Passed(m - 1) = i - 1
  BY <1>3, <1>4, <1>5, <1>6 DEF One
<1>8. Nth(i) = m
  BY <1>3, <1>7, NthOf
<1> QED BY <1>3, <1>4, <1>7, <1>8
-----------------------------------------------------------------------------
(* Executing the descriptors one at a time.                                *)

(* Golden is what its recursive definition says.                           *)
LEMMA GoldenStep ==
  ASSUME Len(program) \in Nat
  PROVE  /\ Golden[0] = [ram |-> InitialRam(program), mem |-> InitialMem]
         /\ \A k \in 1 .. Len(program) : Golden[k] = Moved(Golden[k - 1], program[k])
<1> DEFINE first == [ram |-> InitialRam(program), mem |-> InitialMem]
           L == Len(program)
           Is(g, n) == g = [k \in 0 .. n |-> IF k = 0 THEN first ELSE Moved(g[k - 1], program[k])]
           S == {n \in 0 .. L : ~\E g : Is(g, n)}
<1>1. S = {}
  <2> SUFFICES ASSUME S # {} PROVE FALSE
    OBVIOUS
  <2>1. S \in SUBSET Nat
    OBVIOUS
  <2>2. PICK m \in S : \A n \in S : m <= n
    <3> HIDE DEF S
    <3> QED BY <2>1, Least
  <2>3. m \in 0 .. L /\ ~\E g : Is(g, m)
    BY <2>2
  <2>4. m # 0
    <3> SUFFICES ASSUME m = 0 PROVE FALSE
      OBVIOUS
    <3> DEFINE g == [k \in 0 .. 0 |-> first]
    <3>1. Is(g, 0)
      BY DEF g
    <3> QED BY <2>3, <3>1
  <2>5. m - 1 \in 0 .. L /\ m - 1 \notin S
    BY <2>2, <2>3, <2>4
  <2>6. PICK g : Is(g, m - 1)
    BY <2>5
  <2> DEFINE h == [k \in 0 .. m |-> IF k = m THEN Moved(g[m - 1], program[m]) ELSE g[k]]
  <2>7. \A k \in 0 .. m - 1 : g[k] = IF k = 0 THEN first ELSE Moved(g[k - 1], program[k])
    BY <2>6, Zenon
  <2>8. \A k \in 0 .. m : h[k] = IF k = 0 THEN first ELSE Moved(h[k - 1], program[k])
    <3> SUFFICES ASSUME NEW k \in 0 .. m
                 PROVE  h[k] = IF k = 0 THEN first ELSE Moved(h[k - 1], program[k])
      OBVIOUS
    <3> HIDE DEF first
    <3>1. CASE k = 0
      BY <2>3, <2>4, <2>7, <3>1
    <3>2. CASE k # 0
      <4>1. k - 1 \in 0 .. m /\ k - 1 # m /\ h[k - 1] = g[k - 1]
        BY <2>3, <3>2
      <4>2. CASE k = m
        BY <4>1, <4>2, <3>2
      <4>3. CASE k # m
        <5>1. k \in 0 .. m - 1
          BY <2>3, <4>3
        <5> QED BY <2>7, <3>2, <4>1, <4>3, <5>1
      <4> QED BY <4>2, <4>3
    <3> QED BY <3>1, <3>2
  <2>9. Is(h, m)
    <3>1. h = [k \in 0 .. m |-> h[k]]
      OBVIOUS
    <3> HIDE DEF h, first
    <3> QED BY <2>8, <3>1
  <2> QED BY <2>3, <2>9
<1>2. \E g : Is(g, L)
  <2>1. L \in 0 .. L /\ L \notin S
    BY <1>1
  <2> QED BY <2>1
<1>3. Is(Golden, L)
  <2>1. Golden = CHOOSE g : Is(g, L)
    BY DEF Golden
  <2> HIDE DEF Is
  <2> QED BY <1>2, <2>1, Zenon
<1>4. \A k \in 0 .. L : Golden[k] = IF k = 0 THEN first ELSE Moved(Golden[k - 1], program[k])
  <2> HIDE DEF first
  <2> QED BY <1>3, Zenon
<1> HIDE DEF first
<1>5. Golden[0] = first
  BY <1>4
<1>6. \A k \in 1 .. L : Golden[k] = Moved(Golden[k - 1], program[k])
  BY <1>4
<1> QED BY <1>5, <1>6 DEF first

(* The memories keep their sizes and hold numbers.                         *)
Memories == [ram : [0 .. MEM_WORDS - 1 -> Nat], mem : [0 .. BRAM_SIZE - 1 -> Nat]]

(* A word of the destination comes from inside the source.                 *)
LEMMA Shift ==
  ASSUME NEW s \in Nat, NEW t \in Nat, NEW n \in Nat, NEW M \in Nat, s + n <= M,
         NEW a \in t .. t + n - 1
  PROVE  a - t + s \in 0 .. M - 1
OBVIOUS

(* One transfer inside the memories.                                       *)
LEMMA MovedType ==
  ASSUME NEW both \in Memories, NEW d \in Descriptors, ~Bad(d) => Within(d), MEM_WORDS \in Nat,
         DATA_WORDS <= MEM_WORDS
  PROVE  Moved(both, d) \in Memories
<1> DEFINE n == Words(d)
           up == [a \in 0 .. BRAM_SIZE - 1 |->
                    IF a \in d[2] .. d[2] + n - 1 THEN both.ram[a - d[2] + d[1]] ELSE both.mem[a]]
           dn == [a \in 0 .. MEM_WORDS - 1 |->
                    IF a \in d[2] .. d[2] + n - 1 THEN both.mem[a - d[2] + d[1]] ELSE both.ram[a]]
<1>1. /\ d[1] \in Nat /\ d[2] \in Nat /\ d[3] \in Nat /\ n \in Nat
      /\ BRAM_SIZE \in Nat /\ DATA_WORDS \in Nat
      /\ both.ram \in [0 .. MEM_WORDS - 1 -> Nat] /\ both.mem \in [0 .. BRAM_SIZE - 1 -> Nat]
  <2>1. d[1] \in Nat /\ d[2] \in Nat /\ d[3] \in Nat
    BY Sizes DEF Descriptors
  <2>2. n \in Nat
    BY <2>1, Sizes DEF Words
  <2> QED BY <2>1, <2>2, Sizes DEF Memories
<1> HIDE DEF n
<1>2. CASE Bad(d)
  BY <1>2 DEF Moved
<1>3. CASE ~Bad(d) /\ d[4] = 1
  <2>1. d[1] + n <= DATA_WORDS /\ d[2] + n <= BRAM_SIZE
    BY <1>3 DEF Within, n
  <2>2. ASSUME NEW a \in 0 .. BRAM_SIZE - 1, a \in d[2] .. d[2] + n - 1
        PROVE  a - d[2] + d[1] \in 0 .. MEM_WORDS - 1
    <3>1. d[1] + n <= MEM_WORDS
      BY <1>1, <2>1
    <3> QED BY <1>1, <2>2, <3>1, Shift
  <2>3. up \in [0 .. BRAM_SIZE - 1 -> Nat]
    BY <1>1, <2>2
  <2>4. Moved(both, d) = [ram |-> both.ram, mem |-> up]
    BY <1>1, <1>3 DEF Moved, Memories, Words, n
  <2> HIDE DEF up
  <2> QED BY <1>1, <2>3, <2>4 DEF Memories
<1>4. CASE ~Bad(d) /\ d[4] # 1
  <2>1. d[1] + n <= BRAM_SIZE /\ d[2] + n <= DATA_WORDS
    BY <1>4 DEF Within, n
  <2>2. ASSUME NEW a \in 0 .. MEM_WORDS - 1, a \in d[2] .. d[2] + n - 1
        PROVE  a - d[2] + d[1] \in 0 .. BRAM_SIZE - 1
    BY <1>1, <2>1, <2>2, Shift
  <2>3. dn \in [0 .. MEM_WORDS - 1 -> Nat]
    BY <1>1, <2>2
  <2>4. Moved(both, d) = [ram |-> dn, mem |-> both.mem]
    BY <1>1, <1>4 DEF Moved, Memories, Words, n
  <2> HIDE DEF dn
  <2> QED BY <1>1, <2>3, <2>4 DEF Memories
<1> QED BY <1>2, <1>3, <1>4

(* The sizes of a program and of the memory that holds it.                 *)
LEMMA ProgramSizes ==
  ASSUME program \in Seq(Descriptors)
  PROVE  /\ Len(program) \in Nat /\ MEM_WORDS \in Nat /\ DATA_WORDS <= MEM_WORDS
         /\ \A k \in 1 .. Len(program) : program[k] \in Descriptors
<1>1. Len(program) \in Nat /\ \A k \in 1 .. Len(program) : program[k] \in Descriptors
  OBVIOUS
<1> QED BY <1>1, Sizes DEF MEM_WORDS

(* After any number of descriptors.                                        *)
LEMMA GoldenType ==
  ASSUME ProgramOK, NEW c \in 0 .. Len(program)
  PROVE  Golden[c] \in Memories
<1> DEFINE S == {n \in 0 .. Len(program) : Golden[n] \notin Memories}
<1> SUFFICES ASSUME S # {} PROVE FALSE
  OBVIOUS
<1>0. program \in Seq(Descriptors) /\ Len(program) \in Nat
  BY ProgramSizes DEF ProgramOK
<1>1. S \in SUBSET Nat
  BY <1>0
<1>2. PICK m \in S : \A n \in S : m <= n
  <2> HIDE DEF S
  <2> QED BY <1>1, Least
<1>3. Golden[0] \in Memories
  <2>1. InitialMem \in [0 .. BRAM_SIZE - 1 -> Nat]
    BY Sizes DEF InitialMem
  <2> QED BY <1>0, <2>1, GoldenStep, InitialRamType DEF Memories
<1>4. m \in 1 .. Len(program) /\ m - 1 \notin S /\ m - 1 \in 0 .. Len(program)
  BY <1>0, <1>2, <1>3
<1>5. Golden[m - 1] \in Memories
  BY <1>4
<1>6. Golden[m] = Moved(Golden[m - 1], program[m])
  BY <1>0, <1>4, GoldenStep
<1>7. program[m] \in Descriptors /\ (~Bad(program[m]) => Within(program[m]))
  BY <1>4, ProgramSizes DEF ProgramOK, Executable
<1>8. Golden[m] \in Memories
  BY <1>0, <1>5, <1>6, <1>7, MovedType, ProgramSizes
<1> QED BY <1>2, <1>8

(* Rejected descriptors move nothing.                                      *)
LEMMA GoldenSame ==
  ASSUME Len(program) \in Nat, NEW c \in 0 .. Len(program), NEW d \in c .. Len(program),
         Passed(c) = Passed(d)
  PROVE  Golden[c] = Golden[d]
<1> DEFINE S == {n \in c .. d : Golden[n] # Golden[c]}
<1> SUFFICES ASSUME S # {} PROVE FALSE
  OBVIOUS
<1>1. S \in SUBSET Nat
  OBVIOUS
<1>2. PICK m \in S : \A n \in S : m <= n
  <2> HIDE DEF S
  <2> QED BY <1>1, Least
<1>3. m \in c + 1 .. d /\ m - 1 \notin S /\ m - 1 \in c .. d
  BY <1>2
<1>4. m - 1 \in Nat /\ m \in Nat /\ d \in Nat /\ c \in Nat /\ (m - 1) + 1 = m
      /\ c <= m - 1 /\ m <= d /\ m \in 1 .. Len(program)
  BY <1>3
<1>5. Passed(c) <= Passed(m - 1) /\ Passed(m) <= Passed(d)
      /\ Passed((m - 1) + 1) = Passed(m - 1) + One(~Bad(program[(m - 1) + 1]))
      /\ Passed(m - 1) \in Nat /\ Passed(c) \in Nat
  BY <1>4, PassedGrows, PassedNext, PassedNat
<1>6. Bad(program[m])
  BY <1>4, <1>5 DEF One
<1>7. Golden[m] = Golden[m - 1]
  BY <1>4, <1>6, GoldenStep DEF Moved
<1> QED BY <1>2, <1>3, <1>7
-----------------------------------------------------------------------------
(* The order of the descriptors in the FIFOs.                              *)

(* A FIFO that holds the words of a list in order still does after an edge *)
(* that takes the first and appends the next one.                          *)
LEMMA Slide ==
  ASSUME NEW S, NEW q, Queue(q, S), NEW x, NEW h, NEW b \in Nat,
         NEW r \in {0, 1}, r = 1 => q # <<>>, NEW w \in {0, 1}, w = 1 => x \in S,
         InLine(q, h, b), w = 1 => x = h[b + Len(q) + 1]
  PROVE  InLine(After(q, r, w, x), h, b + r)
<1> DEFINE rest == Rest(q, r)
<1>1. rest \in Seq(S) /\ Len(rest) = Len(q) - r /\ Len(rest) \in Nat /\ Len(q) \in Nat
  BY DEF Rest, Queue
<1>2. \A i \in 1 .. Len(rest) : rest[i] = h[b + r + i]
  <2> SUFFICES ASSUME NEW i \in 1 .. Len(rest) PROVE rest[i] = h[b + r + i]
    OBVIOUS
  <2>1. CASE r = 0
    BY <1>1, <2>1 DEF Rest, InLine
  <2>2. CASE r = 1
    <3>1. i + 1 \in 1 .. Len(q) /\ rest[i] = q[i + 1] /\ b + 1 + i = b + (i + 1)
      BY <1>1, <2>2 DEF Rest, Queue
    <3> QED BY <2>2, <3>1 DEF InLine
  <2> QED BY <2>1, <2>2
<1>3. CASE w = 0
  BY <1>2, <1>3 DEF After, InLine, rest
<1>4. CASE w = 1
  <2> HIDE DEF rest
  <2>1. Len(Append(rest, x)) = Len(rest) + 1
    BY <1>1, <1>4
  <2>2. \A i \in 1 .. Len(rest) : Append(rest, x)[i] = rest[i]
    BY <1>1, <1>4
  <2>3. Append(rest, x)[Len(rest) + 1] = x
    BY <1>1, <1>4
  <2>4. b + Len(q) + 1 = b + r + (Len(rest) + 1)
    BY <1>1
  <2>5. x = h[b + r + (Len(rest) + 1)]
    BY <1>4, <2>4
  <2>6. \A i \in 1 .. Len(rest) + 1 : Append(rest, x)[i] = h[b + r + i]
    <3> SUFFICES ASSUME NEW i \in 1 .. Len(rest) + 1 PROVE Append(rest, x)[i] = h[b + r + i]
      OBVIOUS
    <3>1. CASE i = Len(rest) + 1
      BY <2>3, <2>5, <3>1
    <3>2. CASE i # Len(rest) + 1
      BY <1>1, <1>2, <2>2, <3>2
    <3> QED BY <3>1, <3>2
  <2> QED BY <1>4, <2>1, <2>6 DEF After, InLine, rest
<1> QED BY <1>3, <1>4

(* Its first word.                                                         *)
LEMMA First ==
  ASSUME NEW S, NEW q, Queue(q, S), NEW h, NEW b, InLine(q, h, b), q # <<>>
  PROVE  Head(q) = h[b + 1]
BY DEF Queue, InLine

(* How many descriptors the parts of the pipeline hold.                    *)
HeldCounts ==
  /\ BeforeCheck \in Nat /\ Checks \in Nat /\ Checked \in Nat /\ AxiHalves \in Nat
  /\ Len(df_in_q) \in Nat /\ Len(df_out_q) \in Nat /\ Len(desc_q) \in Nat
  /\ Len(dm_axi_q) \in Nat /\ Len(dm_sram_q) \in Nat /\ Len(mid_q) \in Nat
  /\ AxiBusy \in {0, 1} /\ SramBusy \in {0, 1} /\ MoverBusy \in {0, 1}
  /\ requested \in Nat /\ reported \in Nat
  /\ requested = Checks + BeforeCheck
  /\ BeforeCheck = One(df_in_din # None) + Len(df_in_q) + Len(df_out_q)
                    + One(axi_state \in AxiFetches)
  /\ Checked = One(dm_in_din # None) + Len(desc_q) + MoverBusy
  /\ AxiHalves = Len(dm_axi_q) + AxiBusy
  /\ AxiHalves = Len(dm_sram_q) + SramBusy

(* They are numbers that add up.                                           *)
LEMMA Held == MovementInv => HeldCounts
<1> SUFFICES ASSUME MovementInv PROVE HeldCounts
  OBVIOUS
<1> DEFINE h == One(df_in_din # None)
           d == One(dm_in_din # None)
           f == One(axi_state \in AxiFetches)
           rp == One(dm_done)
<1>1. /\ Len(df_in_q) \in Nat /\ Len(df_out_q) \in Nat /\ Len(desc_q) \in Nat
      /\ Len(dm_axi_q) \in Nat /\ Len(dm_sram_q) \in Nat /\ Len(mid_q) \in Nat
      /\ requested \in Nat /\ reported \in Nat
  BY DEF MovementInv, Types, QueuesOK, Queue, CountsOK
<1>2. /\ h \in Nat /\ d \in Nat /\ f \in Nat /\ rp \in Nat
      /\ AxiBusy \in {0, 1} /\ SramBusy \in {0, 1} /\ MoverBusy \in {0, 1}
  BY DEF One, AxiBusy, SramBusy, MoverBusy
<1>3. /\ BeforeCheck = h + Len(df_in_q) + Len(df_out_q) + f
      /\ Checked = d + Len(desc_q) + MoverBusy
      /\ AxiHalves = Len(dm_axi_q) + AxiBusy
      /\ SramHalves = Len(dm_sram_q) + SramBusy
      /\ Reporting = rp
  BY DEF BeforeCheck, Checked, AxiHalves, SramHalves, Reporting, AxiBusy, SramBusy, MoverBusy,
         AxiFetches, AxiMoves, SramMoves
<1>4. /\ requested = reported + BeforeCheck + Checked + AxiHalves + Reporting
      /\ AxiHalves = SramHalves
  BY DEF MovementInv, EveryDescriptorAccounted
<1>5. Checks = requested - BeforeCheck
  BY DEF Checks
<1> HIDE DEF h, d, f, rp
<1>6. /\ BeforeCheck \in Nat /\ Checked \in Nat /\ AxiHalves \in Nat
      /\ Checks \in Nat /\ requested = Checks + BeforeCheck
  BY <1>1, <1>2, <1>3, <1>4, <1>5
<1> QED BY <1>1, <1>2, <1>3, <1>4, <1>6 DEF HeldCounts, h, d, f

(* What an edge moves between them.                                        *)
LEMMA Flow ==
  ASSUME MovementInv, transfers \in Nat, NEW request \in BOOLEAN, Clock(request)
  PROVE  /\ Checks' = Checks + One(Fetcher(request)!df_out_rd_en)
         /\ Checked' = Checked + One(Fetcher(request)!df_out_rd_en)
                         - One(Fetcher(request)!df_error) - One(Mover!wr_en)
         /\ AxiHalves' = AxiHalves + One(Mover!wr_en) - One(handshake_done)
         /\ transfers' = transfers + One(handshake_done)
         /\ AxiBusy' = AxiBusy + One(axi_state = "s_dm_get") - One(handshake_done)
         /\ SramBusy' = SramBusy + One(sram_state = "s_dm_get") - One(handshake_done)
         /\ MoverBusy' = MoverBusy + One(Mover!df_dm_in_rd_en) - One(Mover!wr_en)
         /\ Fetched' = Fetched + One(Axi!df_out_wr_en)
<1> DEFINE accepted == One(Fetcher(request)!accept)
           popped   == One(Fetcher(request)!df_out_rd_en)
           rejected == One(Fetcher(request)!df_error)
           taken    == One(Mover!df_dm_in_rd_en)
           sent     == One(Mover!wr_en)
           pushed   == One(Axi!df_out_wr_en)
           finished == One(handshake_done)
           h  == One(df_in_din # None)
           d  == One(dm_in_din # None)
           fg == One(axi_state = "s_df_get")
           ag == One(axi_state = "s_dm_get")
           sg == One(sram_state = "s_dm_get")
           f  == One(axi_state \in AxiFetches)
<1>0. HeldCounts /\ HeldCounts'
  <2>1. MovementInv'
    BY InvStep DEF Next
  <2> QED BY <2>1, Held, PTL
<1>1. /\ Len(df_in_q) \in Nat /\ Len(df_out_q) \in Nat /\ Len(desc_q) \in Nat
      /\ Len(dm_axi_q) \in Nat
      /\ Len(df_in_q') \in Nat /\ Len(df_out_q') \in Nat /\ Len(desc_q') \in Nat
      /\ Len(dm_axi_q') \in Nat
      /\ Checks \in Nat /\ Checks' \in Nat /\ Checked \in Nat /\ Checked' \in Nat
      /\ AxiHalves \in Nat /\ AxiHalves' \in Nat
      /\ AxiBusy \in {0, 1} /\ MoverBusy \in {0, 1} /\ AxiBusy' \in {0, 1} /\ MoverBusy' \in {0, 1}
      /\ requested \in Nat /\ BeforeCheck \in Nat /\ BeforeCheck' \in Nat
  BY <1>0 DEF HeldCounts
<1>2. /\ accepted \in Nat /\ popped \in Nat /\ rejected \in Nat /\ taken \in Nat
      /\ sent \in Nat /\ pushed \in Nat /\ finished \in Nat
      /\ h \in Nat /\ d \in Nat /\ fg \in Nat /\ ag \in Nat /\ sg \in Nat /\ f \in Nat
  BY DEF One
<1>3. /\ requested = Checks + BeforeCheck
      /\ BeforeCheck = h + Len(df_in_q) + Len(df_out_q) + f
      /\ Checked = d + Len(desc_q) + MoverBusy
      /\ AxiHalves = Len(dm_axi_q) + AxiBusy
  BY <1>0 DEF HeldCounts
<1>4. /\ requested' = Checks' + BeforeCheck'
      /\ BeforeCheck' = h' + Len(df_in_q') + Len(df_out_q') + f'
      /\ Checked' = d' + Len(desc_q') + MoverBusy'
      /\ AxiHalves' = Len(dm_axi_q') + AxiBusy'
  BY <1>0 DEF HeldCounts
<1>5. /\ Len(df_in_q') = Len(df_in_q) - fg + h
      /\ Len(df_out_q') = Len(df_out_q) - popped + pushed
      /\ Len(desc_q') = Len(desc_q) - taken + d
      /\ Len(dm_axi_q') = Len(dm_axi_q) - ag + sent
  BY DfInEdge, DfOutEdge, DescEdge, DmAxiEdge
<1>6. /\ h' = accepted /\ d' = popped - rejected
      /\ MoverBusy' = MoverBusy + taken - sent
      /\ f' = f + fg - pushed /\ AxiBusy' = AxiBusy + ag - finished
      /\ SramBusy' = SramBusy + sg - finished
      /\ requested' = requested + accepted
  BY FetcherEdge, MoverEdge, MasterEdge, SramEdge, CountsEdge DEF AxiBusy, SramBusy, MoverBusy
<1>7. transfers' = transfers + finished
  BY DEF Clock, One
<1>8. Fetched = Checks + Len(df_out_q) + 1 /\ Fetched' = Checks' + Len(df_out_q') + 1
  BY DEF Fetched
<1> HIDE DEF accepted, popped, rejected, taken, sent, pushed, finished, h, d, fg, ag, sg, f
<1>9. Checks' = Checks + popped
  <2>1. BeforeCheck' = BeforeCheck + accepted - popped
    BY <1>1, <1>2, <1>3, <1>4, <1>5, <1>6
  <2>2. Checks = requested - BeforeCheck /\ Checks' = requested' - BeforeCheck'
    BY DEF Checks
  <2> QED BY <1>1, <1>2, <1>6, <2>1, <2>2
<1>10. Checked' = Checked + popped - rejected - sent
  BY <1>1, <1>2, <1>3, <1>4, <1>5, <1>6
<1>11. AxiHalves' = AxiHalves + sent - finished
  BY <1>1, <1>2, <1>3, <1>4, <1>5, <1>6
<1>12. Fetched' = Fetched + pushed
  BY <1>1, <1>2, <1>5, <1>8, <1>9
<1> QED BY <1>6, <1>7, <1>9, <1>10, <1>11, <1>12
        DEF popped, rejected, taken, sent, pushed, finished, ag, sg
-----------------------------------------------------------------------------
(* The order of the descriptors, from edge to edge.                        *)

(* The program does not change, nor what is defined from it alone.         *)
LEMMA Fixed ==
  ASSUME program' = program
  PROVE  /\ Passed(Checks)' = Passed(Checks')
         /\ Nth(Passed(Checks))' = Nth(Passed(Checks'))
         /\ Nth(transfers + AxiHalves + 1)' = Nth(transfers' + AxiHalves' + 1)
         /\ Now' = program[Nth(transfers' + 1)]
         /\ Before' = Golden[IF transfers' = 0 THEN 0 ELSE Nth(transfers')]
         /\ Accepted' = Accepted /\ AxiPart' = AxiPart /\ SramPart' = SramPart /\ Slots' = Slots
         /\ MEM_WORDS' = MEM_WORDS /\ Golden' = Golden
<1>1. Passed(Checks)' = Passed(Checks') /\ Nth(Passed(Checks))' = Nth(Passed(Checks'))
  BY DEF Nth, Passed, Bad
<1>2. Nth(transfers + AxiHalves + 1)' = Nth(transfers' + AxiHalves' + 1)
  BY DEF Nth, Passed, Bad
<1>3. Now' = program[Nth(transfers' + 1)]
  BY DEF Now, Nth, Passed, Bad
<1>4. Golden' = Golden
  BY DEF Golden, Moved, Bad, InitialRam
<1>5. Nth(transfers)' = Nth(transfers')
  BY DEF Nth, Passed, Bad
<1>6. Before' = Golden[IF transfers' = 0 THEN 0 ELSE Nth(transfers')]
  BY <1>4, <1>5 DEF Before
<1>7. Accepted' = Accepted /\ AxiPart' = AxiPart /\ SramPart' = SramPart /\ Slots' = Slots
  BY DEF Accepted, AxiPart, SramPart, Slots, Nth, Passed, Bad
<1> QED BY <1>1, <1>2, <1>3, <1>4, <1>6, <1>7 DEF MEM_WORDS

(* The transfer at work is one of the program that passed the check.       *)
LEMMA AtWork ==
  ASSUME MovementInv, ProgramOK, OrderInv
  PROVE  /\ Checks \in 0 .. Len(program)
         /\ AxiHalves > 0 =>
              /\ Nth(transfers + 1) \in 1 .. Len(program)
              /\ Passed(Nth(transfers + 1)) = transfers + 1
              /\ Nth(transfers + 1) <= Checks
              /\ Now \in Descriptors /\ ~Bad(Now) /\ Within(Now)
              /\ Now[1] \in Nat /\ Now[2] \in Nat /\ Now[3] \in Nat
              /\ Words(Now) \in 1 .. LEN_RANGE - 1
<1>1. HeldCounts /\ requested <= Len(program) /\ program \in Seq(Descriptors) /\ Len(program) \in Nat
  BY Held DEF OrderInv, FetchOrder, ProgramOK
<1>2. Checks \in 0 .. Len(program)
  <2>1. Checks \in Nat /\ BeforeCheck \in Nat /\ requested = Checks + BeforeCheck
    BY <1>1 DEF HeldCounts
  <2> QED BY <1>1, <2>1
<1>3. ASSUME AxiHalves > 0
      PROVE  /\ Nth(transfers + 1) \in 1 .. Checks /\ ~Bad(program[Nth(transfers + 1)])
             /\ Passed(Nth(transfers + 1)) = transfers + 1
  <2>1. transfers \in Nat /\ Passed(Checks) = transfers + AxiHalves + Checked
    BY DEF OrderInv, MoveOrder
  <2>2. transfers + 1 \in Nat /\ 1 <= transfers + 1 /\ transfers + 1 <= Passed(Checks)
    <3>1. AxiHalves \in Nat /\ Checked \in Nat
      BY <1>1 DEF HeldCounts
    <3> QED BY <1>3, <2>1, <3>1
  <2> QED BY <1>1, <1>2, <2>2, NthIs
<1>4. ASSUME AxiHalves > 0
      PROVE  /\ Nth(transfers + 1) \in 1 .. Len(program) /\ Nth(transfers + 1) <= Checks
             /\ Now \in Descriptors /\ ~Bad(Now) /\ Within(Now)
  <2>1. Nth(transfers + 1) \in 1 .. Len(program) /\ Nth(transfers + 1) <= Checks
    BY <1>1, <1>2, <1>3, <1>4
  <2> QED BY <1>1, <1>3, <1>4, <2>1, ProgramSizes DEF ProgramOK, Executable, Now
<1>5. ASSUME AxiHalves > 0
      PROVE  /\ Now[1] \in Nat /\ Now[2] \in Nat /\ Now[3] \in Nat
             /\ Words(Now) \in 1 .. LEN_RANGE - 1
  <2>1. Now[1] \in Nat /\ Now[2] \in Nat /\ Now[3] \in Nat
    BY <1>4, <1>5, Sizes DEF Descriptors
  <2>2. Words(Now) > 0
    BY <1>4, <1>5 DEF Within
  <2> QED BY <2>1, <2>2, Sizes DEF Words
<1> QED BY <1>2, <1>3, <1>4, <1>5

(* What the check looks at.                                                *)
LEMMA Examined ==
  ASSUME MovementInv, ProgramOK, OrderInv, NEW request \in BOOLEAN
  PROVE  /\ Fetcher(request)!df_out_rd_en =>
              /\ Checks + 1 \in 1 .. Len(program)
              /\ DfOut!dout = program[Checks + 1]
              /\ Fetcher(request)!df_error <=> Bad(program[Checks + 1])
         /\ Fetcher(request)!df_error => Fetcher(request)!df_out_rd_en
         /\ Passed(Checks + One(Fetcher(request)!df_out_rd_en))
              = Passed(Checks) + One(Fetcher(request)!df_out_rd_en) - One(Fetcher(request)!df_error)
<1>1. HeldCounts /\ requested <= Len(program) /\ Len(program) \in Nat
  BY Held, ProgramSizes DEF OrderInv, FetchOrder, ProgramOK
<1>2. Checks \in Nat /\ Passed(Checks) \in Nat
  BY <1>1, PassedNat DEF HeldCounts
<1>3. Fetcher(request)!df_error => Fetcher(request)!df_out_rd_en
  BY DEF Fetcher!df_error
<1>4. ASSUME Fetcher(request)!df_out_rd_en
      PROVE  /\ Checks + 1 \in 1 .. Len(program)
             /\ DfOut!dout = program[Checks + 1]
             /\ Fetcher(request)!df_error <=> Bad(program[Checks + 1])
  <2>1. df_out_q # <<>> /\ Queue(df_out_q, Descriptors) /\ InLine(df_out_q, program, Checks)
    BY <1>4 DEF Fetcher!df_out_rd_en, MovementInv, Flags, Types, QueuesOK, OrderInv, FetchOrder
  <2>2. Len(df_out_q) > 0
    BY <2>1 DEF Queue
  <2>3. BeforeCheck >= Len(df_out_q)
    <3> DEFINE h == One(df_in_din # None)
               f == One(axi_state \in AxiFetches)
    <3>1. h \in Nat /\ f \in Nat
      BY DEF One
    <3>2. /\ BeforeCheck = h + Len(df_in_q) + Len(df_out_q) + f
          /\ Len(df_in_q) \in Nat /\ Len(df_out_q) \in Nat
      BY <1>1 DEF HeldCounts
    <3> HIDE DEF h, f
    <3> QED BY <3>1, <3>2
  <2>4. Checks + 1 \in 1 .. Len(program)
    <3>1. /\ requested = Checks + BeforeCheck /\ Checks \in Nat /\ BeforeCheck \in Nat
          /\ Len(df_out_q) \in Nat
      BY <1>1 DEF HeldCounts
    <3> QED BY <1>1, <2>2, <2>3, <3>1
  <2>5. DfOut!dout = program[Checks + 1]
    BY <2>1, First DEF DfOut!dout
  <2> QED BY <1>4, <2>4, <2>5 DEF Fetcher!df_error, Bad, Fetcher!desc_end_addr, Fetcher!len_beats,
                 Fetcher!sram_word_idx, Fetcher!dir_sys_to_sram
<1>5. CASE Fetcher(request)!df_out_rd_en
  <2>1. Passed(Checks + 1) = Passed(Checks) + One(~Bad(program[Checks + 1]))
    BY <1>2, PassedNext
  <2>2. One(~Bad(program[Checks + 1])) = 1 - One(Fetcher(request)!df_error)
    BY <1>4, <1>5 DEF One
  <2>3. One(Fetcher(request)!df_out_rd_en) = 1 /\ One(Fetcher(request)!df_error) \in Nat
    BY <1>5 DEF One
  <2> QED BY <1>2, <1>3, <1>4, <1>5, <2>1, <2>2, <2>3
<1>6. CASE ~Fetcher(request)!df_out_rd_en
  <2>1. One(Fetcher(request)!df_out_rd_en) = 0 /\ One(Fetcher(request)!df_error) = 0
    BY <1>3, <1>6 DEF One
  <2> QED BY <1>2, <1>3, <1>6, <2>1
<1> QED BY <1>5, <1>6

(* The handles and the fetched descriptors stay in order.                  *)
LEMMA FetchOrderStep ==
  ASSUME MovementInv, ProgramOK, OrderInv, NEW request \in BOOLEAN, Clock(request)
  PROVE  FetchOrder'
<1> DEFINE popped == One(Fetcher(request)!df_out_rd_en)
           pushed == One(Axi!df_out_wr_en)
           h  == One(df_in_din # None)
           fg == One(axi_state = "s_df_get")
           f  == One(axi_state \in AxiFetches)
           b  == Checks + Len(df_out_q) + f
<1>1. HeldCounts /\ FetchOrder /\ FetchBurst /\ transfers \in Nat
  BY Held DEF OrderInv, MoveOrder
<1>2. program' = program /\ Slots' = Slots
  BY Fixed DEF Clock
<1>3. requested' = requested + One(Fetcher(request)!accept)
      /\ Checks' = Checks + popped
  BY <1>1, CountsEdge, Flow
<1>4. requested' <= Len(program)'
  <2>1. Fetcher(request)!accept => requested < Len(program)
    BY DEF Clock, MayRequest, Fetcher!accept
  <2>2. requested \in Nat /\ requested <= Len(program) /\ Len(program) \in Nat
    BY <1>1, ProgramSizes DEF HeldCounts, FetchOrder, ProgramOK
  <2> QED BY <1>2, <1>3, <2>1, <2>2 DEF One
<1>5. InLine(df_out_q', program, Checks')
  <2>1. /\ popped \in {0, 1} /\ (popped = 1 => df_out_q # <<>>)
        /\ pushed \in {0, 1} /\ (pushed = 1 => desc_buf \in Descriptors)
    BY DEF One, Fetcher!df_out_rd_en, MovementInv, Flags, Types, MasterOK
  <2>2. Queue(df_out_q, Descriptors) /\ Checks \in Nat /\ InLine(df_out_q, program, Checks)
    BY <1>1 DEF MovementInv, Types, QueuesOK, HeldCounts, FetchOrder
  <2>3. pushed = 1 => desc_buf = program[Checks + Len(df_out_q) + 1]
    BY <1>1 DEF One, FetchBurst, Axi!df_out_wr_en, Fetched
  <2>4. df_out_q' = After(df_out_q, popped, pushed, desc_buf)
    BY DfOutEdge
  <2> HIDE DEF popped, pushed
  <2>5. InLine(After(df_out_q, popped, pushed, desc_buf), program, Checks + popped)
    BY <2>1, <2>2, <2>3, Slide
  <2> QED BY <1>3, <2>4, <2>5
<1>6. InLine(df_in_q', Slots, b')
  <2>1. /\ fg \in {0, 1} /\ (fg = 1 => df_in_q # <<>>)
        /\ h \in {0, 1} /\ (h = 1 => df_in_din \in Nat)
    BY DEF One, MovementInv, Gets, Types, FetcherOK
  <2>2. /\ f \in {0, 1} /\ b \in Nat /\ popped \in Nat /\ pushed \in Nat
    BY <1>1 DEF HeldCounts, One
  <2>3. Queue(df_in_q, Nat) /\ InLine(df_in_q, Slots, b)
    BY <1>1 DEF MovementInv, Types, QueuesOK, FetchOrder
  <2>4. h = 1 => df_in_din = Slots[b + Len(df_in_q) + 1]
    <3>1. h = 1 => df_in_din = RingSlot(requested)
      BY <1>1 DEF FetchOrder, One
    <3>2. requested = Checks + BeforeCheck /\ BeforeCheck = h + Len(df_in_q) + Len(df_out_q) + f
      BY <1>1 DEF HeldCounts
    <3>3. Checks \in Nat /\ Len(df_in_q) \in Nat /\ Len(df_out_q) \in Nat /\ requested \in Nat
      BY <1>1 DEF HeldCounts
    <3>4. h = 1 => requested = b + Len(df_in_q) + 1
      <4> HIDE DEF h, f
      <4> QED BY <2>1, <2>2, <3>2, <3>3 DEF b
    <3>5. Slots[requested] = RingSlot(requested)
      BY <3>3 DEF Slots
    <3> QED BY <3>1, <3>4, <3>5
  <2>5. df_in_q' = After(df_in_q, fg, h, df_in_din)
    BY DfInEdge
  <2>6. b' = b + fg
    <3>1. Len(df_out_q') = Len(df_out_q) - popped + pushed /\ f' = f + fg - pushed
      BY DfOutEdge, MasterEdge
    <3>2. Checks \in Nat /\ Len(df_out_q) \in Nat
      BY <1>1 DEF HeldCounts
    <3> HIDE DEF popped, pushed, f, fg
    <3> QED BY <1>3, <2>1, <2>2, <3>1, <3>2
  <2> HIDE DEF fg, h, b
  <2>7. InLine(After(df_in_q, fg, h, df_in_din), Slots, b + fg)
    BY <2>1, <2>2, <2>3, <2>4, Slide
  <2> QED BY <2>5, <2>6, <2>7
<1>7. df_in_din' # None => df_in_din' = RingSlot(requested)'
  <2>1. df_in_din' = IF Fetcher(request)!accept THEN RingSlot(requested + 1) ELSE None
    BY DEF Clock, Fetcher!Edge
  <2> QED BY <1>3, <2>1 DEF One, RingSlot
<1> QED BY <1>2, <1>4, <1>5, <1>6, <1>7 DEF FetchOrder

(* The descriptors behind the check stay in order.                         *)
LEMMA MoveOrderStep ==
  ASSUME MovementInv, ProgramOK, OrderInv, NEW request \in BOOLEAN, Clock(request)
  PROVE  MoveOrder'
<1> DEFINE popped   == One(Fetcher(request)!df_out_rd_en)
           rejected == One(Fetcher(request)!df_error)
           taken    == One(Mover!df_dm_in_rd_en)
           sent     == One(Mover!wr_en)
           finished == One(handshake_done)
           d  == One(dm_in_din # None)
           ag == One(axi_state = "s_dm_get")
           sg == One(sram_state = "s_dm_get")
<1>1. HeldCounts /\ MoveOrder
  BY Held DEF OrderInv
<1>2. /\ Checks \in Nat /\ Checked \in Nat /\ AxiHalves \in Nat /\ transfers \in Nat
      /\ AxiBusy \in {0, 1} /\ SramBusy \in {0, 1} /\ MoverBusy \in {0, 1}
      /\ Len(desc_q) \in Nat /\ Len(dm_axi_q) \in Nat /\ Len(dm_sram_q) \in Nat
  BY <1>1 DEF HeldCounts, MoveOrder
<1>3. /\ popped \in {0, 1} /\ rejected \in {0, 1} /\ taken \in {0, 1} /\ sent \in {0, 1}
      /\ finished \in {0, 1} /\ d \in {0, 1} /\ ag \in {0, 1} /\ sg \in {0, 1}
  BY DEF One
<1>4. /\ Checks' = Checks + popped
      /\ Checked' = Checked + popped - rejected - sent
      /\ AxiHalves' = AxiHalves + sent - finished
      /\ transfers' = transfers + finished
      /\ AxiBusy' = AxiBusy + ag - finished
      /\ SramBusy' = SramBusy + sg - finished
      /\ MoverBusy' = MoverBusy + taken - sent
  BY <1>2, Flow
<1>5. /\ program' = program /\ Accepted' = Accepted /\ AxiPart' = AxiPart /\ SramPart' = SramPart
      /\ Passed(Checks)' = Passed(Checks') /\ Nth(Passed(Checks))' = Nth(Passed(Checks'))
      /\ Nth(transfers + AxiHalves + 1)' = Nth(transfers' + AxiHalves' + 1)
  BY Fixed DEF Clock
<1>6. /\ Passed(Checks) = transfers + AxiHalves + Checked /\ Passed(Checks) \in Nat
      /\ Passed(Checks + popped) = Passed(Checks) + popped - rejected
  BY <1>1, <1>2, PassedNat, Examined DEF MoveOrder
<1>7. Checked = d + Len(desc_q) + MoverBusy
      /\ AxiHalves = Len(dm_axi_q) + AxiBusy /\ AxiHalves = Len(dm_sram_q) + SramBusy
  BY <1>1 DEF HeldCounts
<1>8. transfers' \in Nat
  <2> HIDE DEF finished
  <2> QED BY <1>2, <1>3, <1>4
<1>9. Passed(Checks') = transfers' + AxiHalves' + Checked'
  <2>1. Passed(Checks') = Passed(Checks + popped)
    BY <1>4
  <2> HIDE DEF popped, rejected, taken, sent, finished
  <2> QED BY <1>2, <1>3, <1>4, <1>6, <2>1
<1>10. dm_in_din' # None => dm_in_din' = program[Nth(Passed(Checks'))]
  <2>1. dm_in_din' = IF Fetcher(request)!df_out_rd_en /\ ~Fetcher(request)!df_error
                     THEN DfOut!dout ELSE None
    BY DEF Clock, Fetcher!Edge
  <2>2. ASSUME Fetcher(request)!df_out_rd_en, ~Fetcher(request)!df_error
        PROVE  DfOut!dout = program[Nth(Passed(Checks'))]
    <3>1. Checks + 1 \in 1 .. Len(program) /\ DfOut!dout = program[Checks + 1]
          /\ ~Bad(program[Checks + 1])
      BY <2>2, Examined
    <3>2. Nth(Passed(Checks + 1)) = Checks + 1
      BY <3>1, NthOf, ProgramSizes DEF ProgramOK
    <3>3. Checks' = Checks + 1
      BY <1>4, <2>2 DEF One
    <3> QED BY <3>1, <3>2, <3>3
  <2> QED BY <2>1, <2>2
<1>11. InLine(desc_q', Accepted, transfers' + AxiHalves' + MoverBusy')
  <2> DEFINE b == transfers + AxiHalves + MoverBusy
  <2>1. /\ taken = 1 => desc_q # <<>>
        /\ d = 1 => dm_in_din \in Descriptors
    BY DEF One, Mover!df_dm_in_rd_en, MovementInv, Flags, Types, FetcherOK
  <2>2. Queue(desc_q, Descriptors) /\ InLine(desc_q, Accepted, b)
    BY <1>1 DEF MovementInv, Types, QueuesOK, MoveOrder
  <2>3. d = 1 => dm_in_din = Accepted[b + Len(desc_q) + 1]
    <3>1. d = 1 => dm_in_din = program[Nth(Passed(Checks))]
      BY <1>1 DEF MoveOrder, One
    <3>2. Accepted[Passed(Checks)] = program[Nth(Passed(Checks))]
      BY <1>6 DEF Accepted
    <3>3. d = 1 => Passed(Checks) = b + Len(desc_q) + 1
      <4> HIDE DEF d
      <4> QED BY <1>2, <1>6, <1>7
    <3> QED BY <3>1, <3>2, <3>3
  <2>4. desc_q' = After(desc_q, taken, d, dm_in_din)
    BY DescEdge
  <2>5. b \in Nat /\ transfers' + AxiHalves' + MoverBusy' = b + taken
    <3> HIDE DEF taken, sent, finished, ag, sg, popped, rejected
    <3> QED BY <1>2, <1>3, <1>4
  <2> HIDE DEF b, taken, d
  <2>6. InLine(After(desc_q, taken, d, dm_in_din), Accepted, b + taken)
    BY <1>3, <2>1, <2>2, <2>3, <2>5, Slide
  <2> QED BY <2>4, <2>5, <2>6
<1>12. dm_state' # "GET_DATA" => input_data' = program[Nth(transfers' + AxiHalves' + 1)]
  <2>1. MoverOK /\ Mover!Edge
    BY DEF MovementInv, Types, Clock
  <2>2. CASE dm_state = "GET_DATA"
    <3>1. dm_state' # "GET_DATA" => ~desc_empty /\ input_data' = Desc!dout
      BY <2>1, <2>2 DEF Mover!Edge, Mover!df_dm_in_rd_en
    <3>2. sent = 0 /\ MoverBusy = 0
      BY <2>2 DEF Mover!wr_en, One, MoverBusy
    <3>3. ~desc_empty => desc_q # <<>> /\ Queue(desc_q, Descriptors)
                         /\ InLine(desc_q, Accepted, transfers + AxiHalves + MoverBusy)
      BY <1>1 DEF MovementInv, Flags, Types, QueuesOK, MoveOrder
    <3>4. ~desc_empty => Desc!dout = Accepted[(transfers + AxiHalves + MoverBusy) + 1]
      BY <3>3, First DEF Desc!dout
    <3>5. (transfers + AxiHalves + MoverBusy) + 1 = transfers' + AxiHalves' + 1
          /\ transfers' + AxiHalves' + 1 \in Nat
      <4> HIDE DEF sent, finished
      <4> QED BY <1>2, <1>3, <1>4, <3>2
    <3>6. Accepted[transfers' + AxiHalves' + 1] = program[Nth(transfers' + AxiHalves' + 1)]
      BY <3>5 DEF Accepted
    <3> QED BY <3>1, <3>4, <3>5, <3>6
  <2>3. CASE dm_state # "GET_DATA"
    <3>1. input_data' = input_data /\ (dm_state' # "GET_DATA" => sent = 0)
      BY <2>1, <2>3 DEF MoverOK, Mover!Edge, Mover!df_dm_in_rd_en, Mover!wr_en, One
    <3>2. input_data = program[Nth(transfers + AxiHalves + 1)]
      BY <1>1, <2>3 DEF MoveOrder
    <3>3. sent = 0 => transfers' + AxiHalves' + 1 = transfers + AxiHalves + 1
      <4> HIDE DEF sent, finished
      <4> QED BY <1>2, <1>3, <1>4
    <3> QED BY <3>1, <3>2, <3>3
  <2> QED BY <2>2, <2>3
<1>13. dm_state' = "SEND_INSTR" =>
         /\ instr_axi' = Mover!AxiInstr(input_data)'
         /\ instr_sram' = Mover!SramInstr(input_data)'
  <2>1. MoverOK /\ Mover!Edge
    BY DEF MovementInv, Types, Clock
  <2>2. dm_state' = "SEND_INSTR" => dm_state \in {"DECODE", "SEND_INSTR"} /\ input_data' = input_data
    BY <2>1 DEF MoverOK, Mover!Edge, Mover!df_dm_in_rd_en
  <2> QED BY <1>1, <2>1, <2>2 DEF Mover!Edge, MoveOrder
<1>14. sent = 1 => /\ instr_axi = AxiPart[transfers + AxiHalves + 1]
                   /\ instr_sram = SramPart[transfers + AxiHalves + 1]
  <2>1. transfers + AxiHalves + 1 \in Nat
    BY <1>2
  <2>2. sent = 1 => dm_state = "SEND_INSTR"
    BY DEF One, Mover!wr_en
  <2> QED BY <1>1, <2>1, <2>2 DEF MoveOrder, AxiPart, SramPart
<1>15. InLine(dm_axi_q', AxiPart, transfers' + AxiBusy')
  <2> DEFINE b == transfers + AxiBusy
  <2>1. /\ ag = 1 => dm_axi_q # <<>>
        /\ sent = 1 => instr_axi \in Instrs
    BY DEF One, MovementInv, Gets, Types, MoverOK
  <2>2. Queue(dm_axi_q, Instrs) /\ InLine(dm_axi_q, AxiPart, b)
    BY <1>1 DEF MovementInv, Types, QueuesOK, MoveOrder
  <2>3. dm_axi_q' = After(dm_axi_q, ag, sent, instr_axi)
    BY DmAxiEdge
  <2> HIDE DEF ag, sent, finished
  <2>4. b \in Nat /\ transfers' + AxiBusy' = b + ag
    BY <1>2, <1>3, <1>4
  <2>5. sent = 1 => instr_axi = AxiPart[b + Len(dm_axi_q) + 1]
    <3>1. b + Len(dm_axi_q) + 1 = transfers + AxiHalves + 1
      BY <1>2, <1>7
    <3> QED BY <1>14, <3>1
  <2> HIDE DEF b
  <2>6. InLine(After(dm_axi_q, ag, sent, instr_axi), AxiPart, b + ag)
    BY <1>3, <2>1, <2>2, <2>4, <2>5, Slide
  <2> QED BY <2>3, <2>4, <2>6
<1>16. InLine(dm_sram_q', SramPart, transfers' + SramBusy')
  <2> DEFINE b == transfers + SramBusy
  <2>1. /\ sg = 1 => dm_sram_q # <<>>
        /\ sent = 1 => instr_sram \in Instrs
    BY DEF One, MovementInv, Gets, Types, MoverOK
  <2>2. Queue(dm_sram_q, Instrs) /\ InLine(dm_sram_q, SramPart, b)
    BY <1>1 DEF MovementInv, Types, QueuesOK, MoveOrder
  <2>3. dm_sram_q' = After(dm_sram_q, sg, sent, instr_sram)
    BY DmSramEdge
  <2> HIDE DEF sg, sent, finished
  <2>4. b \in Nat /\ transfers' + SramBusy' = b + sg
    BY <1>2, <1>3, <1>4
  <2>5. sent = 1 => instr_sram = SramPart[b + Len(dm_sram_q) + 1]
    <3>1. b + Len(dm_sram_q) + 1 = transfers + AxiHalves + 1
      BY <1>2, <1>7
    <3> QED BY <1>14, <3>1
  <2> HIDE DEF b
  <2>6. InLine(After(dm_sram_q, sg, sent, instr_sram), SramPart, b + sg)
    BY <1>3, <2>1, <2>2, <2>4, <2>5, Slide
  <2> QED BY <2>3, <2>4, <2>6
<1> QED BY <1>5, <1>8, <1>9, <1>10, <1>11, <1>12, <1>13, <1>15, <1>16 DEF MoveOrder

(* The slave answers only what the master has asked for.                   *)
LEMMA SlaveStep ==
  ASSUME MovementInv, SlaveFollows, NEW request \in BOOLEAN, Clock(request)
  PROVE  SlaveFollows'
<1>1. /\ MasterOK /\ Axi!Edge
      /\ SystemMemory!ReadEdge(Axi!arvalid, axi_addr, Axi!burst, Axi!rready)
      /\ SystemMemory!WriteEdge(Axi!awvalid, axi_addr, Axi!wvalid, Mid!dout, Axi!wlast, Axi!bready)
  BY DEF MovementInv, Types, Clock, ClockMemory
<1>2. axi_state' = Axi!StateNext
  BY <1>1 DEF Axi!Edge
<1>3. r_state' = IF axi_state' \in {"s_df_r", "s_dm_rd_r"} THEN "R_ISSUE" ELSE "R_IDLE"
  BY <1>1, <1>2
     DEF SlaveFollows, MasterOK, AxiFetches, AxiMoves, Axi!StateNext, Axi!arvalid, Axi!rready, Axi!r_hs,
         SystemMemory!ReadEdge, SystemMemory!arready, SystemMemory!rvalid
<1>4. w_state' = "W_DATA" <=> axi_state' = "s_dm_wr_w"
  BY <1>1, <1>2
     DEF SlaveFollows, MasterOK, AxiFetches, AxiMoves, Axi!StateNext, Axi!awvalid, Axi!wvalid, Axi!w_hs,
         SystemMemory!WriteEdge, SystemMemory!awready, SystemMemory!wready
<1> QED BY <1>3, <1>4 DEF SlaveFollows

(* The words of the ring are those of the program.                         *)
LEMMA RingWord ==
  ASSUME program \in Seq(Descriptors), NEW k \in 1 .. Len(program), NEW w \in 0 .. DESC_WORDS - 1
  PROVE  /\ RingSlot(k) + w \in DATA_WORDS .. MEM_WORDS - 1 /\ RingSlot(k) + w < MEM_WORDS
         /\ InitialRam(program)[RingSlot(k) + w] = program[k][w + 1]
<1> DEFINE a == RingSlot(k) + w
<1>1. /\ DESC_WORDS = 4 /\ DATA_WORDS \in Nat /\ Len(program) \in Nat
      /\ MEM_WORDS = DATA_WORDS + 4 * Len(program)
  BY Sizes DEF MEM_WORDS
<1>2. a = DATA_WORDS + 4 * (k - 1) + w
  BY <1>1 DEF RingSlot
<1> HIDE DEF a
<1>3. a \in DATA_WORDS .. MEM_WORDS - 1 /\ a < MEM_WORDS /\ a \in 0 .. MEM_WORDS - 1
      /\ ~(a < DATA_WORDS)
  BY <1>1, <1>2
<1>4. (a - DATA_WORDS) \div 4 = k - 1 /\ (a - DATA_WORDS) % 4 = w
  <2> DEFINE i == a - DATA_WORDS
  <2>1. i = 4 * (k - 1) + w /\ i \in Nat
    BY <1>1, <1>2
  <2> HIDE DEF i
  <2>2. i \div 4 = k - 1 /\ i % 4 = w
    BY <1>1, <2>1
  <2> QED BY <2>2 DEF i
<1>5. InitialRam(program)[a] = program[k][w + 1]
  <2>1. a \in 0 .. DATA_WORDS + DESC_WORDS * Len(program) - 1
    BY <1>1, <1>3
  <2>2. InitialRam(program)[a] =
          program[((a - DATA_WORDS) \div DESC_WORDS) + 1][((a - DATA_WORDS) % DESC_WORDS) + 1]
    BY <1>3, <2>1 DEF InitialRam
  <2>3. ((a - DATA_WORDS) \div DESC_WORDS) + 1 = k /\ ((a - DATA_WORDS) % DESC_WORDS) + 1 = w + 1
    BY <1>1, <1>4
  <2> QED BY <2>2, <2>3
<1> QED BY <1>3, <1>5 DEF a

(* The burst that fetches a descriptor brings its words in order.          *)
LEMMA FetchBurstStep ==
  ASSUME MovementInv, ProgramOK, OrderInv, LEN_RANGE >= DESC_WORDS,
         NEW request \in BOOLEAN, Clock(request)
  PROVE  FetchBurst'
<1>1. /\ MasterOK /\ Axi!Edge /\ MemoryOK /\ FetchBurst /\ SlaveFollows
      /\ SystemMemory!ReadEdge(Axi!arvalid, axi_addr, Axi!burst, Axi!rready)
      /\ DESC_WORDS = 4 /\ LEN_RANGE \in Nat /\ LEN_RANGE >= 4
  BY Sizes DEF MovementInv, Types, Clock, ClockMemory, OrderInv
<1>2. axi_state' = Axi!StateNext
  BY <1>1 DEF Axi!Edge
<1>3. Fetched' = Fetched + One(Axi!df_out_wr_en) /\ Fetched \in Nat /\ program' = program
  <2>1. transfers \in Nat /\ Checks \in Nat /\ Len(df_out_q) \in Nat
    BY Held DEF HeldCounts, OrderInv, MoveOrder
  <2> QED BY <2>1, Flow DEF Fetched, Clock
<1>4. ASSUME axi_state' \in AxiFetches
      PROVE  Fetched' = Fetched /\ RingSlot(Fetched)' = RingSlot(Fetched)
  <2>1. One(Axi!df_out_wr_en) = 0
    BY <1>1, <1>2, <1>4 DEF MasterOK, AxiFetches, AxiMoves, Axi!StateNext, Axi!df_out_wr_en, One
  <2>2. Fetched' = Fetched
    BY <1>3, <2>1
  <2> QED BY <2>2 DEF RingSlot
<1>5. CASE axi_state = "s_df_get"
  <2>1. axi_state' = "s_df_ar" /\ axi_addr' = DfIn!dout /\ axi_len' = DESC_WORDS /\ axi_beat' = 0
    BY <1>1, <1>2, <1>5 DEF Axi!StateNext, Axi!Edge, Axi!df_in_rd_en
  <2> DEFINE b == Checks + Len(df_out_q) + One(axi_state \in AxiFetches)
  <2>2. df_in_q # <<>> /\ Queue(df_in_q, Nat) /\ InLine(df_in_q, Slots, b)
    BY <1>5 DEF MovementInv, Gets, Types, QueuesOK, OrderInv, FetchOrder
  <2>3. b + 1 = Fetched
    <3>1. Checks \in Nat /\ Len(df_out_q) \in Nat /\ One(axi_state \in AxiFetches) = 0
      BY <1>5, Held DEF HeldCounts, One, AxiFetches
    <3> QED BY <3>1 DEF Fetched
  <2> HIDE DEF b
  <2>4. DfIn!dout = Slots[b + 1]
    BY <2>2, First DEF DfIn!dout
  <2>5. Slots[b + 1] = RingSlot(Fetched)
    BY <1>3, <2>3 DEF Slots
  <2>6. axi_addr' = RingSlot(Fetched)'
    BY <1>4, <2>1, <2>4, <2>5 DEF AxiFetches
  <2> QED BY <2>1, <2>6 DEF FetchBurst
<1>6. CASE axi_state = "s_df_ar"
  <2>1. axi_state' = "s_df_r" /\ axi_addr' = axi_addr /\ axi_beat' = axi_beat
    BY <1>1, <1>2, <1>6 DEF Axi!StateNext, Axi!Edge, Axi!df_in_rd_en, Axi!dm_in_rd_en, Axi!awvalid,
         Axi!w_hs, Axi!wvalid, SlaveFollows, SystemMemory!arready
  <2>2. r_addr' = axi_addr /\ r_last_beat' = DESC_WORDS - 1 /\ r_beat' = 0
    BY <1>1, <1>6 DEF FetchBurst, SystemMemory!ReadEdge, SystemMemory!arready, Axi!arvalid, Axi!burst, SlaveFollows
  <2>3. axi_addr' = RingSlot(Fetched)' /\ axi_beat' = 0
    BY <1>1, <1>4, <1>6, <2>1 DEF AxiFetches, FetchBurst
  <2> QED BY <1>1, <2>1, <2>2, <2>3 DEF FetchBurst
<1>7. CASE axi_state = "s_df_r"
  <2>1. Axi!r_hs /\ SystemMemory!rvalid /\ Axi!rready
    BY <1>1, <1>7 DEF Axi!r_hs, Axi!rready, SystemMemory!rvalid, SlaveFollows
  <2>2. /\ r_addr = RingSlot(Fetched) /\ axi_addr = RingSlot(Fetched) /\ r_last_beat = 3
        /\ r_beat = axi_beat /\ axi_beat \in 0 .. 3
        /\ \A w \in 1 .. axi_beat : desc_buf[w] = program[Fetched][w]
    BY <1>1, <1>7 DEF FetchBurst, AxiFetches, MasterOK
  <2>3. Fetched \in 1 .. Len(program)
    <3>1. requested <= Len(program) /\ Len(program) \in Nat
      BY ProgramSizes DEF OrderInv, FetchOrder, ProgramOK
    <3> DEFINE h == One(df_in_din # None)
    <3>2. /\ BeforeCheck = h + Len(df_in_q) + Len(df_out_q) + 1 /\ requested = Checks + BeforeCheck
          /\ Checks \in Nat /\ Len(df_in_q) \in Nat /\ Len(df_out_q) \in Nat
      BY <1>7, Held DEF HeldCounts, One, AxiFetches
    <3>3. h \in Nat
      BY DEF One
    <3> HIDE DEF h
    <3>4. Checks + Len(df_out_q) + 1 <= Len(program)
      BY <3>1, <3>2, <3>3
    <3> QED BY <3>1, <3>2, <3>4 DEF Fetched
  <2>4. SystemMemory!rdata = program[Fetched][axi_beat + 1]
    <3>1. program \in Seq(Descriptors)
      BY DEF ProgramOK
    <3>2. /\ RingSlot(Fetched) + axi_beat \in DATA_WORDS .. MEM_WORDS - 1
          /\ RingSlot(Fetched) + axi_beat < MEM_WORDS
          /\ InitialRam(program)[RingSlot(Fetched) + axi_beat] = program[Fetched][axi_beat + 1]
      BY <1>1, <2>2, <2>3, <3>1, RingWord
    <3> QED BY <2>2, <3>2 DEF SystemMemory!rdata, OrderInv, RingKept
  <2>5. desc_buf' = [desc_buf EXCEPT ![axi_beat + 1] = program[Fetched][axi_beat + 1]]
    BY <1>1, <1>7, <2>1, <2>4 DEF Axi!Edge, Axi!df_in_rd_en
  <2>6. /\ desc_buf \in [1 .. 4 -> Nat] /\ desc_buf' \in [1 .. 4 -> Nat]
        /\ program[Fetched] \in [1 .. 4 -> Nat]
    BY <1>1, <2>3, MasterEdge, ProgramSizes DEF MasterOK, Descriptors, ProgramOK
  <2>7. \A w \in 1 .. axi_beat + 1 : desc_buf'[w] = program[Fetched][w]
    BY <2>2, <2>5, <2>6
  <2>8. CASE axi_beat = 3
    <3>1. axi_state' = "s_df_push" /\ axi_addr' = axi_addr
      BY <1>1, <1>2, <1>7, <2>1, <2>2, <2>8
         DEF Axi!StateNext, Axi!Edge, Axi!df_in_rd_en, Axi!dm_in_rd_en, SystemMemory!rlast
    <3>2. \A w \in 1 .. 4 : desc_buf'[w] = program[Fetched][w]
      BY <2>7, <2>8
    <3>3. desc_buf' = program[Fetched]
      BY <2>6, <3>2
    <3>4. axi_addr' = RingSlot(Fetched)' /\ desc_buf' = program'[Fetched']
      BY <1>3, <1>4, <2>2, <3>1, <3>3 DEF AxiFetches
    <3> QED BY <3>1, <3>4 DEF FetchBurst
  <2>9. CASE axi_beat # 3
    <3>1. axi_state' = "s_df_r" /\ axi_addr' = axi_addr
      BY <1>1, <1>2, <1>7, <2>1, <2>2, <2>9
         DEF Axi!StateNext, Axi!Edge, Axi!df_in_rd_en, Axi!dm_in_rd_en, SystemMemory!rlast
    <3>2. axi_beat' = axi_beat + 1
      <4>1. axi_beat' = (axi_beat + 1) % LEN_RANGE
        BY <1>1, <1>7, <2>1 DEF Axi!Edge, Axi!df_in_rd_en, Axi!dm_in_rd_en, Axi!awvalid, Axi!Bump
      <4>2. axi_beat + 1 \in 0 .. LEN_RANGE - 1
        BY <1>1, <2>2, <2>9
      <4> QED BY <1>1, <4>1, <4>2
    <3>3. r_addr' = r_addr /\ r_last_beat' = r_last_beat /\ r_beat' = r_beat + 1
      BY <1>1, <1>7, <2>1, <2>2, <2>9
         DEF SystemMemory!ReadEdge, SystemMemory!rlast, Axi!arvalid
    <3>4. /\ r_addr' = axi_addr' /\ r_last_beat' = DESC_WORDS - 1 /\ r_beat' = axi_beat'
          /\ axi_beat' < DESC_WORDS
      BY <1>1, <2>2, <2>9, <3>1, <3>2, <3>3
    <3>5. axi_addr' = RingSlot(Fetched)'
      BY <1>4, <2>2, <3>1 DEF AxiFetches
    <3>6. \A w \in 1 .. axi_beat' : desc_buf'[w] = program'[Fetched'][w]
      BY <1>3, <1>4, <2>7, <3>1, <3>2 DEF AxiFetches
    <3> QED BY <3>1, <3>4, <3>5, <3>6 DEF FetchBurst
  <2> QED BY <2>8, <2>9
<1>8. CASE axi_state = "s_df_push"
  <2>1. axi_state' \in AxiFetches => axi_state' = "s_df_push" /\ axi_addr' = axi_addr /\ desc_buf' = desc_buf
    BY <1>1, <1>2, <1>8 DEF AxiFetches, Axi!StateNext, Axi!Edge, Axi!df_in_rd_en, Axi!dm_in_rd_en
  <2>2. axi_addr = RingSlot(Fetched) /\ desc_buf = program[Fetched]
    BY <1>1, <1>8 DEF FetchBurst, AxiFetches
  <2>3. axi_state' \in AxiFetches =>
          /\ axi_state' = "s_df_push"
          /\ axi_addr' = RingSlot(Fetched)' /\ desc_buf' = program'[Fetched']
    BY <1>3, <1>4, <2>1, <2>2
  <2> QED BY <2>3 DEF FetchBurst, AxiFetches
<1>9. CASE axi_state \notin AxiFetches \cup {"s_df_get"}
  <2>1. axi_state' \notin AxiFetches
    BY <1>1, <1>2, <1>9 DEF MasterOK, AxiFetches, AxiMoves, Axi!StateNext
  <2> QED BY <2>1 DEF FetchBurst, AxiFetches
<1> QED BY <1>5, <1>6, <1>7, <1>8, <1>9 DEF AxiFetches

(* The engine writes a word of system memory only below the ring.          *)
LEMMA RingStep ==
  ASSUME MovementInv, ProgramOK, OrderInv, AxiBurst, NEW request \in BOOLEAN, Clock(request)
  PROVE  RingKept'
<1>1. /\ MemoryOK /\ MasterOK /\ RingKept /\ SlaveFollows
      /\ SystemMemory!WriteEdge(Axi!awvalid, axi_addr, Axi!wvalid, Mid!dout, Axi!wlast, Axi!bready)
      /\ program' = program /\ MEM_WORDS' = MEM_WORDS
  BY Fixed DEF MovementInv, Types, Clock, ClockMemory, OrderInv
<1>2. ASSUME SystemMemory!wready
      PROVE  w_addr + w_beat < DATA_WORDS /\ w_addr + w_beat \in Nat
  <2>1. axi_state = "s_dm_wr_w"
    BY <1>1, <1>2 DEF SlaveFollows, SystemMemory!wready
  <2>2. AxiHalves > 0
    <3>1. AxiBusy = 1
      BY <2>1 DEF AxiBusy, One, AxiMoves
    <3>2. AxiHalves = Len(dm_axi_q) + AxiBusy /\ Len(dm_axi_q) \in Nat
      BY Held DEF HeldCounts
    <3> QED BY <3>1, <3>2
  <2>3. Now \in Descriptors /\ ~Bad(Now) /\ Within(Now) /\ Now[2] \in Nat
        /\ Words(Now) \in 1 .. LEN_RANGE - 1
    BY <2>2, AtWork
  <2>4. ~Up /\ w_addr = Mover!AxiInstr(Now).addr /\ w_beat < Words(Now) /\ w_beat \in Nat
    BY <1>1, <2>1 DEF AxiBurst, AxiMoves, MemoryOK
  <2>5. w_addr = Now[2] /\ Now[2] + Words(Now) <= DATA_WORDS
    BY <2>3, <2>4 DEF Up, Mover!AxiInstr, Mover!Instr, Within
  <2> QED BY <2>3, <2>4, <2>5, Sizes
<1>3. \A a \in DATA_WORDS .. MEM_WORDS - 1 : ram'[a] = ram[a]
  BY <1>1, <1>2, Sizes DEF SystemMemory!WriteEdge, MemoryOK
<1>4. InitialRam(program)' = InitialRam(program)
  BY <1>1 DEF InitialRam
<1> QED BY <1>1, <1>3, <1>4 DEF RingKept

(* Everything about the order.                                             *)
LEMMA OrderStep ==
  ASSUME MovementInv, ProgramOK, OrderInv, AxiBurst, LEN_RANGE >= DESC_WORDS,
         NEW request \in BOOLEAN, Clock(request)
  PROVE  OrderInv'
BY RingStep, FetchOrderStep, FetchBurstStep, MoveOrderStep, SlaveStep DEF OrderInv
-----------------------------------------------------------------------------
(* The transfer at work.                                                   *)

(* The two counters of a burst, LEN[7:0] wide, meet the last beat at its   *)
(* last word and do not wrap before.                                       *)
LEMMA Beats ==
  ASSUME NEW n \in 1 .. LEN_RANGE - 1, NEW b \in 0 .. n - 1
  PROVE  /\ b = (n + LEN_RANGE - 1) % LEN_RANGE <=> b = n - 1
         /\ b # n - 1 => (b + 1) % LEN_RANGE = b + 1 /\ b + 1 \in 0 .. n - 1
<1>1. LEN_RANGE \in Nat /\ LEN_RANGE > 0
  BY Sizes
<1>2. (n - 1 + LEN_RANGE) % LEN_RANGE = n - 1
  <2>1. n - 1 \in 0 .. LEN_RANGE - 1 /\ n - 1 + LEN_RANGE \in Nat
    BY <1>1
  <2> QED BY <1>1, <2>1
<1>3. n - 1 + LEN_RANGE = n + LEN_RANGE - 1
  BY <1>1
<1>4. b + 1 \in 0 .. LEN_RANGE - 1 /\ n \in Nat /\ b \in Nat
  BY <1>1
<1>5. (b + 1) % LEN_RANGE = b + 1
  BY <1>1, <1>4
<1> QED BY <1>2, <1>3, <1>4, <1>5

(* Without a handshake the transfer stays the same.                        *)
LEMMA SameTransfer ==
  ASSUME MovementInv, OrderInv, NEW request \in BOOLEAN, Clock(request), ~handshake_done
  PROVE  /\ transfers' = transfers /\ Now' = Now /\ (Up' <=> Up) /\ Words(Now)' = Words(Now)
         /\ Before' = Before /\ Source' = Source
<1>1. transfers' = transfers /\ program' = program
  BY DEF Clock, OrderInv, MoveOrder
<1>2. Now' = Now /\ Before' = Before
  BY <1>1, Fixed DEF Now, Before
<1>3. (Up' <=> Up) /\ Words(Now)' = Words(Now)
  BY <1>2 DEF Up, Words
<1>4. Source' = Source
  BY <1>2, <1>3 DEF Source
<1> QED BY <1>1, <1>2, <1>3, <1>4

(* An engine that holds or takes an instruction works on a transfer.       *)
LEMMA Working ==
  ASSUME MovementInv
  PROVE  /\ axi_state \in AxiMoves \cup {"s_dm_get"} => AxiHalves > 0
         /\ sram_state \in SramMoves \cup {"s_dm_get"} => AxiHalves > 0
<1>1. /\ AxiHalves = Len(dm_axi_q) + AxiBusy /\ AxiHalves = Len(dm_sram_q) + SramBusy
      /\ Len(dm_axi_q) \in Nat /\ Len(dm_sram_q) \in Nat
      /\ AxiBusy \in {0, 1} /\ SramBusy \in {0, 1}
  BY Held DEF HeldCounts
<1>2. /\ axi_state \in AxiMoves => AxiBusy = 1
      /\ sram_state \in SramMoves => SramBusy = 1
  BY DEF AxiBusy, SramBusy, One
<1>3. /\ axi_state = "s_dm_get" => Len(dm_axi_q) > 0
      /\ sram_state = "s_dm_get" => Len(dm_sram_q) > 0
  BY DEF MovementInv, Gets, Types, QueuesOK, Queue
<1> QED BY <1>1, <1>2, <1>3

(* The instruction each engine takes is its half of that transfer.         *)
LEMMA Instructed ==
  ASSUME MovementInv, OrderInv
  PROVE  /\ axi_state = "s_dm_get" => DmAxi!dout = Mover!AxiInstr(Now)
         /\ sram_state = "s_dm_get" => DmSram!dout = Mover!SramInstr(Now)
<1>1. transfers \in Nat /\ transfers + 1 \in Nat
  BY DEF OrderInv, MoveOrder
<1>2. AxiPart[transfers + 1] = Mover!AxiInstr(Now) /\ SramPart[transfers + 1] = Mover!SramInstr(Now)
  BY <1>1 DEF AxiPart, SramPart, Now
<1>3. ASSUME axi_state = "s_dm_get" PROVE DmAxi!dout = Mover!AxiInstr(Now)
  <2>1. AxiBusy = 0 /\ transfers + AxiBusy = transfers
    BY <1>1, <1>3 DEF AxiBusy, One, AxiMoves
  <2>2. dm_axi_q # <<>> /\ Queue(dm_axi_q, Instrs) /\ InLine(dm_axi_q, AxiPart, transfers + AxiBusy)
    BY <1>3 DEF MovementInv, Gets, Types, QueuesOK, OrderInv, MoveOrder
  <2>3. DmAxi!dout = AxiPart[(transfers + AxiBusy) + 1]
    BY <2>2, First DEF DmAxi!dout
  <2> QED BY <1>2, <2>1, <2>3
<1>4. ASSUME sram_state = "s_dm_get" PROVE DmSram!dout = Mover!SramInstr(Now)
  <2>1. SramBusy = 0 /\ transfers + SramBusy = transfers
    BY <1>1, <1>4 DEF SramBusy, One, SramMoves
  <2>2. dm_sram_q # <<>> /\ Queue(dm_sram_q, Instrs) /\ InLine(dm_sram_q, SramPart, transfers + SramBusy)
    BY <1>4 DEF MovementInv, Gets, Types, QueuesOK, OrderInv, MoveOrder
  <2>3. DmSram!dout = SramPart[(transfers + SramBusy) + 1]
    BY <2>2, First DEF DmSram!dout
  <2> QED BY <1>2, <2>1, <2>3
<1> QED BY <1>3, <1>4

(* The burst of the AXI side.                                              *)
LEMMA AxiBurstStep ==
  ASSUME MovementInv, ProgramOK, OrderInv, AxiBurst, NEW request \in BOOLEAN, Clock(request)
  PROVE  AxiBurst'
<1>1. /\ MasterOK /\ MemoryOK /\ Axi!Edge /\ SlaveFollows
      /\ SystemMemory!ReadEdge(Axi!arvalid, axi_addr, Axi!burst, Axi!rready)
      /\ SystemMemory!WriteEdge(Axi!awvalid, axi_addr, Axi!wvalid, Mid!dout, Axi!wlast, Axi!bready)
  BY DEF MovementInv, Types, Clock, ClockMemory, OrderInv
<1>2. axi_state' = Axi!StateNext
  BY <1>1 DEF Axi!Edge
<1>3. CASE axi_state' \notin AxiMoves
  BY <1>3 DEF AxiBurst, AxiMoves
<1>4. CASE axi_state' \in AxiMoves
  <2>1. ~handshake_done
    BY <1>4, MasterEdge DEF AxiMoves
  <2>2. Now' = Now /\ (Up' <=> Up) /\ Words(Now)' = Words(Now)
        /\ Mover!AxiInstr(Now)' = Mover!AxiInstr(Now)
    <3>1. Now' = Now /\ (Up' <=> Up) /\ Words(Now)' = Words(Now)
      BY <2>1, SameTransfer
    <3> QED BY <3>1
  <2>3. axi_state \in AxiMoves \cup {"s_dm_get"}
    BY <1>1, <1>2, <1>4 DEF MasterOK, AxiFetches, AxiMoves, Axi!StateNext
  <2>4. Words(Now) \in 1 .. LEN_RANGE - 1 /\ Words(Now) \in Nat /\ Words(Now) > 0
    <3>1. Words(Now) \in 1 .. LEN_RANGE - 1
      BY <2>3, Working, AtWork
    <3> QED BY <3>1, Sizes
  <2>5. CASE axi_state = "s_dm_get"
    <3>1. DmAxi!dout = Mover!AxiInstr(Now)
      BY <2>5, Instructed
    <3>2. /\ axi_addr' = Mover!AxiInstr(Now).addr /\ axi_len' = Words(Now)
          /\ axi_state' = IF Up THEN "s_dm_rd_ar" ELSE "s_dm_wr_aw"
      BY <1>1, <1>2, <2>5, <3>1
         DEF Axi!StateNext, Axi!Edge, Axi!df_in_rd_en, Axi!dm_in_rd_en, Mover!AxiInstr, Mover!Instr,
             Words, Up
    <3> QED BY <2>2, <3>2 DEF AxiBurst, AxiMoves
  <2>6. CASE axi_state \in AxiMoves
    <3>1. axi_addr' = axi_addr /\ axi_len' = axi_len
      BY <1>1, <2>6 DEF Axi!Edge, Axi!df_in_rd_en, Axi!dm_in_rd_en, AxiMoves
    <3>2. axi_addr = Mover!AxiInstr(Now).addr /\ axi_len = Words(Now)
      BY <2>6 DEF AxiBurst
    <3>3. /\ axi_state' \in {"s_dm_rd_ar", "s_dm_rd_r"} => axi_state \in {"s_dm_rd_ar", "s_dm_rd_r"}
          /\ axi_state' \in {"s_dm_wr_aw", "s_dm_wr_w", "s_dm_wr_b"} =>
               axi_state \in {"s_dm_wr_aw", "s_dm_wr_w", "s_dm_wr_b"}
      BY <1>2, <2>6 DEF AxiMoves, Axi!StateNext
    <3>4. ASSUME axi_state' = "s_dm_rd_r"
          PROVE  r_addr' = axi_addr' /\ r_last_beat' = axi_len' - 1 /\ r_beat' < axi_len'
      <4>1. CASE axi_state = "s_dm_rd_ar"
        <5>1. r_addr' = axi_addr /\ r_last_beat' = Axi!burst /\ r_beat' = 0
          BY <1>1, <4>1 DEF SystemMemory!ReadEdge, SystemMemory!arready, Axi!arvalid, SlaveFollows
        <5>2. Axi!burst = axi_len - 1
          BY <2>4, <3>2 DEF Axi!burst
        <5> QED BY <2>4, <3>1, <3>2, <5>1, <5>2
      <4>2. CASE axi_state = "s_dm_rd_r"
        <5>1. r_addr = axi_addr /\ r_last_beat = axi_len - 1 /\ r_beat < axi_len /\ r_beat \in Nat
          BY <1>1, <4>2 DEF AxiBurst, MemoryOK
        <5>2. /\ r_addr' = r_addr /\ r_last_beat' = r_last_beat
              /\ r_beat' = r_beat \/ (r_beat' = r_beat + 1 /\ r_beat # r_last_beat)
          BY <1>1, <4>2 DEF SystemMemory!ReadEdge, SystemMemory!rlast, Axi!arvalid
        <5> QED BY <2>4, <3>1, <3>2, <5>1, <5>2
      <4> QED BY <1>2, <2>6, <3>4, <4>1, <4>2 DEF AxiMoves, Axi!StateNext
    <3>5. ASSUME axi_state' = "s_dm_wr_w"
          PROVE  w_addr' = axi_addr' /\ w_beat' = axi_beat' /\ axi_beat' < axi_len'
      <4>1. CASE axi_state = "s_dm_wr_aw"
        <5>1. SystemMemory!awready
          BY <1>1, <1>2, <3>5, <4>1 DEF Axi!StateNext
        <5>2. w_addr' = axi_addr /\ w_beat' = 0 /\ axi_beat' = 0
          BY <1>1, <4>1, <5>1 DEF SystemMemory!WriteEdge, Axi!awvalid, Axi!Edge
        <5> QED BY <2>4, <3>1, <3>2, <5>2
      <4>2. CASE axi_state = "s_dm_wr_w"
        <5>1. w_addr = axi_addr /\ w_beat = axi_beat /\ axi_beat < axi_len /\ axi_beat \in Nat
          BY <1>1, <4>2 DEF AxiBurst, MasterOK
        <5>2. w_addr' = w_addr /\ SystemMemory!wready
          BY <1>1, <4>2 DEF SystemMemory!WriteEdge, Axi!awvalid, SlaveFollows, SystemMemory!wready
        <5>3. CASE ~Axi!wvalid
          <6>1. w_beat' = w_beat /\ axi_beat' = axi_beat
            BY <1>1, <4>2, <5>3 DEF SystemMemory!WriteEdge, Axi!awvalid, Axi!Edge, Axi!w_hs,
               Axi!df_in_rd_en, Axi!dm_in_rd_en
          <6> QED BY <3>1, <5>1, <5>2, <6>1
        <5>4. CASE Axi!wvalid
          <6>1. ~Axi!wlast
            BY <1>2, <3>5, <4>2, <5>2, <5>4 DEF Axi!StateNext, Axi!w_hs
          <6>2. w_beat' = w_beat + 1 /\ axi_beat' = (axi_beat + 1) % LEN_RANGE
            BY <1>1, <4>2, <5>2, <5>4, <6>1 DEF SystemMemory!WriteEdge, Axi!awvalid, Axi!Edge, Axi!w_hs,
               Axi!df_in_rd_en, Axi!dm_in_rd_en, Axi!Bump
          <6>3. axi_beat # (axi_len + LEN_RANGE - 1) % LEN_RANGE
            BY <6>1 DEF Axi!wlast
          <6>4. axi_beat \in 0 .. axi_len - 1 /\ axi_len \in 1 .. LEN_RANGE - 1
            BY <2>4, <3>2, <5>1
          <6>5. (axi_beat + 1) % LEN_RANGE = axi_beat + 1 /\ axi_beat + 1 \in 0 .. axi_len - 1
            BY <6>3, <6>4, Beats
          <6> QED BY <2>4, <3>1, <3>2, <5>1, <5>2, <6>2, <6>5
        <5> QED BY <5>3, <5>4
      <4> QED BY <1>2, <2>6, <3>5, <4>1, <4>2 DEF AxiMoves, Axi!StateNext
    <3> QED BY <2>2, <3>1, <3>2, <3>3, <3>4, <3>5 DEF AxiBurst
  <2> QED BY <2>3, <2>5, <2>6
<1> QED BY <1>3, <1>4

(* The memories before the transfer at work have their sizes.              *)
LEMMA BeforeType ==
  ASSUME MovementInv, ProgramOK, OrderInv
  PROVE  Before \in Memories
<1>1. Len(program) \in Nat /\ Checks \in 0 .. Len(program) /\ transfers \in Nat
  BY ProgramSizes, AtWork DEF ProgramOK, OrderInv, MoveOrder
<1>2. CASE transfers = 0
  BY <1>1, <1>2, GoldenType DEF Before
<1>3. CASE transfers # 0
  <2>1. Passed(Checks) = transfers + AxiHalves + Checked /\ AxiHalves \in Nat /\ Checked \in Nat
    BY Held DEF HeldCounts, OrderInv, MoveOrder
  <2>2. 1 <= transfers /\ transfers <= Passed(Checks)
    BY <1>1, <1>3, <2>1
  <2>3. Nth(transfers) \in 1 .. Checks
    BY <1>1, <2>2, NthIs
  <2>4. Nth(transfers) \in 0 .. Len(program)
    BY <1>1, <2>3
  <2> QED BY <1>3, <2>4, GoldenType DEF Before
<1> QED BY <1>2, <1>3

(* The burst of the SRAM side; the read-ahead has the word to push next.   *)
LEMMA SramBurstStep ==
  ASSUME MovementInv, ProgramOK, OrderInv, SramBurst, AxiHalves > 0 => CopyState,
         ReadAheadNeverStalls, NEW request \in BOOLEAN, Clock(request)
  PROVE  SramBurst'
<1>1. SramOK /\ Sram!Edge(Axi!axi_done)
  BY DEF MovementInv, Types, Clock
<1>2. sram_state' = Sram!StateNext(Axi!axi_done)
  BY <1>1 DEF Sram!Edge
<1>3. CASE sram_state' \notin {"s_writing", "s_reading"}
  BY <1>3 DEF SramBurst
<1>4. CASE sram_state' \in {"s_writing", "s_reading"}
  <2>1. sram_state \in {"s_dm_get", "s_writing", "s_reading"}
    BY <1>1, <1>2, <1>4 DEF SramOK, SramMoves, Sram!StateNext
  <2>2. ~handshake_done
    BY <2>1 DEF handshake_done, Sram!sram_done
  <2>3. Now' = Now /\ (Up' <=> Up) /\ Words(Now)' = Words(Now) /\ Before' = Before
    BY <2>2, SameTransfer
  <2>4. AxiHalves > 0
    BY <2>1, Working DEF SramMoves
  <2>5. /\ Words(Now) \in 1 .. LEN_RANGE - 1 /\ Words(Now) \in Nat /\ Words(Now) > 0
        /\ Now[1] \in Nat /\ Now[2] \in Nat /\ Within(Now)
    <3>1. Words(Now) \in 1 .. LEN_RANGE - 1
      BY <2>4, AtWork
    <3> QED BY <2>4, <3>1, AtWork, Sizes
  <2>6. ~Up => mem = Before.mem /\ Now[1] + Words(Now) <= BRAM_SIZE
    BY <2>4, <2>5 DEF CopyState, Within, Up
  <2>7. CASE sram_state = "s_dm_get"
    <3>1. DmSram!dout = Mover!SramInstr(Now)
      BY <2>7, Instructed
    <3>2. /\ sram_len' = Words(Now) /\ sram_beat' = 0
          /\ sram_state' = IF Up THEN "s_writing" ELSE "s_reading"
          /\ sram_addr' = IF Up THEN Now[2] ELSE Now[1] + 1
          /\ ~Up => Sram!read_addr = Now[1]
      BY <1>1, <1>2, <2>7, <3>1
         DEF Sram!StateNext, Sram!Edge, Sram!dm_in_rd_en, Sram!read_addr, Mover!SramInstr, Mover!Instr,
             Words, Up
    <3>3. ~Up => dout' = Before.mem[Now[1]]
      <4>1. ~Up => Now[1] \in 0 .. BRAM_SIZE - 1
        BY <2>5, <2>6, Sizes
      <4>2. ~Up => Now[1] % BRAM_SIZE = Now[1]
        BY <4>1, <2>5, Sizes
      <4>3. dout' = mem[Sram!read_addr % BRAM_SIZE]
        BY <1>1 DEF Sram!Edge
      <4> QED BY <2>6, <3>2, <4>2, <4>3
    <3>4. Now[2] + 0 = Now[2] /\ Now[1] + 0 + 1 = Now[1] + 1 /\ Now[1] + 0 = Now[1]
      BY <2>5
    <3> QED BY <2>3, <2>5, <3>2, <3>3, <3>4 DEF SramBurst
  <2>8. CASE sram_state \in {"s_writing", "s_reading"}
    <3> DEFINE moved == Sram!wr_en \/ Sram!push
    <3>1. /\ sram_len = Words(Now) /\ sram_beat \in 0 .. sram_len - 1 /\ sram_beat \in Nat
          /\ sram_len \in 1 .. LEN_RANGE - 1
      BY <2>5, <2>8 DEF SramBurst
    <3>2. /\ sram_len' = sram_len
          /\ sram_addr' = IF moved THEN sram_addr + 1 ELSE sram_addr
          /\ sram_beat' = IF moved THEN (sram_beat + 1) % LEN_RANGE ELSE sram_beat
          /\ sram_state' = sram_state
      BY <1>1, <1>2, <1>4, <2>8 DEF Sram!Edge, Sram!dm_in_rd_en, Sram!StateNext
    <3>3. ASSUME moved PROVE sram_beat' = sram_beat + 1 /\ sram_beat + 1 \in 0 .. sram_len - 1
      <4>1. ~Sram!last_beat
        BY <1>2, <1>4, <2>8, <3>3 DEF Sram!StateNext
      <4>2. sram_beat # (sram_len + LEN_RANGE - 1) % LEN_RANGE
        BY <4>1 DEF Sram!last_beat
      <4> QED BY <3>1, <3>2, <3>3, <4>2, Beats
    <3>4. CASE sram_state = "s_writing"
      <4>1. Up /\ sram_addr = Now[2] + sram_beat
        BY <3>4 DEF SramBurst
      <4>2. sram_addr' = Now[2] + sram_beat' /\ sram_beat' \in Nat /\ sram_beat' < sram_len
        BY <2>5, <3>1, <3>2, <3>3, <4>1
      <4> QED BY <2>3, <3>1, <3>2, <3>4, <4>1, <4>2 DEF SramBurst
    <3>5. CASE sram_state = "s_reading"
      <4>1. ~Up /\ sram_addr = Now[1] + sram_beat + 1
        BY <3>5 DEF SramBurst
      <4>2. moved /\ Sram!read_addr = sram_addr
        BY <3>5 DEF ReadAheadNeverStalls, Sram!push, Sram!read_addr
      <4>3. sram_addr' = Now[1] + sram_beat' + 1 /\ sram_beat' \in Nat /\ sram_beat' < sram_len
            /\ sram_addr = Now[1] + sram_beat'
        BY <2>5, <3>1, <3>2, <3>3, <4>1, <4>2
      <4>4. sram_addr % BRAM_SIZE = sram_addr
        <5>1. sram_addr \in 0 .. BRAM_SIZE - 1
          BY <2>5, <2>6, <3>1, <4>1, <4>3, Sizes
        <5> QED BY <5>1, Sizes
      <4>5. dout' = Before.mem[Now[1] + sram_beat']
        BY <1>1, <2>6, <4>1, <4>2, <4>3, <4>4 DEF Sram!Edge
      <4> QED BY <2>3, <3>1, <3>2, <3>5, <4>1, <4>3, <4>5 DEF SramBurst
    <3> QED BY <2>8, <3>4, <3>5
  <2> QED BY <2>1, <2>7, <2>8
<1> QED BY <1>3, <1>4

(* While neither engine works nothing moves.                               *)
LEMMA Still ==
  ASSUME MovementInv, AxiHalves = 0, NEW request \in BOOLEAN, Clock(request)
  PROVE  /\ mid_q' = mid_q /\ ram' = ram /\ mem' = mem
         /\ axi_state' \notin AxiMoves /\ sram_state' \notin SramMoves /\ ~handshake_done
<1>1. axi_state \notin AxiMoves \cup {"s_dm_get"} /\ sram_state \notin SramMoves \cup {"s_dm_get"}
  BY Working
<1>2. MasterOK /\ SramOK /\ Sram!Edge(Axi!axi_done) /\ Axi!Edge
  BY DEF MovementInv, Types, Clock
<1>3. ~Axi!mid_wr_en /\ ~Axi!mid_rd_en /\ ~Sram!wr_en /\ ~Sram!push /\ ~Axi!wvalid /\ ~handshake_done
  BY <1>1 DEF AxiMoves, SramMoves, Axi!mid_wr_en, Axi!mid_rd_en, Axi!w_hs, Axi!wvalid, Sram!wr_en,
     Sram!push, handshake_done, Axi!axi_done
<1>4. mid_q' = mid_q
  BY <1>3, MidEdge DEF After, Rest, One
<1>5. ram' = ram
  BY <1>3 DEF Clock, ClockMemory, SystemMemory!WriteEdge
<1>6. mem' = mem
  BY <1>2, <1>3 DEF Sram!Edge
<1>7. axi_state' \notin AxiMoves
  BY <1>1, <1>2 DEF MasterOK, Axi!Edge, Axi!StateNext, AxiMoves, AxiFetches
<1>8. sram_state' \notin SramMoves
  BY <1>1, <1>2 DEF SramOK, Sram!Edge, Sram!StateNext, SramMoves
<1> QED BY <1>3, <1>4, <1>5, <1>6, <1>7, <1>8

(* Each engine counts the words it moves through the mid FIFO.             *)
LEMMA Progress ==
  ASSUME MovementInv, ProgramOK, OrderInv, AxiBurst, SramBurst, AxiHalves > 0,
         NEW request \in BOOLEAN, Clock(request), ~handshake_done
  PROVE  /\ AxiWords \in 0 .. Words(Now) /\ SramWords \in 0 .. Words(Now)
         /\ AxiWords' = AxiWords + One(Axi!mid_wr_en \/ Axi!mid_rd_en)
         /\ SramWords' = SramWords + One(Sram!wr_en \/ Sram!push)
<1>1. /\ MasterOK /\ MemoryOK /\ SramOK /\ Axi!Edge /\ Sram!Edge(Axi!axi_done) /\ SlaveFollows
      /\ SystemMemory!ReadEdge(Axi!arvalid, axi_addr, Axi!burst, Axi!rready)
  BY DEF MovementInv, Types, Clock, ClockMemory, OrderInv
<1>2. axi_state' = Axi!StateNext /\ sram_state' = Sram!StateNext(Axi!axi_done)
  BY <1>1 DEF Axi!Edge, Sram!Edge
<1>3. Words(Now)' = Words(Now)
  BY SameTransfer
<1>4. Words(Now) \in 1 .. LEN_RANGE - 1 /\ Words(Now) \in Nat /\ Words(Now) > 0
  <2>1. Words(Now) \in 1 .. LEN_RANGE - 1
    BY AtWork
  <2> QED BY <2>1, Sizes
<1>5. AxiWords \in 0 .. Words(Now)
  BY <1>1, <1>4 DEF AxiWords, AxiBurst, AxiMoves, MasterOK, MemoryOK
<1>6. SramWords \in 0 .. Words(Now)
  BY <1>4 DEF SramWords, SramBurst
<1>7. AxiWords' = AxiWords + One(Axi!mid_wr_en \/ Axi!mid_rd_en)
  <2>1. CASE axi_state \notin {"s_dm_rd_r", "s_dm_wr_w"}
    <3>1. One(Axi!mid_wr_en \/ Axi!mid_rd_en) = 0
      BY <2>1 DEF One, Axi!mid_wr_en, Axi!mid_rd_en, Axi!w_hs, Axi!wvalid
    <3>2. CASE axi_state = "s_dm_rd_ar"
      <4>1. axi_state' = "s_dm_rd_r" /\ r_beat' = 0 /\ AxiWords = 0
        BY <1>1, <1>2, <3>2 DEF Axi!StateNext, Axi!arvalid, SlaveFollows, SystemMemory!arready,
           SystemMemory!ReadEdge, AxiWords
      <4>2. AxiWords' = r_beat'
        BY <4>1 DEF AxiWords
      <4> QED BY <3>1, <4>1, <4>2
    <3>3. CASE axi_state = "s_dm_wr_aw"
      <4>1. /\ axi_state' = "s_dm_wr_aw" \/ (axi_state' = "s_dm_wr_w" /\ axi_beat' = 0)
            /\ AxiWords = 0
        BY <1>1, <1>2, <3>3 DEF Axi!StateNext, Axi!Edge, Axi!awvalid, AxiWords
      <4>2. AxiWords' = 0
        BY <4>1 DEF AxiWords
      <4> QED BY <3>1, <4>1, <4>2
    <3>4. CASE axi_state \in {"s_dm_wr_b", "s_wait_sram"}
      <4>1. axi_state' \in {"s_dm_wr_b", "s_wait_sram"} /\ AxiWords = Words(Now)
        BY <1>2, <3>4 DEF Axi!StateNext, AxiWords, handshake_done, Axi!axi_done
      <4>2. AxiWords' = Words(Now)'
        BY <4>1 DEF AxiWords
      <4> QED BY <1>3, <1>4, <3>1, <4>1, <4>2
    <3>5. CASE axi_state \notin AxiMoves
      <4>1. axi_state' \notin {"s_dm_rd_r", "s_dm_wr_w", "s_dm_wr_b", "s_wait_sram"} /\ AxiWords = 0
        BY <1>1, <1>2, <3>5 DEF Axi!StateNext, MasterOK, AxiFetches, AxiMoves, AxiWords
      <4>2. AxiWords' = 0
        BY <4>1 DEF AxiWords
      <4> QED BY <3>1, <4>1, <4>2
    <3> QED BY <2>1, <3>2, <3>3, <3>4, <3>5 DEF AxiMoves
  <2>2. CASE axi_state = "s_dm_rd_r"
    <3>1. /\ AxiWords = r_beat /\ r_beat \in Nat /\ r_last_beat = Words(Now) - 1
          /\ ~Axi!mid_rd_en /\ SystemMemory!rvalid /\ ~SystemMemory!arready
      BY <1>1, <2>2 DEF AxiWords, MemoryOK, AxiBurst, AxiMoves, Axi!mid_rd_en, Axi!w_hs, Axi!wvalid,
         SystemMemory!rvalid, SystemMemory!arready, SlaveFollows
    <3>2. CASE ~Axi!r_hs
      <4>1. axi_state' = "s_dm_rd_r" /\ r_beat' = r_beat /\ ~Axi!mid_wr_en
        BY <1>1, <1>2, <2>2, <3>1, <3>2 DEF Axi!StateNext, SystemMemory!ReadEdge, Axi!r_hs, Axi!mid_wr_en
      <4> QED BY <3>1, <4>1 DEF AxiWords, One
    <3>3. CASE Axi!r_hs
      <4>1. One(Axi!mid_wr_en \/ Axi!mid_rd_en) = 1 /\ Axi!rready
        BY <2>2, <3>3 DEF Axi!mid_wr_en, One, Axi!r_hs
      <4>2. CASE SystemMemory!rlast
        <5>1. axi_state' = "s_wait_sram"
          BY <1>2, <2>2, <3>3, <4>2 DEF Axi!StateNext
        <5>2. AxiWords' = Words(Now)' /\ r_beat = Words(Now) - 1
          BY <3>1, <4>2, <5>1 DEF AxiWords, SystemMemory!rlast
        <5> QED BY <1>3, <1>4, <3>1, <4>1, <5>2
      <4>3. CASE ~SystemMemory!rlast
        <5>1. axi_state' = "s_dm_rd_r" /\ r_beat' = r_beat + 1
          BY <1>1, <1>2, <2>2, <3>1, <4>1, <4>3 DEF Axi!StateNext, SystemMemory!ReadEdge
        <5> QED BY <3>1, <4>1, <5>1 DEF AxiWords
      <4> QED BY <4>2, <4>3
    <3> QED BY <3>2, <3>3
  <2>3. CASE axi_state = "s_dm_wr_w"
    <3>1. /\ AxiWords = axi_beat /\ axi_len = Words(Now) /\ axi_len \in 1 .. LEN_RANGE - 1
          /\ axi_beat \in 0 .. axi_len - 1 /\ ~Axi!mid_wr_en
      BY <1>1, <1>4, <2>3 DEF AxiWords, MasterOK, AxiBurst, AxiMoves, Axi!mid_wr_en
    <3>2. CASE ~Axi!w_hs
      <4>1. axi_state' = "s_dm_wr_w" /\ axi_beat' = axi_beat /\ ~Axi!mid_rd_en
        BY <1>1, <1>2, <2>3, <3>2 DEF Axi!StateNext, Axi!Edge, Axi!df_in_rd_en, Axi!dm_in_rd_en,
           Axi!awvalid, Axi!mid_rd_en
      <4> QED BY <3>1, <4>1 DEF AxiWords, One
    <3>3. CASE Axi!w_hs
      <4>1. One(Axi!mid_wr_en \/ Axi!mid_rd_en) = 1
        BY <3>3 DEF Axi!mid_rd_en, One
      <4>2. Axi!wlast <=> axi_beat = axi_len - 1
        BY <3>1, Beats DEF Axi!wlast
      <4>3. CASE Axi!wlast
        <5>1. axi_state' = "s_dm_wr_b"
          BY <1>2, <2>3, <3>3, <4>3 DEF Axi!StateNext
        <5>2. AxiWords' = Words(Now)' /\ axi_beat = Words(Now) - 1
          BY <3>1, <4>2, <4>3, <5>1 DEF AxiWords
        <5> QED BY <1>3, <1>4, <3>1, <4>1, <5>2
      <4>4. CASE ~Axi!wlast
        <5>1. axi_state' = "s_dm_wr_w" /\ axi_beat' = (axi_beat + 1) % LEN_RANGE
          BY <1>1, <1>2, <2>3, <3>3, <4>4 DEF Axi!StateNext, Axi!Edge, Axi!df_in_rd_en, Axi!dm_in_rd_en,
             Axi!awvalid, Axi!Bump
        <5>2. (axi_beat + 1) % LEN_RANGE = axi_beat + 1
          BY <3>1, <4>2, <4>4, Beats
        <5> QED BY <3>1, <4>1, <5>1, <5>2 DEF AxiWords
      <4> QED BY <4>3, <4>4
    <3> QED BY <3>2, <3>3
  <2> QED BY <2>1, <2>2, <2>3
<1>8. SramWords' = SramWords + One(Sram!wr_en \/ Sram!push)
  <2>1. CASE sram_state \in {"s_writing", "s_reading"}
    <3>1. /\ SramWords = sram_beat /\ sram_len = Words(Now) /\ sram_len \in 1 .. LEN_RANGE - 1
          /\ sram_beat \in 0 .. sram_len - 1 /\ sram_len # 0
      BY <1>4, <2>1 DEF SramWords, SramBurst
    <3>2. CASE ~(Sram!wr_en \/ Sram!push)
      <4>1. sram_state' = sram_state /\ sram_beat' = sram_beat
        BY <1>1, <1>2, <2>1, <3>2 DEF Sram!StateNext, Sram!Edge, Sram!dm_in_rd_en
      <4> QED BY <2>1, <3>1, <3>2, <4>1 DEF SramWords, One
    <3>3. CASE Sram!wr_en \/ Sram!push
      <4>1. Sram!last_beat <=> sram_beat = sram_len - 1
        BY <3>1, Beats DEF Sram!last_beat
      <4>2. One(Sram!wr_en \/ Sram!push) = 1
        BY <3>3 DEF One
      <4>3. CASE Sram!last_beat
        <5>1. sram_state' = "s_wait_axi4master"
          BY <1>2, <2>1, <3>3, <4>3 DEF Sram!StateNext
        <5>2. SramWords' = Words(Now)' /\ sram_beat = Words(Now) - 1
          BY <3>1, <4>1, <4>3, <5>1 DEF SramWords
        <5> QED BY <1>3, <1>4, <3>1, <4>2, <5>2
      <4>4. CASE ~Sram!last_beat
        <5>1. sram_state' = sram_state /\ sram_beat' = (sram_beat + 1) % LEN_RANGE
          BY <1>1, <1>2, <2>1, <3>3, <4>4 DEF Sram!StateNext, Sram!Edge, Sram!dm_in_rd_en
        <5>2. (sram_beat + 1) % LEN_RANGE = sram_beat + 1
          BY <3>1, <4>1, <4>4, Beats
        <5> QED BY <2>1, <3>1, <4>2, <5>1, <5>2 DEF SramWords
      <4> QED BY <4>3, <4>4
    <3> QED BY <3>2, <3>3
  <2>2. CASE sram_state \notin {"s_writing", "s_reading"}
    <3>1. One(Sram!wr_en \/ Sram!push) = 0
      BY <2>2 DEF One, Sram!wr_en, Sram!push
    <3>2. CASE sram_state = "s_wait_axi4master"
      <4>1. sram_state' = "s_wait_axi4master"
        BY <1>2, <3>2 DEF Sram!StateNext, handshake_done, Sram!sram_done
      <4>2. SramWords' = Words(Now)' /\ SramWords = Words(Now)
        BY <3>2, <4>1 DEF SramWords
      <4> QED BY <1>3, <1>4, <3>1, <4>2
    <3>3. CASE sram_state = "s_dm_get"
      <4>1. sram_state' \in {"s_writing", "s_reading"} /\ sram_beat' = 0 /\ SramWords = 0
        BY <1>1, <1>2, <3>3 DEF Sram!StateNext, Sram!Edge, Sram!dm_in_rd_en, SramWords
      <4>2. SramWords' = 0
        BY <4>1 DEF SramWords
      <4> QED BY <3>1, <4>1, <4>2
    <3>4. CASE sram_state = "s_idle"
      <4>1. sram_state' \in {"s_idle", "s_dm_get"} /\ SramWords = 0
        BY <1>2, <3>4 DEF Sram!StateNext, SramWords
      <4>2. SramWords' = 0
        BY <4>1 DEF SramWords
      <4> QED BY <3>1, <4>1, <4>2
    <3> QED BY <1>1, <2>2, <3>2, <3>3, <3>4 DEF SramOK, SramMoves
  <2> QED BY <2>1, <2>2
<1> QED BY <1>5, <1>6, <1>7, <1>8
-----------------------------------------------------------------------------
(* The words of the transfer.                                              *)

(* One more word is written.                                               *)
LEMMA CopyOne ==
  ASSUME NEW M \in Nat, NEW to \in [0 .. M - 1 -> Nat], NEW n \in Nat,
         Now[2] \in Nat, Now[2] + n < M
  PROVE  [Copied(to, n) EXCEPT ![Now[2] + n] = Source[n + 1]] = Copied(to, n + 1)
<1> DEFINE t == Now[2]
           x == Source[n + 1]
           after == [Copied(to, n) EXCEPT ![t + n] = x]
<1>1. t \in Nat /\ t + n \in 0 .. M - 1
  OBVIOUS
<1>2. Copied(to, n) = [a \in 0 .. M - 1 |-> IF a \in t .. t + n - 1 THEN Source[a - t + 1] ELSE to[a]]
  BY DEF Copied
<1>3. Copied(to, n + 1) =
        [a \in 0 .. M - 1 |-> IF a \in t .. t + (n + 1) - 1 THEN Source[a - t + 1] ELSE to[a]]
  BY DEF Copied
<1>4. (t + n) - t + 1 = n + 1
  BY <1>1
<1> HIDE DEF t
<1>5. after = [a \in 0 .. M - 1 |-> IF a = t + n THEN x ELSE Copied(to, n)[a]]
  BY <1>1, <1>2
<1>6. ASSUME NEW a \in 0 .. M - 1
      PROVE  (IF a = t + n THEN x ELSE Copied(to, n)[a]) = Copied(to, n + 1)[a]
  <2>1. CASE a = t + n
    <3>1. a \in t .. t + (n + 1) - 1 /\ a - t + 1 = n + 1
      BY <1>1, <1>4, <2>1
    <3> QED BY <1>3, <2>1, <3>1
  <2>2. CASE a # t + n
    <3>1. a \in t .. t + (n + 1) - 1 <=> a \in t .. t + n - 1
      BY <1>1, <2>2
    <3> QED BY <1>2, <1>3, <2>2, <3>1
  <2> QED BY <2>1, <2>2
<1>7. Copied(to, n + 1) = [a \in 0 .. M - 1 |-> Copied(to, n + 1)[a]]
  BY <1>3
<1>8. after = Copied(to, n + 1)
  <2> HIDE DEF after, x
  <2> QED BY <1>5, <1>6, <1>7
<1> QED BY <1>8 DEF after, t, x

(* None is.                                                                *)
LEMMA CopyNone ==
  ASSUME NEW M \in Nat, NEW to \in [0 .. M - 1 -> Nat], Now[2] \in Nat
  PROVE  Copied(to, 0) = to
<1> DEFINE t == Now[2]
<1>1. \A a \in 0 .. M - 1 : a \notin t .. t + 0 - 1
  OBVIOUS
<1>2. Copied(to, 0) = [a \in 0 .. M - 1 |-> IF a \in t .. t + 0 - 1 THEN Source[a - t + 1] ELSE to[a]]
  BY DEF Copied
<1> HIDE DEF t
<1>3. Copied(to, 0) = [a \in 0 .. M - 1 |-> to[a]]
  BY <1>1, <1>2
<1> QED BY <1>3

(* All are: that is the descriptor, moved as a whole.                      *)
LEMMA CopyAll ==
  ASSUME MovementInv, ProgramOK, OrderInv, AxiHalves > 0
  PROVE  Moved(Before, Now) =
           [ram |-> IF Up THEN Before.ram ELSE Copied(Before.ram, Words(Now)),
            mem |-> IF Up THEN Copied(Before.mem, Words(Now)) ELSE Before.mem]
<1> DEFINE s == Now[1]
           t == Now[2]
           n == Words(Now)
<1>1. s \in Nat /\ t \in Nat /\ n \in Nat /\ ~Bad(Now) /\ MEM_WORDS \in Nat /\ BRAM_SIZE \in Nat
  <2>1. Words(Now) \in 1 .. LEN_RANGE - 1 /\ Now[1] \in Nat /\ Now[2] \in Nat /\ ~Bad(Now)
    BY AtWork
  <2> QED BY <2>1, Sizes, ProgramSizes DEF ProgramOK
<1>2. Before = [ram |-> Before.ram, mem |-> Before.mem]
      /\ Before.ram \in [0 .. MEM_WORDS - 1 -> Nat] /\ Before.mem \in [0 .. BRAM_SIZE - 1 -> Nat]
  BY BeforeType DEF Memories
<1>3. ASSUME NEW a \in Int, a \in t .. t + n - 1
      PROVE  /\ Up => Source[a - t + 1] = Before.ram[a - t + s]
             /\ ~Up => Source[a - t + 1] = Before.mem[a - t + s]
  <2>1. a - t + 1 \in Nat /\ s + (a - t + 1) - 1 = a - t + s
    <3> HIDE DEF s, t, n
    <3> QED BY <1>1, <1>3
  <2> QED BY <2>1 DEF Source
<1>4. CASE Up
  <2>1. Moved(Before, Now) =
          [ram |-> Before.ram,
           mem |-> [a \in 0 .. BRAM_SIZE - 1 |->
                      IF a \in t .. t + n - 1 THEN Before.ram[a - t + s] ELSE Before.mem[a]]]
    BY <1>1, <1>2, <1>4 DEF Moved, Up, Words
  <2>2. Copied(Before.mem, n) =
          [a \in 0 .. BRAM_SIZE - 1 |->
             IF a \in t .. t + n - 1 THEN Source[a - t + 1] ELSE Before.mem[a]]
    BY <1>2 DEF Copied
  <2> HIDE DEF s, t, n
  <2>3. Copied(Before.mem, n) =
          [a \in 0 .. BRAM_SIZE - 1 |->
             IF a \in t .. t + n - 1 THEN Before.ram[a - t + s] ELSE Before.mem[a]]
    BY <1>1, <1>3, <1>4, <2>2
  <2> QED BY <1>4, <2>1, <2>3 DEF n
<1>5. CASE ~Up
  <2>1. Moved(Before, Now) =
          [ram |-> [a \in 0 .. MEM_WORDS - 1 |->
                      IF a \in t .. t + n - 1 THEN Before.mem[a - t + s] ELSE Before.ram[a]],
           mem |-> Before.mem]
    BY <1>1, <1>2, <1>5 DEF Moved, Up, Words
  <2>2. Copied(Before.ram, n) =
          [a \in 0 .. MEM_WORDS - 1 |->
             IF a \in t .. t + n - 1 THEN Source[a - t + 1] ELSE Before.ram[a]]
    BY <1>2 DEF Copied
  <2> HIDE DEF s, t, n
  <2>3. Copied(Before.ram, n) =
          [a \in 0 .. MEM_WORDS - 1 |->
             IF a \in t .. t + n - 1 THEN Before.mem[a - t + s] ELSE Before.ram[a]]
    BY <1>1, <1>3, <1>5, <2>2
  <2> QED BY <1>5, <2>1, <2>3 DEF n
<1> QED BY <1>4, <1>5

(* Executing the descriptor at work is the next step of the software model *)
(* that moves anything.                                                    *)
LEMMA GoldenNow ==
  ASSUME MovementInv, ProgramOK, OrderInv, AxiHalves > 0
  PROVE  Golden[Nth(transfers + 1)] = Moved(Before, Now)
<1> DEFINE k == Nth(transfers + 1)
           p == IF transfers = 0 THEN 0 ELSE Nth(transfers)
<1>1. Len(program) \in Nat /\ Checks \in 0 .. Len(program) /\ transfers \in Nat
  BY ProgramSizes, AtWork DEF ProgramOK, OrderInv, MoveOrder
<1>2. transfers + 1 <= Passed(Checks)
  <2>1. Passed(Checks) = transfers + AxiHalves + Checked /\ AxiHalves \in Nat /\ Checked \in Nat
    BY Held DEF HeldCounts, OrderInv, MoveOrder
  <2> QED BY <1>1, <2>1
<1>3. k \in 1 .. Checks /\ Passed(k) = transfers + 1 /\ k - 1 \in Nat /\ Passed(k - 1) = transfers
  <2>1. transfers + 1 \in Nat /\ 1 <= transfers + 1 /\ (transfers + 1) - 1 = transfers
    BY <1>1
  <2> QED BY <1>1, <1>2, <2>1, NthIs
<1>4. p \in 0 .. Len(program) /\ Passed(p) = transfers
  <2>1. CASE transfers = 0
    BY <1>1, <2>1, PassedZero
  <2>2. CASE transfers # 0
    <3>1. 1 <= transfers /\ transfers <= Passed(Checks)
      <4>1. Checks \in Nat
        BY <1>1
      <4>2. Passed(Checks) \in Nat
        BY <4>1, PassedNat
      <4> QED BY <1>1, <1>2, <2>2, <4>2
    <3>2. Nth(transfers) \in 1 .. Checks /\ Passed(Nth(transfers)) = transfers
      BY <1>1, <3>1, NthIs
    <3> QED BY <1>1, <2>2, <3>2
  <2> QED BY <2>1, <2>2
<1> HIDE DEF k, p
<1>5. p <= k - 1 /\ k - 1 \in 0 .. Len(program) /\ k \in 1 .. Len(program)
  <2>1. k \in Nat /\ p \in Nat /\ k \in 1 .. Len(program)
    BY <1>1, <1>3, <1>4
  <2>2. ~(k <= p)
    <3>1. k <= p => Passed(k) <= Passed(p)
      BY <2>1, PassedGrows
    <3> QED BY <1>1, <1>3, <1>4, <3>1
  <2> QED BY <1>1, <1>3, <2>1, <2>2
<1>6. Golden[p] = Golden[k - 1]
  <2>1. k - 1 \in p .. Len(program)
    BY <1>1, <1>4, <1>5
  <2> QED BY <1>1, <1>3, <1>4, <2>1, GoldenSame
<1>7. Golden[k] = Moved(Golden[k - 1], program[k])
  BY <1>1, <1>5, GoldenStep
<1>8. Before = Golden[p] /\ Now = program[k]
  BY DEF Before, Now, p, k
<1>9. Golden[k] = Moved(Before, Now)
  BY <1>6, <1>7, <1>8
<1> QED BY <1>9 DEF k

(* At the handshake the memories hold what the software model computes.    *)
LEMMA Finished ==
  ASSUME MovementInv, ProgramOK, OrderInv, AxiHalves > 0 => CopyState, handshake_done
  PROVE  /\ mid_q = <<>> /\ AxiHalves > 0
         /\ Golden[Nth(transfers + 1)] = [ram |-> ram, mem |-> mem]
<1>1. axi_state = "s_wait_sram" /\ sram_state = "s_wait_axi4master"
  BY DEF handshake_done, Axi!axi_done, Sram!sram_done
<1>2. AxiHalves > 0
  BY <1>1, Working DEF AxiMoves
<1>3. ReadSoFar = Words(Now) /\ WroteSoFar = Words(Now)
  BY <1>1 DEF ReadSoFar, WroteSoFar, AxiWords, SramWords
<1>4. Len(mid_q) = 0
  <2>1. Words(Now) \in 1 .. LEN_RANGE - 1
    BY <1>2, AtWork
  <2> QED BY <1>2, <1>3, <2>1, Sizes DEF CopyState
<1>5. mid_q = <<>>
  BY <1>4 DEF MovementInv, Types, QueuesOK, Queue
<1>6. Moved(Before, Now) = [ram |-> ram, mem |-> mem]
  BY <1>2, <1>3, CopyAll DEF CopyState
<1> QED BY <1>2, <1>5, <1>6, GoldenNow

(* Between two transfers.                                                  *)
Between ==
  /\ axi_state \notin AxiMoves /\ sram_state \notin SramMoves
  /\ mid_q = <<>> /\ ram = Before.ram /\ mem = Before.mem

(* There nothing of the next one has been moved.                           *)
LEMMA Fresh ==
  MovementInv /\ ProgramOK /\ OrderInv /\ AxiHalves > 0 /\ Between => CopyState
<1> SUFFICES ASSUME MovementInv, ProgramOK, OrderInv, AxiHalves > 0, Between PROVE CopyState
  OBVIOUS
<1>1. AxiWords = 0 /\ SramWords = 0
  BY DEF Between, AxiMoves, SramMoves, AxiWords, SramWords
<1>2. ReadSoFar = 0 /\ WroteSoFar = 0
  BY <1>1 DEF ReadSoFar, WroteSoFar
<1>3. Copied(Before.ram, 0) = Before.ram /\ Copied(Before.mem, 0) = Before.mem
  <2>1. Now[2] \in Nat /\ MEM_WORDS \in Nat /\ BRAM_SIZE \in Nat
    BY AtWork, ProgramSizes, Sizes DEF ProgramOK
  <2>2. Before.ram \in [0 .. MEM_WORDS - 1 -> Nat] /\ Before.mem \in [0 .. BRAM_SIZE - 1 -> Nat]
    BY BeforeType DEF Memories
  <2> QED BY <2>1, <2>2, CopyNone
<1> QED BY <1>2, <1>3 DEF Between, CopyState, InLine

(* The handshake ends one transfer; none begins before it is taken.        *)
LEMMA BetweenStep ==
  ASSUME MovementInv, ProgramOK, OrderInv, AxiHalves > 0 => CopyState, IdleInv,
         NEW request \in BOOLEAN, Clock(request), handshake_done \/ AxiHalves = 0
  PROVE  Between'
<1>1. program' = program
  BY DEF Clock
<1>2. CASE handshake_done
  <2>1. axi_state = "s_wait_sram" /\ sram_state = "s_wait_axi4master"
    BY <1>2 DEF handshake_done, Axi!axi_done, Sram!sram_done
  <2>2. axi_state' = "s_idle" /\ sram_state' = "s_idle"
    BY <1>2, <2>1 DEF Clock, Axi!Edge, Sram!Edge, Axi!StateNext, Sram!StateNext, handshake_done
  <2>3. ~Axi!mid_wr_en /\ ~Axi!mid_rd_en /\ ~Sram!wr_en /\ ~Sram!push /\ ~Axi!wvalid
    BY <2>1 DEF Axi!mid_wr_en, Axi!mid_rd_en, Axi!w_hs, Axi!wvalid, Sram!wr_en, Sram!push
  <2>4. mid_q' = mid_q
    BY <2>3, MidEdge DEF After, Rest, One
  <2>5. ram' = ram /\ mem' = mem
    BY <2>3 DEF Clock, ClockMemory, SystemMemory!WriteEdge, Sram!Edge
  <2>6. mid_q = <<>> /\ Golden[Nth(transfers + 1)] = [ram |-> ram, mem |-> mem]
    BY <1>2, Finished
  <2>7. transfers' = transfers + 1 /\ transfers' # 0
    BY <1>2 DEF Clock, OrderInv, MoveOrder
  <2>8. Before' = [ram |-> ram, mem |-> mem]
    BY <1>1, <2>6, <2>7, Fixed
  <2> QED BY <2>2, <2>4, <2>5, <2>6, <2>8 DEF Between, AxiMoves, SramMoves
<1>3. CASE AxiHalves = 0
  <2>1. /\ mid_q' = mid_q /\ ram' = ram /\ mem' = mem
        /\ axi_state' \notin AxiMoves /\ sram_state' \notin SramMoves /\ ~handshake_done
    BY <1>3, Still
  <2>2. Before' = Before
    BY <2>1, SameTransfer
  <2> QED BY <1>3, <2>1, <2>2 DEF Between, IdleInv
<1> QED BY <1>2, <1>3

(* During a transfer every word goes to its place.                         *)
LEMMA CopyStep ==
  ASSUME MovementInv, ProgramOK, OrderInv, AxiBurst, SramBurst, AxiHalves > 0, CopyState,
         NEW request \in BOOLEAN, Clock(request), ~handshake_done
  PROVE  CopyState'
<1> DEFINE r == One(Axi!mid_rd_en \/ Sram!wr_en)
           w == One((Axi!mid_wr_en \/ Sram!push) /\ ~Mid!full)
           x == IF Axi!mid_wr_en THEN SystemMemory!rdata ELSE dout
           s == Now[1]
           t == Now[2]
           n == Words(Now)
<1>1. /\ SramOK /\ MemoryOK /\ SlaveFollows /\ Sram!Edge(Axi!axi_done)
      /\ SystemMemory!WriteEdge(Axi!awvalid, axi_addr, Axi!wvalid, Mid!dout, Axi!wlast, Axi!bready)
  BY DEF MovementInv, Types, Clock, ClockMemory, OrderInv
<1>2. /\ Now' = Now /\ (Up' <=> Up) /\ Words(Now)' = Words(Now) /\ Before' = Before /\ Source' = Source
      /\ program' = program
  BY SameTransfer DEF Clock
<1>3. /\ s \in Nat /\ t \in Nat /\ n \in Nat /\ n > 0 /\ BRAM_SIZE \in Nat /\ BRAM_SIZE > 0
      /\ DATA_WORDS \in Nat /\ MEM_WORDS \in Nat /\ DATA_WORDS <= MEM_WORDS
      /\ Up => s + n <= DATA_WORDS /\ t + n <= BRAM_SIZE
      /\ ~Up => s + n <= BRAM_SIZE /\ t + n <= DATA_WORDS
  <2>1. Words(Now) \in 1 .. LEN_RANGE - 1 /\ Now[1] \in Nat /\ Now[2] \in Nat /\ Within(Now)
    BY AtWork
  <2> QED BY <2>1, Sizes, ProgramSizes DEF ProgramOK, Within, Up
<1>4. /\ Up => ~Sram!push /\ ~Axi!mid_rd_en
      /\ ~Up => ~Axi!mid_wr_en /\ ~Sram!wr_en
      /\ Axi!mid_wr_en => axi_state = "s_dm_rd_r" /\ ~Mid!full
      /\ Axi!mid_rd_en => axi_state = "s_dm_wr_w"
      /\ Sram!wr_en => sram_state = "s_writing"
      /\ Sram!push => sram_state = "s_reading" /\ ~Mid!full
  BY DEF AxiBurst, SramBurst, Axi!mid_wr_en, Axi!mid_rd_en, Axi!w_hs, Axi!wvalid, Axi!r_hs,
         Axi!rready, Sram!wr_en, Sram!push
<1>5. /\ AxiWords \in 0 .. n /\ SramWords \in 0 .. n
      /\ AxiWords' = AxiWords + One(Axi!mid_wr_en \/ Axi!mid_rd_en)
      /\ SramWords' = SramWords + One(Sram!wr_en \/ Sram!push)
  BY Progress
<1>6. /\ ReadSoFar \in Nat /\ WroteSoFar \in Nat /\ ReadSoFar <= n
      /\ ReadSoFar' = ReadSoFar + w /\ WroteSoFar' = WroteSoFar + r
  <2>1. CASE Up
    <3>1. One(Axi!mid_wr_en \/ Axi!mid_rd_en) = w /\ One(Sram!wr_en \/ Sram!push) = r
      BY <1>4, <2>1 DEF One
    <3>2. ReadSoFar = AxiWords /\ WroteSoFar = SramWords /\ ReadSoFar' = AxiWords' /\ WroteSoFar' = SramWords'
      BY <1>2, <2>1 DEF ReadSoFar, WroteSoFar
    <3> HIDE DEF r, w, n
    <3> QED BY <1>3, <1>5, <3>1, <3>2
  <2>2. CASE ~Up
    <3>1. One(Axi!mid_wr_en \/ Axi!mid_rd_en) = r /\ One(Sram!wr_en \/ Sram!push) = w
      BY <1>4, <2>2 DEF One
    <3>2. ReadSoFar = SramWords /\ WroteSoFar = AxiWords /\ ReadSoFar' = SramWords' /\ WroteSoFar' = AxiWords'
      BY <1>2, <2>2 DEF ReadSoFar, WroteSoFar
    <3> HIDE DEF r, w, n
    <3> QED BY <1>3, <1>5, <3>1, <3>2
  <2> QED BY <2>1, <2>2
<1>7. /\ Len(mid_q) = ReadSoFar - WroteSoFar /\ WroteSoFar <= ReadSoFar
      /\ InLine(mid_q, Source, WroteSoFar) /\ Queue(mid_q, Nat) /\ Len(mid_q) \in Nat
      /\ mid_q' = After(mid_q, r, w, x)
      /\ r \in {0, 1} /\ w \in {0, 1} /\ (r = 1 => mid_q # <<>>) /\ (w = 1 => x \in Nat)
  BY MidEdge, ReadData DEF CopyState, MovementInv, Types, QueuesOK, Queue, SramOK, One
<1>8. w = 1 => x = Source[ReadSoFar + 1]
  <2>1. CASE Axi!mid_wr_en
    <3>1. /\ axi_state = "s_dm_rd_r" /\ Up /\ r_addr = s /\ r_beat = ReadSoFar /\ r_beat < n
      BY <1>4, <2>1 DEF AxiBurst, AxiMoves, Up, Mover!AxiInstr, Mover!Instr, ReadSoFar, AxiWords
    <3>2. r_addr + r_beat < MEM_WORDS
      <4> HIDE DEF s, t, n
      <4> QED BY <1>3, <1>6, <3>1
    <3>3. x = Before.ram[s + ReadSoFar]
      BY <2>1, <3>1, <3>2 DEF SystemMemory!rdata, CopyState
    <3>4. ReadSoFar + 1 \in Nat /\ s + (ReadSoFar + 1) - 1 = s + ReadSoFar
      <4> HIDE DEF s
      <4> QED BY <1>3, <1>6
    <3> QED BY <3>1, <3>3, <3>4 DEF Source
  <2>2. CASE ~Axi!mid_wr_en
    <3>1. w = 1 => sram_state = "s_reading"
      BY <1>4, <2>2 DEF One
    <3>2. w = 1 => ~Up /\ dout = Before.mem[s + sram_beat] /\ ReadSoFar = sram_beat
      BY <3>1 DEF SramBurst, ReadSoFar, SramWords
    <3>3. ReadSoFar + 1 \in Nat /\ s + (ReadSoFar + 1) - 1 = s + ReadSoFar
      <4> HIDE DEF s
      <4> QED BY <1>3, <1>6
    <3> QED BY <2>2, <3>2, <3>3 DEF Source
  <2> QED BY <2>1, <2>2
<1>9. r = 1 => Mid!dout = Source[WroteSoFar + 1]
  BY <1>7, First DEF Mid!dout
<1>10. InLine(mid_q', Source, WroteSoFar + r) /\ Len(mid_q') = Len(mid_q) - r + w /\ Len(mid_q') \in Nat
  <2> HIDE DEF r, w, x
  <2>1. WroteSoFar + Len(mid_q) + 1 = ReadSoFar + 1
    BY <1>6, <1>7
  <2>2. w = 1 => x = Source[WroteSoFar + Len(mid_q) + 1]
    BY <1>8, <2>1
  <2>3. InLine(After(mid_q, r, w, x), Source, WroteSoFar + r)
    BY <1>6, <1>7, <2>2, Slide
  <2>4. Len(After(mid_q, r, w, x)) = Len(mid_q) - r + w
    BY <1>7, QueueLen
  <2>5. Queue(After(mid_q, r, w, x), Nat)
    BY <1>7, QueueEdge
  <2>6. Len(mid_q') \in Nat
    BY <1>7, <2>5 DEF Queue
  <2> QED BY <1>7, <2>3, <2>4, <2>6
<1>11. WroteSoFar' <= ReadSoFar' /\ Len(mid_q') = ReadSoFar' - WroteSoFar'
  <2> HIDE DEF r, w
  <2> QED BY <1>6, <1>7, <1>10
<1>12. r = 1 => WroteSoFar < n
  <2>1. r = 1 => Len(mid_q) > 0
    BY <1>7 DEF Queue
  <2> HIDE DEF r, n
  <2> QED BY <1>3, <1>6, <1>7, <2>1
<1>13. Before.ram \in [0 .. MEM_WORDS - 1 -> Nat] /\ Before.mem \in [0 .. BRAM_SIZE - 1 -> Nat]
  BY BeforeType DEF Memories
<1>14. ram' = IF Up THEN Before.ram ELSE Copied(Before.ram, WroteSoFar + r)
  <2>1. CASE ~(SystemMemory!wready /\ Axi!wvalid)
    <3>1. ram' = ram
      BY <1>1, <2>1 DEF SystemMemory!WriteEdge
    <3>2. ~Up => r = 0
      BY <1>4, <2>1 DEF One, Axi!mid_rd_en, Axi!w_hs
    <3>3. r = 0 => WroteSoFar + r = WroteSoFar
      BY <1>6
    <3> QED BY <3>1, <3>2, <3>3 DEF CopyState
  <2>2. CASE SystemMemory!wready /\ Axi!wvalid
    <3>1. axi_state = "s_dm_wr_w" /\ ~Up /\ w_addr = t /\ w_beat = WroteSoFar
      BY <2>2 DEF Axi!wvalid, AxiBurst, AxiMoves, Up, Mover!AxiInstr, Mover!Instr, WroteSoFar, AxiWords
    <3>2. r = 1
      BY <2>2 DEF One, Axi!mid_rd_en, Axi!w_hs
    <3>3. t + WroteSoFar < MEM_WORDS
      <4> HIDE DEF t, n, r
      <4> QED BY <1>3, <1>6, <1>12, <3>1, <3>2
    <3>4. ram' = [ram EXCEPT ![t + WroteSoFar] = Mid!dout]
      BY <1>1, <2>2, <3>1, <3>3 DEF SystemMemory!WriteEdge
    <3>5. ram = Copied(Before.ram, WroteSoFar)
      BY <3>1 DEF CopyState
    <3>6. [Copied(Before.ram, WroteSoFar) EXCEPT ![t + WroteSoFar] = Source[WroteSoFar + 1]]
            = Copied(Before.ram, WroteSoFar + 1)
      BY <1>3, <1>6, <1>13, <3>3, CopyOne
    <3> QED BY <1>9, <3>1, <3>2, <3>4, <3>5, <3>6
  <2> QED BY <2>1, <2>2
<1>15. mem' = IF Up THEN Copied(Before.mem, WroteSoFar + r) ELSE Before.mem
  <2>1. CASE ~Sram!wr_en
    <3>1. mem' = mem
      BY <1>1, <2>1 DEF Sram!Edge
    <3>2. Up => r = 0
      BY <1>4, <2>1 DEF One
    <3>3. r = 0 => WroteSoFar + r = WroteSoFar
      BY <1>6
    <3> QED BY <3>1, <3>2, <3>3 DEF CopyState
  <2>2. CASE Sram!wr_en
    <3>1. Up /\ sram_addr = t + WroteSoFar
      BY <1>4, <2>2 DEF SramBurst, WroteSoFar, SramWords
    <3>2. r = 1
      BY <2>2 DEF One
    <3>3. t + WroteSoFar < BRAM_SIZE /\ t + WroteSoFar \in Nat
      <4> HIDE DEF t, n, r
      <4> QED BY <1>3, <1>6, <1>12, <3>1, <3>2
    <3>4. (t + WroteSoFar) % BRAM_SIZE = t + WroteSoFar
      <4> DEFINE a == t + WroteSoFar
      <4> HIDE DEF a
      <4>1. a \in 0 .. BRAM_SIZE - 1
        BY <1>3, <3>3 DEF a
      <4>2. a % BRAM_SIZE = a
        BY <1>3, <4>1
      <4> QED BY <4>2 DEF a
    <3>5. mem' = [mem EXCEPT ![t + WroteSoFar] = Mid!dout]
      BY <1>1, <2>2, <3>1, <3>4 DEF Sram!Edge
    <3>6. mem = Copied(Before.mem, WroteSoFar)
      BY <3>1 DEF CopyState
    <3>7. [Copied(Before.mem, WroteSoFar) EXCEPT ![t + WroteSoFar] = Source[WroteSoFar + 1]]
            = Copied(Before.mem, WroteSoFar + 1)
      BY <1>3, <1>6, <1>13, <3>3, CopyOne
    <3> QED BY <1>9, <3>1, <3>2, <3>5, <3>6, <3>7
  <2> QED BY <2>1, <2>2
<1>16. /\ Copied(Before.ram, WroteSoFar)' = Copied(Before.ram, WroteSoFar')
       /\ Copied(Before.mem, WroteSoFar)' = Copied(Before.mem, WroteSoFar')
  BY <1>2 DEF Copied
<1>17. /\ ram' = IF Up THEN Before.ram ELSE Copied(Before.ram, WroteSoFar')
       /\ mem' = IF Up THEN Copied(Before.mem, WroteSoFar') ELSE Before.mem
       /\ InLine(mid_q', Source, WroteSoFar')
  BY <1>6, <1>10, <1>14, <1>15
<1> QED BY <1>2, <1>11, <1>16, <1>17 DEF CopyState
-----------------------------------------------------------------------------
(* The whole invariant.                                                    *)

(* It holds after rst_n.                                                   *)
LEMMA DataInit ==
  ASSUME \A p \in Programs : Executable(p), Init
  PROVE  DataInv
<1>1. MovementInv
  BY Inits
<1>2. ProgramOK
  BY MovementAssumption DEF ProgramOK, Init
<1>3. /\ ram = InitialRam(program) /\ mem = InitialMem /\ requested = 0 /\ transfers = 0
      /\ df_in_din = None /\ dm_in_din = None /\ dm_state = "GET_DATA" /\ axi_state = "s_idle"
      /\ sram_state = "s_idle" /\ r_state = "R_IDLE" /\ w_state = "W_IDLE"
      /\ df_in_q = <<>> /\ df_out_q = <<>> /\ desc_q = <<>> /\ dm_axi_q = <<>> /\ dm_sram_q = <<>>
      /\ mid_q = <<>>
  BY DEF Init, Fetcher!Reset, Mover!Reset, Axi!Reset, Sram!Reset, SystemMemory!Reset,
         DfIn!Init, DfOut!Init, Desc!Init, DmAxi!Init, DmSram!Init, Mid!Init
<1>4. Len(program) \in Nat
  BY <1>2, ProgramSizes DEF ProgramOK
<1>5. BeforeCheck = 0 /\ Checked = 0 /\ AxiHalves = 0
  BY <1>3 DEF BeforeCheck, Checked, AxiHalves, One
<1>6. Checks = 0
  BY <1>3, <1>5 DEF Checks
<1>7. RingKept /\ SlaveFollows /\ FetchBurst
  BY <1>3 DEF RingKept, SlaveFollows, FetchBurst, AxiFetches
<1>8. FetchOrder
  BY <1>3, <1>4 DEF FetchOrder, InLine
<1>9. MoveOrder
  <2>1. Passed(Checks) = transfers + AxiHalves + Checked
    BY <1>3, <1>5, <1>6, PassedZero
  <2> QED BY <1>3, <2>1 DEF MoveOrder, InLine
<1>10. CopyInv
  BY <1>3, <1>5 DEF CopyInv, AxiBurst, SramBurst, AxiMoves
<1>11. IdleInv
  BY <1>3, <1>4, GoldenStep DEF IdleInv, Before
<1> QED BY <1>1, <1>2, <1>7, <1>8, <1>9, <1>10, <1>11 DEF DataInv, OrderInv

(* Every edge keeps it, as long as the read-ahead does not stall.          *)
LEMMA DataStep ==
  ASSUME LEN_RANGE >= DESC_WORDS, DataInv, ReadAheadNeverStalls, [Next]_vars
  PROVE  DataInv'
<1>1. ASSUME NEW request \in BOOLEAN, Clock(request) PROVE DataInv'
  <2>1. /\ MovementInv /\ ProgramOK /\ OrderInv /\ AxiBurst /\ SramBurst /\ IdleInv
        /\ AxiHalves > 0 => CopyState
    BY DEF DataInv, CopyInv
  <2>2. MovementInv' /\ ProgramOK' /\ OrderInv' /\ AxiBurst' /\ SramBurst'
    <3>1. MovementInv'
      BY <1>1, <2>1, InvStep DEF Next
    <3>2. ProgramOK'
      BY <1>1, <2>1 DEF ProgramOK, Clock, Executable, Within, Words, Bad
    <3> QED BY <1>1, <2>1, <3>1, <3>2, OrderStep, AxiBurstStep, SramBurstStep
  <2>3. CASE handshake_done \/ AxiHalves = 0
    <3>1. Between'
      BY <1>1, <2>1, <2>3, BetweenStep
    <3>2. (AxiHalves > 0 => CopyState)'
      BY <2>2, <3>1, Fresh, PTL
    <3>3. IdleInv'
      BY <3>1 DEF Between, IdleInv
    <3> QED BY <2>2, <3>2, <3>3 DEF DataInv, CopyInv
  <2>4. CASE ~handshake_done /\ AxiHalves # 0
    <3>1. AxiHalves > 0 /\ AxiHalves \in Nat
      BY <2>1, <2>4, Held DEF HeldCounts
    <3>2. CopyState'
      BY <1>1, <2>1, <2>4, <3>1, CopyStep
    <3>3. AxiHalves' # 0
      <4>1. AxiHalves' = AxiHalves + One(Mover!wr_en) - One(handshake_done) /\ transfers \in Nat
        BY <1>1, <2>1, Flow DEF OrderInv, MoveOrder
      <4>2. One(handshake_done) = 0 /\ One(Mover!wr_en) \in {0, 1}
        BY <2>4 DEF One
      <4> QED BY <3>1, <4>1, <4>2
    <3> QED BY <2>2, <3>2, <3>3 DEF DataInv, CopyInv, IdleInv
  <2> QED BY <2>3, <2>4
<1>2. CASE UNCHANGED vars
  <2> USE <1>2 DEF vars, fetcher, mover, master, sram, sysmem, fifos, done
  <2>1. MovementInv'
    BY InvStep DEF DataInv
  <2>2. ProgramOK'
    BY DEF DataInv, ProgramOK, Executable, Within, Words, Bad
  <2>3. /\ Now' = Now /\ Before' = Before /\ Up' = Up /\ program' = program /\ Accepted' = Accepted
        /\ AxiPart' = AxiPart /\ SramPart' = SramPart /\ Slots' = Slots /\ MEM_WORDS' = MEM_WORDS
        /\ Checks' = Checks /\ AxiHalves' = AxiHalves /\ Checked' = Checked
        /\ Passed(Checks)' = Passed(Checks) /\ Nth(Passed(Checks))' = Nth(Passed(Checks))
        /\ Nth(transfers + AxiHalves + 1)' = Nth(transfers + AxiHalves + 1)
    <3>1. Checks' = Checks /\ AxiHalves' = AxiHalves /\ Checked' = Checked
      BY DEF Checks, BeforeCheck, AxiHalves, Checked
    <3>2. Now' = Now /\ Before' = Before
      BY Fixed DEF Now, Before
    <3> QED BY <3>1, <3>2, Fixed DEF Up
  <2>4. OrderInv'
    BY <2>3 DEF DataInv, OrderInv, RingKept, FetchOrder, FetchBurst, MoveOrder, SlaveFollows, Fetched,
       InitialRam, AxiBusy, SramBusy, MoverBusy, RingSlot
  <2>5. CopyInv' /\ IdleInv'
    <3>1. Words(Now)' = Words(Now) /\ Source' = Source /\ Mover!AxiInstr(Now)' = Mover!AxiInstr(Now)
      BY <2>3 DEF Words, Source
    <3>2. AxiWords' = AxiWords /\ SramWords' = SramWords
      BY <3>1 DEF AxiWords, SramWords
    <3>3. ReadSoFar' = ReadSoFar /\ WroteSoFar' = WroteSoFar
      BY <2>3, <3>2 DEF ReadSoFar, WroteSoFar
    <3>4. /\ Copied(Before.ram, WroteSoFar)' = Copied(Before.ram, WroteSoFar)
          /\ Copied(Before.mem, WroteSoFar)' = Copied(Before.mem, WroteSoFar)
      BY <2>3, <3>1, <3>3 DEF Copied
    <3>5. CopyState => CopyState'
      BY <2>3, <3>1, <3>3, <3>4 DEF CopyState, InLine
    <3>6. (AxiBurst => AxiBurst') /\ (SramBurst => SramBurst')
      BY <2>3, <3>1 DEF AxiBurst, SramBurst
    <3> QED BY <2>3, <3>5, <3>6 DEF DataInv, CopyInv, IdleInv
  <2> QED BY <2>1, <2>2, <2>4, <2>5 DEF DataInv
<1> QED BY <1>1, <1>2 DEF Next

(* In every state of the invariant the memories are right at a handshake.  *)
LEMMA DataCopies == DataInv => CopiesInOrder
<1> SUFFICES ASSUME DataInv, handshake_done
             PROVE  /\ mid_q = <<>>
                    /\ \E k \in 1 .. requested :
                         /\ ~Bad(program[k])
                         /\ Cardinality({j \in 1 .. k : ~Bad(program[j])}) = transfers + 1
                         /\ [ram |-> ram, mem |-> mem] = Golden[k]
  BY DEF CopiesInOrder
<1>1. MovementInv /\ ProgramOK /\ OrderInv /\ (AxiHalves > 0 => CopyState)
  BY DEF DataInv, CopyInv
<1> DEFINE k == Nth(transfers + 1)
<1>2. mid_q = <<>> /\ AxiHalves > 0 /\ Golden[k] = [ram |-> ram, mem |-> mem]
  BY <1>1, Finished
<1>3. k \in 1 .. Len(program) /\ Passed(k) = transfers + 1 /\ k <= Checks /\ ~Bad(program[k])
  BY <1>1, <1>2, AtWork DEF Now
<1>4. k \in 1 .. requested
  <2>1. requested = Checks + BeforeCheck /\ Checks \in Nat /\ BeforeCheck \in Nat
    BY <1>1, Held DEF HeldCounts
  <2>2. Len(program) \in Nat
    BY <1>1, ProgramSizes DEF ProgramOK
  <2> HIDE DEF k
  <2> QED BY <1>3, <2>1, <2>2
<1> QED BY <1>2, <1>3, <1>4 DEF Passed
-----------------------------------------------------------------------------
(* The pace of the two engines during a download.                          *)

(* Descriptors the master has begun to fetch.                              *)
Begun == Checks + Len(df_out_q) + One(axi_state \in AxiFetches)

(* Edges until the master is at the download, or at the next descriptor    *)
(* it prefers to it, and two more until it writes.                         *)
Delay ==
  CASE axi_state = "s_idle" -> 3
    [] axi_state \in {"s_df_get", "s_dm_get"} -> 2
    [] axi_state = "s_df_ar" -> 9
    [] axi_state = "s_df_r" -> 8 - axi_beat
    [] axi_state = "s_df_push" -> 4
    [] axi_state = "s_dm_wr_aw" -> 1
    [] OTHER -> 0

(* The words read ahead never outnumber the edges spent on the descriptors *)
(* behind the one at work.                                                 *)
LagInv ==
  sram_state = "s_reading" =>
    Len(mid_q) + Delay <= 8 * (Begun - Nth(transfers + 1)) + 3

(* The master waits for nothing but words: a write finds the slave idle,   *)
(* and the master sees its half once the SRAM controller has taken its     *)
(* own; the late flag of the mid FIFO hides one word at most.              *)
PaceInv ==
  /\ mid_empty => Len(mid_q) <= 1
  /\ w_state \in {"W_IDLE", "W_DATA", "W_RESP"}
  /\ w_state = "W_RESP" => axi_state = "s_dm_wr_b"
  /\ sram_state # "s_idle" /\ axi_state \notin AxiMoves \cup {"s_dm_get"} => ~dm_axi_empty

(* A fetch begins where the master takes its address.                      *)
LEMMA BegunStep ==
  ASSUME MovementInv, transfers \in Nat, NEW request \in BOOLEAN, Clock(request)
  PROVE  Begun' = Begun + One(axi_state = "s_df_get")
<1> DEFINE popped == One(Fetcher(request)!df_out_rd_en)
           pushed == One(Axi!df_out_wr_en)
           fg == One(axi_state = "s_df_get")
           f  == One(axi_state \in AxiFetches)
<1>1. Checks' = Checks + popped
  BY Flow
<1>2. Len(df_out_q') = Len(df_out_q) - popped + pushed /\ f' = f + fg - pushed
  BY DfOutEdge, MasterEdge
<1>3. Checks \in Nat /\ Len(df_out_q) \in Nat
  BY Held DEF HeldCounts
<1>4. popped \in {0, 1} /\ pushed \in {0, 1} /\ fg \in {0, 1} /\ f \in {0, 1}
  BY DEF One
<1>5. Begun = Checks + Len(df_out_q) + f /\ Begun' = Checks' + Len(df_out_q') + f'
  BY DEF Begun
<1> HIDE DEF popped, pushed, f, fg
<1>6. Begun' = Begun + fg
  BY <1>1, <1>2, <1>3, <1>4, <1>5
<1> QED BY <1>6 DEF fg

(* Those that pass between two places of the program.                      *)
LEMMA PassedApart ==
  ASSUME NEW c \in Nat, NEW d \in Nat, c <= d
  PROVE  /\ Cardinality({j \in c + 1 .. d : ~Bad(program[j])}) \in 0 .. d - c
         /\ Passed(d) = Passed(c) + Cardinality({j \in c + 1 .. d : ~Bad(program[j])})
<1> DEFINE A == {j \in 1 .. c : ~Bad(program[j])}
           B == {j \in c + 1 .. d : ~Bad(program[j])}
           D == {j \in 1 .. d : ~Bad(program[j])}
<1>1. /\ IsFiniteSet(A) /\ Passed(c) = Cardinality(A) /\ Passed(c) \in Nat
      /\ Passed(d) = Cardinality(D)
  BY PassedNat DEF Passed
<1>2. IsFiniteSet(c + 1 .. d) /\ Cardinality(c + 1 .. d) = d - c
  <2>1. c + 1 \in Int /\ d \in Int
    OBVIOUS
  <2>2. IsFiniteSet(c + 1 .. d) /\ Cardinality(c + 1 .. d) = IF c + 1 > d THEN 0 ELSE d - (c + 1) + 1
    BY <2>1, FS_Interval
  <2> QED BY <2>2
<1>3. B \subseteq c + 1 .. d /\ A \cup B = D /\ A \cap B = {}
  OBVIOUS
<1> HIDE DEF A, B, D
<1>4. IsFiniteSet(B) /\ Cardinality(B) \in Nat /\ Cardinality(B) <= d - c
  <2>1. IsFiniteSet(B) /\ Cardinality(B) <= Cardinality(c + 1 .. d)
    BY <1>2, <1>3, FS_Subset
  <2> QED BY <1>2, <2>1, FS_CardinalityType
<1>5. Cardinality(A \cup B) = Cardinality(A) + Cardinality(B) - Cardinality(A \cap B)
  BY <1>1, <1>4, FS_Union
<1>6. Cardinality(A \cap B) = 0 /\ Cardinality(A \cup B) = Cardinality(D)
  BY <1>3, FS_EmptySet
<1>7. Cardinality(B) \in 0 .. d - c /\ Passed(d) = Passed(c) + Cardinality(B)
  BY <1>1, <1>4, <1>5, <1>6
<1> QED BY <1>7 DEF B

(* What is in flight behind the descriptor at work.                        *)
Ahead ==
  LET k == Nth(transfers + 1)
  IN  /\ k \in Nat /\ requested \in Nat /\ Begun \in Nat
      /\ k \in 1 .. Len(program) /\ requested \in 1 .. Len(program) /\ k <= requested
      /\ k + One(axi_state \in AxiFetches) <= Begun /\ Begun <= requested
      /\ Cardinality({j \in k + 1 .. requested : ~Bad(program[j])}) < MAX_INFLIGHT

(* The ring manager bounds it.                                             *)
LEMMA InFlight == DataInv => (AxiHalves > 0 => Ahead)
<1> SUFFICES ASSUME DataInv, AxiHalves > 0 PROVE Ahead
  OBVIOUS
<1> DEFINE k == Nth(transfers + 1)
           f == One(axi_state \in AxiFetches)
           h == One(df_in_din # None)
           rp == One(dm_done)
           near == Cardinality({j \in k + 1 .. requested : ~Bad(program[j])})
           new  == Cardinality({j \in Checks + 1 .. requested : ~Bad(program[j])})
<1>1. MovementInv /\ ProgramOK /\ OrderInv
  BY DEF DataInv
<1>2. HeldCounts /\ requested <= Len(program) /\ Len(program) \in Nat
  BY <1>1, Held, ProgramSizes DEF OrderInv, FetchOrder, ProgramOK
<1>3. k \in 1 .. Len(program) /\ Passed(k) = transfers + 1 /\ k <= Checks
  BY <1>1, AtWork
<1>4. /\ f \in {0, 1} /\ h \in {0, 1} /\ rp \in {0, 1} /\ Reporting = rp
  BY DEF One, Reporting
<1>5. /\ Checks \in Nat /\ BeforeCheck \in Nat /\ Checked \in Nat /\ AxiHalves \in Nat
      /\ Len(df_in_q) \in Nat /\ Len(df_out_q) \in Nat /\ requested \in Nat /\ reported \in Nat
      /\ requested = Checks + BeforeCheck
      /\ BeforeCheck = h + Len(df_in_q) + Len(df_out_q) + f
  BY <1>2 DEF HeldCounts
<1>6. /\ requested = reported + BeforeCheck + Checked + AxiHalves + Reporting
      /\ requested - reported <= MAX_INFLIGHT
  BY <1>1 DEF MovementInv, EveryDescriptorAccounted, Limited
<1>7. transfers \in Nat /\ Passed(Checks) = transfers + AxiHalves + Checked
  BY <1>1 DEF OrderInv, MoveOrder
<1>8. k \in Nat /\ k <= requested /\ requested \in 1 .. Len(program)
  <2> HIDE DEF k, f, h
  <2> QED BY <1>2, <1>3, <1>5
<1>9. Begun = Checks + Len(df_out_q) + f
  BY DEF Begun
<1>10. Begun \in Nat /\ k + f <= Begun /\ Begun <= requested
  <2> HIDE DEF k, f, h
  <2> QED BY <1>3, <1>4, <1>5, <1>8, <1>9
<1>11. near < MAX_INFLIGHT
  <2>1. near \in 0 .. requested - k /\ Passed(requested) = Passed(k) + near
    <3> HIDE DEF k
    <3> QED BY <1>5, <1>8, PassedApart
  <2>2. new \in 0 .. requested - Checks /\ Passed(requested) = Passed(Checks) + new
    <3>1. Checks <= requested
      <4> HIDE DEF h, f
      <4> QED BY <1>5
    <3> QED BY <1>5, <3>1, PassedApart
  <2>3. MAX_INFLIGHT \in Nat
    BY Sizes
  <2> HIDE DEF k, f, h, near, new, rp
  <2> QED BY <1>3, <1>4, <1>5, <1>6, <1>7, <1>8, <2>1, <2>2, <2>3
<1> QED BY <1>3, <1>5, <1>8, <1>10, <1>11 DEF Ahead

(* The master's next descriptor is at most this far away.                  *)
LEMMA DelayRange ==
  DataInv => Delay \in Nat /\ Delay <= IF axi_state \in AxiFetches THEN 9 ELSE 3
<1> SUFFICES ASSUME DataInv
             PROVE  Delay \in Nat /\ Delay <= IF axi_state \in AxiFetches THEN 9 ELSE 3
  OBVIOUS
<1>1. axi_state = "s_df_r" => axi_beat \in Nat /\ axi_beat < 4
  BY Sizes DEF DataInv, MovementInv, Types, MasterOK, OrderInv, FetchBurst
<1> QED BY <1>1 DEF Delay, AxiFetches

(* A fetched descriptor finds room.                                        *)
LEMMA PushRoom ==
  ASSUME MovementInv, MAX_INFLIGHT <= DF_OUT_FIFO_Q
  PROVE  axi_state = "s_df_push" => ~DfOut!full
<1> SUFFICES ASSUME axi_state = "s_df_push" PROVE Len(df_out_q) # DF_OUT_FIFO_Q
  BY DEF DfOut!full
<1> DEFINE h == One(df_in_din # None)
           rp == One(dm_done)
           f == One(axi_state \in AxiFetches)
<1>1. h \in Nat /\ rp \in Nat /\ Reporting = rp /\ f = 1
  BY DEF One, Reporting, AxiFetches
<1>2. /\ Checked \in Nat /\ AxiHalves \in Nat
      /\ Len(df_in_q) \in Nat /\ Len(df_out_q) \in Nat /\ requested \in Nat /\ reported \in Nat
      /\ BeforeCheck = h + Len(df_in_q) + Len(df_out_q) + f
  BY Held DEF HeldCounts
<1>3. /\ requested = reported + BeforeCheck + Checked + AxiHalves + Reporting
      /\ requested - reported <= MAX_INFLIGHT
  BY DEF MovementInv, EveryDescriptorAccounted, Limited
<1> HIDE DEF h, rp, f
<1> QED BY <1>1, <1>2, <1>3, Sizes

(* The pace is kept at every edge.                                         *)
LEMMA PaceStep ==
  ASSUME MovementInv, SlaveFollows, PaceInv, NEW request \in BOOLEAN, Clock(request)
  PROVE  PaceInv'
<1>1. /\ MasterOK /\ SramOK /\ Axi!Edge /\ Sram!Edge(Axi!axi_done)
      /\ SystemMemory!WriteEdge(Axi!awvalid, axi_addr, Axi!wvalid, Mid!dout, Axi!wlast, Axi!bready)
  BY DEF MovementInv, Types, Clock, ClockMemory
<1>2. axi_state' = Axi!StateNext /\ sram_state' = Sram!StateNext(Axi!axi_done)
  BY <1>1 DEF Axi!Edge, Sram!Edge
<1>3. mid_empty' => Len(mid_q') <= 1
  <2> DEFINE r == One(Axi!mid_rd_en \/ Sram!wr_en)
             w == One((Axi!mid_wr_en \/ Sram!push) /\ ~Mid!full)
             x == IF Axi!mid_wr_en THEN SystemMemory!rdata ELSE dout
  <2>1. mid_q' = After(mid_q, r, w, x) /\ (r = 1 => mid_q # <<>>)
    BY MidEdge DEF One
  <2>2. mid_empty' = (Rest(mid_q, r) = <<>>)
    BY MidEdge DEF Clock, ClockFifos, Mid!Edge, One, Rest
  <2> HIDE DEF r, w, x
  <2>3. Rest(mid_q, r) = <<>> => Len(After(mid_q, r, w, x)) <= 1
    BY DEF After
  <2> QED BY <2>1, <2>2, <2>3
<1>4. w_state' \in {"W_IDLE", "W_DATA", "W_RESP"}
  BY <1>1 DEF PaceInv, SystemMemory!WriteEdge
<1>5. w_state' = "W_RESP" => axi_state' = "s_dm_wr_b"
  <2> SUFFICES ASSUME w_state' = "W_RESP" PROVE axi_state' = "s_dm_wr_b"
    OBVIOUS
  <2>1. w_state # "W_RESP"
    <3> SUFFICES ASSUME w_state = "W_RESP" PROVE FALSE
      OBVIOUS
    <3>1. Axi!bready
      BY DEF PaceInv, Axi!bready
    <3>2. w_state' = "W_IDLE"
      BY <1>1, <3>1 DEF SystemMemory!WriteEdge, SystemMemory!awready, SystemMemory!wready
    <3> QED BY <3>2
  <2>2. SystemMemory!wready /\ Axi!wvalid /\ Axi!wlast
    BY <1>1, <2>1 DEF SystemMemory!WriteEdge
  <2>3. axi_state = "s_dm_wr_w" /\ Axi!w_hs
    BY <2>2 DEF Axi!wvalid, Axi!w_hs
  <2> QED BY <1>2, <2>2, <2>3 DEF Axi!StateNext
<1>6. ASSUME sram_state' # "s_idle", axi_state' \notin AxiMoves \cup {"s_dm_get"}
      PROVE  ~dm_axi_empty'
  <2>1. sram_state \in SramMoves \cup {"s_dm_get"} \/ (sram_state = "s_idle" /\ ~dm_sram_empty)
    BY <1>1, <1>2, <1>6 DEF SramOK, Sram!StateNext
  <2>2. AxiHalves > 0
    <3>1. CASE sram_state \in SramMoves \cup {"s_dm_get"}
      BY <3>1, Working
    <3>2. CASE ~dm_sram_empty
      <4>1. dm_sram_q # <<>> /\ dm_sram_q \in Seq(Instrs)
        BY <3>2 DEF MovementInv, Flags, Types, QueuesOK, Queue
      <4>2. Len(dm_sram_q) > 0 /\ Len(dm_sram_q) \in Nat
        BY <4>1
      <4>3. AxiHalves = Len(dm_sram_q) + SramBusy /\ SramBusy \in {0, 1}
        BY Held DEF HeldCounts
      <4> QED BY <4>2, <4>3
    <3> QED BY <2>1, <3>1, <3>2
  <2>3. axi_state \notin AxiMoves \cup {"s_dm_get"}
    <3>1. ~handshake_done
      BY <1>2, <1>6 DEF handshake_done, Sram!StateNext, Sram!sram_done
    <3>2. axi_state \in AxiMoves \cup {"s_dm_get"} => axi_state' \in AxiMoves
      BY <1>2, <3>1 DEF AxiMoves, Axi!StateNext, handshake_done, Axi!axi_done
    <3> QED BY <1>6, <3>2
  <2>4. dm_axi_q # <<>>
    <3>1. AxiBusy = 0
      BY <2>3 DEF AxiBusy, One
    <3>2. AxiHalves = Len(dm_axi_q) + AxiBusy
      BY Held DEF HeldCounts
    <3> QED BY <2>2, <3>1, <3>2
  <2>5. ~Axi!dm_in_rd_en
    BY <2>3 DEF Axi!dm_in_rd_en
  <2>6. dm_axi_empty' = (dm_axi_q = <<>>)
    BY <2>5 DEF Clock, ClockFifos, DmAxi!Edge
  <2> QED BY <2>4, <2>6
<1> QED BY <1>3, <1>4, <1>5, <1>6 DEF PaceInv

(* The read-ahead gains a word on each edge at most, and an edge the       *)
(* master spends elsewhere is one of the eight of a descriptor.            *)
LEMMA LagStep ==
  ASSUME DataInv, DataInv', PaceInv, LagInv, LEN_RANGE >= DESC_WORDS,
         MAX_INFLIGHT <= DF_OUT_FIFO_Q, NEW request \in BOOLEAN, Clock(request)
  PROVE  LagInv'
<1> DEFINE k == Nth(transfers + 1)
           n == Len(mid_q)
<1> SUFFICES ASSUME sram_state' = "s_reading"
             PROVE  Len(mid_q') + Delay' <= 8 * (Begun' - k') + 3
  BY DEF LagInv
<1>1. /\ MovementInv /\ ProgramOK /\ OrderInv /\ AxiBurst /\ SramBurst /\ (AxiHalves > 0 => CopyState)
      /\ MovementInv' /\ OrderInv' /\ AxiBurst' /\ SramBurst' /\ (AxiHalves > 0 => CopyState)'
      /\ MasterOK /\ MemoryOK /\ SramOK /\ SlaveFollows /\ FetchBurst /\ transfers \in Nat
  BY DEF DataInv, CopyInv, MovementInv, Types, OrderInv, MoveOrder
<1>2. /\ Axi!Edge /\ axi_state' = Axi!StateNext
      /\ Sram!Edge(Axi!axi_done) /\ sram_state' = Sram!StateNext(Axi!axi_done)
  BY DEF Clock, Axi!Edge, Sram!Edge
<1>3. sram_state \in {"s_dm_get", "s_reading"} /\ ~handshake_done
  BY <1>1, <1>2 DEF SramOK, SramMoves, Sram!StateNext, handshake_done, Sram!sram_done
<1>4. AxiHalves > 0 /\ AxiHalves' > 0
  <2>1. AxiHalves > 0
    BY <1>1, <1>3, Working DEF SramMoves
  <2>2. AxiHalves \in Nat /\ One(handshake_done) = 0 /\ One(Mover!wr_en) \in {0, 1}
    BY <1>1, <1>3, Held DEF HeldCounts, One
  <2>3. AxiHalves' = AxiHalves + One(Mover!wr_en) - One(handshake_done)
    BY <1>1, Flow
  <2> QED BY <2>1, <2>2, <2>3
<1>5. k' = k /\ (Up' <=> Up)
  <2>1. transfers' = transfers /\ program' = program /\ (Up' <=> Up)
    BY <1>1, <1>3, SameTransfer DEF Clock
  <2> QED BY <2>1 DEF Nth, Passed, Bad
<1> SUFFICES n' + Delay' <= 8 * (Begun' - k) + 3
  BY <1>5
<1>6. Begun' = Begun + One(axi_state = "s_df_get")
  BY <1>1, BegunStep
<1>7. k \in Nat /\ Begun \in Nat /\ k <= Begun
  <2>1. Ahead
    BY <1>4, InFlight
  <2>2. One(axi_state \in AxiFetches) \in Nat
    BY DEF One
  <2> HIDE DEF k
  <2>3. k \in Nat /\ Begun \in Nat /\ k + One(axi_state \in AxiFetches) <= Begun
    BY <2>1 DEF Ahead, k
  <2> QED BY <2>2, <2>3
<1>8. Delay' \in Nat /\ Delay' <= IF axi_state' \in AxiFetches THEN 9 ELSE 3
  <2>1. (Delay \in Nat /\ Delay <= IF axi_state \in AxiFetches THEN 9 ELSE 3)'
    BY DelayRange, PTL
  <2> QED BY <2>1 DEF AxiFetches
<1>9. CASE sram_state = "s_dm_get"
  <2>1. n' \in Nat /\ n' <= 0
    <3>1. CopyState' /\ ~Up' /\ sram_beat' = 0
      BY <1>1, <1>2, <1>4, <1>9 DEF SramBurst, Sram!Edge, Sram!dm_in_rd_en
    <3>2. n' = sram_beat' - AxiWords' /\ AxiWords' <= sram_beat'
      BY <3>1 DEF CopyState, ReadSoFar, WroteSoFar, SramWords
    <3>3. HeldCounts'
      BY <1>1, Held, PTL
    <3>4. n' \in Nat
      BY <3>3 DEF HeldCounts
    <3>5. AxiWords' \in Nat
      <4>1. AxiWords' = AxiWords + One(Axi!mid_wr_en \/ Axi!mid_rd_en) /\ AxiWords \in 0 .. Words(Now)
        BY <1>1, <1>3, <1>4, Progress
      <4>2. Words(Now) \in 1 .. LEN_RANGE - 1 /\ LEN_RANGE \in Nat
        BY <1>1, <1>4, AtWork, Sizes
      <4> QED BY <4>1, <4>2 DEF One
    <3>6. sram_beat' \in Nat /\ sram_beat' <= 0
      BY <3>1
    <3>7. \A a, b, c \in Nat : c = b - a => c <= b
      OBVIOUS
    <3> HIDE DEF n
    <3>8. n' <= sram_beat'
      BY <3>2, <3>4, <3>5, <3>6, <3>7
    <3>9. \A b, c \in Nat : c <= b /\ b <= 0 => c <= 0
      OBVIOUS
    <3> QED BY <3>4, <3>6, <3>8, <3>9
  <2>2. (DataInv => (AxiHalves > 0 => Ahead))'
    BY InFlight, PTL
  <2>3. Begun' \in Nat /\ k + One(axi_state' \in AxiFetches) <= Begun'
    BY <1>4, <1>5, <2>2 DEF Ahead
  <2> HIDE DEF k, n
  <2>4. CASE axi_state' \in AxiFetches
    <3>1. Delay' \in Nat /\ Delay' <= 9
      BY <1>8, <2>4
    <3>2. Begun' \in Nat /\ k + 1 <= Begun'
      BY <2>3, <2>4 DEF One
    <3>3. \A l, d, b, i \in Nat : l <= 0 /\ d <= 9 /\ i + 1 <= b => l + d <= 8 * (b - i) + 3
      OBVIOUS
    <3> QED BY <1>7, <2>1, <3>1, <3>2, <3>3
  <2>5. CASE axi_state' \notin AxiFetches
    <3>1. Delay' \in Nat /\ Delay' <= 3
      BY <1>8, <2>5
    <3>2. Begun' \in Nat /\ k <= Begun'
      BY <1>7, <2>3, <2>5 DEF One
    <3>3. \A l, d, b, i \in Nat : l <= 0 /\ d <= 3 /\ i <= b => l + d <= 8 * (b - i) + 3
      OBVIOUS
    <3> QED BY <1>7, <2>1, <3>1, <3>2, <3>3
  <2> QED BY <2>4, <2>5
<1>10. CASE sram_state = "s_reading"
  <2> DEFINE r == One(Axi!mid_rd_en \/ Sram!wr_en)
             w == One((Axi!mid_wr_en \/ Sram!push) /\ ~Mid!full)
  <2>1. n' = n - r + w /\ n \in Nat /\ r \in {0, 1} /\ w \in {0, 1}
    <3> DEFINE x == IF Axi!mid_wr_en THEN SystemMemory!rdata ELSE dout
    <3>1. /\ mid_q' = After(mid_q, r, w, x) /\ (r = 1 => mid_q # <<>>)
          /\ r \in {0, 1} /\ w \in {0, 1} /\ (w = 1 => x \in Nat)
      BY <1>1, MidEdge, ReadData DEF One, SramOK
    <3>2. Queue(mid_q, Nat) /\ Len(mid_q) \in Nat
      BY <1>1 DEF MovementInv, Types, QueuesOK, Queue
    <3> HIDE DEF r, w, x
    <3> QED BY <3>1, <3>2, QueueLen
  <2>2. n + Delay <= 8 * (Begun - k) + 3 /\ ~Up
    BY <1>1, <1>10 DEF LagInv, SramBurst
  <2>3. CASE axi_state # "s_dm_wr_w"
    <3>1. /\ axi_state \in {"s_idle", "s_df_get", "s_df_ar", "s_df_r", "s_df_push", "s_dm_get", "s_dm_wr_aw"}
      <4>1. axi_state \notin {"s_dm_rd_ar", "s_dm_rd_r"}
        BY <1>1, <2>2 DEF AxiBurst
      <4>2. axi_state \notin {"s_dm_wr_b", "s_wait_sram"}
        <5> SUFFICES ASSUME axi_state \in {"s_dm_wr_b", "s_wait_sram"} PROVE FALSE
          OBVIOUS
        <5>1. CopyState /\ AxiWords = Words(Now) /\ SramWords = sram_beat
          BY <1>1, <1>4, <1>10 DEF AxiWords, SramWords
        <5>2. Words(Now) <= sram_beat
          BY <2>2, <5>1 DEF CopyState, ReadSoFar, WroteSoFar
        <5>3. sram_beat \in Nat /\ sram_beat < sram_len /\ sram_len = Words(Now)
          BY <1>1, <1>10 DEF SramBurst
        <5>4. Words(Now) \in 1 .. LEN_RANGE - 1 /\ LEN_RANGE \in Nat
          BY <1>1, <1>4, AtWork, Sizes
        <5> QED BY <5>2, <5>3, <5>4
      <4> QED BY <1>1, <2>3, <4>1, <4>2 DEF MasterOK, AxiFetches, AxiMoves
    <3>2. Delay \in Nat /\ Delay' \in Nat /\ Delay' + 1 <= Delay + 8 * One(axi_state = "s_df_get")
      <4>1. CASE axi_state = "s_idle"
        <5>1. ~dm_axi_empty
          BY <1>10, <4>1 DEF PaceInv, AxiMoves
        <5>2. axi_state' \in {"s_df_get", "s_dm_get"}
          BY <1>2, <4>1, <5>1 DEF Axi!StateNext
        <5>3. Delay = 3 /\ Delay' = 2
          BY <4>1, <5>2 DEF Delay
        <5> QED BY <4>1, <5>3 DEF One
      <4>2. CASE axi_state = "s_df_get"
        <5>1. axi_state' = "s_df_ar"
          BY <1>2, <4>2 DEF Axi!StateNext
        <5>2. Delay = 2 /\ Delay' = 9
          BY <4>2, <5>1 DEF Delay
        <5> QED BY <4>2, <5>2 DEF One
      <4>3. CASE axi_state = "s_df_ar"
        <5>1. axi_state' = "s_df_r" /\ axi_beat' = 0
          BY <1>1, <1>2, <4>3 DEF Axi!StateNext, Axi!Edge, SlaveFollows, SystemMemory!arready, FetchBurst,
             Axi!df_in_rd_en, Axi!dm_in_rd_en, Axi!awvalid, Axi!w_hs, Axi!wvalid
        <5>2. Delay = 9 /\ Delay' = 8
          BY <4>3, <5>1 DEF Delay
        <5> QED BY <4>3, <5>2 DEF One
      <4>4. CASE axi_state = "s_df_r"
        <5>1. Axi!r_hs /\ r_last_beat = 3 /\ r_beat = axi_beat /\ axi_beat \in 0 .. 3
          BY <1>1, <4>4, Sizes DEF Axi!r_hs, Axi!rready, SlaveFollows, SystemMemory!rvalid, FetchBurst, MasterOK
        <5>2. Delay = 8 - axi_beat
          BY <4>4 DEF Delay
        <5>3. CASE SystemMemory!rlast
          <6>1. axi_state' = "s_df_push" /\ axi_beat = 3
            BY <1>2, <4>4, <5>1, <5>3 DEF Axi!StateNext, SystemMemory!rlast
          <6>2. Delay' = 4
            BY <6>1 DEF Delay
          <6> QED BY <4>4, <5>2, <6>1, <6>2 DEF One
        <5>4. CASE ~SystemMemory!rlast
          <6>1. axi_state' = "s_df_r" /\ axi_beat \in 0 .. 2 /\ axi_beat' = (axi_beat + 1) % LEN_RANGE
            BY <1>2, <4>4, <5>1, <5>4 DEF Axi!StateNext, SystemMemory!rlast, Axi!Edge, Axi!df_in_rd_en,
               Axi!dm_in_rd_en, Axi!awvalid, Axi!Bump
          <6>2. (axi_beat + 1) % LEN_RANGE = axi_beat + 1
            BY <6>1, Sizes
          <6>3. Delay' = 8 - (axi_beat + 1)
            BY <6>1, <6>2 DEF Delay
          <6> QED BY <4>4, <5>2, <6>1, <6>3 DEF One
        <5> QED BY <5>3, <5>4
      <4>5. CASE axi_state = "s_df_push"
        <5>1. axi_state' = "s_idle"
          BY <1>1, <1>2, <4>5, PushRoom DEF Axi!StateNext, Axi!df_out_wr_en
        <5>2. Delay = 4 /\ Delay' = 3
          BY <4>5, <5>1 DEF Delay
        <5> QED BY <4>5, <5>2 DEF One
      <4>6. CASE axi_state = "s_dm_get"
        <5>1. axi_state' = "s_dm_wr_aw"
          BY <1>1, <1>2, <1>5, <2>2, <4>6 DEF Axi!StateNext, AxiBurst
        <5>2. Delay = 2 /\ Delay' = 1
          BY <4>6, <5>1 DEF Delay
        <5> QED BY <4>6, <5>2 DEF One
      <4>7. CASE axi_state = "s_dm_wr_aw"
        <5>1. axi_state' = "s_dm_wr_w"
          BY <1>1, <1>2, <4>7 DEF Axi!StateNext, PaceInv, SlaveFollows, SystemMemory!awready
        <5>2. Delay = 1 /\ Delay' = 0
          BY <4>7, <5>1 DEF Delay
        <5> QED BY <4>7, <5>2 DEF One
      <4> QED BY <3>1, <4>1, <4>2, <4>3, <4>4, <4>5, <4>6, <4>7
    <3>3. One(axi_state = "s_df_get") \in {0, 1}
      BY DEF One
    <3> HIDE DEF k, n, r, w
    <3> QED BY <1>6, <1>7, <2>1, <2>2, <3>2, <3>3
  <2>4. CASE axi_state = "s_dm_wr_w"
    <3>1. Delay = 0 /\ Delay' = 0 /\ Begun' = Begun
      <4>1. axi_state' \in {"s_dm_wr_w", "s_dm_wr_b"} /\ One(axi_state = "s_df_get") = 0
        BY <1>2, <2>4 DEF Axi!StateNext, One
      <4> QED BY <1>6, <1>7, <2>4, <4>1 DEF Delay
    <3>2. CASE mid_empty
      <4>1. n <= 1
        BY <3>2 DEF PaceInv
      <4> HIDE DEF k, n, r, w
      <4> QED BY <1>5, <1>7, <2>1, <3>1, <4>1
    <3>3. CASE ~mid_empty
      <4>1. r = 1
        BY <1>1, <2>4, <3>3 DEF One, Axi!mid_rd_en, Axi!w_hs, Axi!wvalid, SlaveFollows, SystemMemory!wready
      <4> HIDE DEF k, n, r, w
      <4> QED BY <1>5, <1>7, <2>1, <2>2, <3>1, <4>1
    <3> QED BY <3>2, <3>3
  <2> QED BY <2>3, <2>4
<1> QED BY <1>3, <1>9, <1>10

(* A program the engine keeps up with never fills the mid FIFO: what it    *)
(* reads ahead is all of a short download, or less than the FIFO holds.    *)
LEMMA PaceNeverStalls == DataInv /\ LagInv /\ KeepsUp(program) => ReadAheadNeverStalls
<1> SUFFICES ASSUME DataInv, LagInv, KeepsUp(program), sram_state = "s_reading"
             PROVE  Len(mid_q) < MID_FIFO_Q
  BY Sizes DEF ReadAheadNeverStalls, Mid!full
<1> DEFINE k == Nth(transfers + 1)
<1>1. MovementInv /\ ProgramOK /\ OrderInv /\ AxiBurst /\ SramBurst /\ (AxiHalves > 0 => CopyState)
  BY DEF DataInv, CopyInv
<1>2. AxiHalves > 0 /\ Ahead
  BY <1>1, Working, InFlight DEF SramMoves
<1>3. ~Up /\ sram_len = Words(Now) /\ sram_beat \in Nat /\ sram_beat < sram_len
  BY <1>1 DEF SramBurst
<1>4. Words(Now) \in 1 .. LEN_RANGE - 1 /\ k \in 1 .. Len(program) /\ ~Bad(Now) /\ Now = program[k]
  BY <1>1, <1>2, AtWork DEF Now
<1>5. Words(Now) \in Nat /\ MID_FIFO_Q \in Nat
  BY <1>4, Sizes
<1>6. CASE Words(Now) <= MID_FIFO_Q
  <2>1. Len(mid_q) = sram_beat - AxiWords
    BY <1>1, <1>2, <1>3 DEF CopyState, ReadSoFar, WroteSoFar, SramWords
  <2>2. AxiWords \in Nat
    BY <1>1, <1>5 DEF AxiWords, MovementInv, Types, MasterOK, MemoryOK
  <2> QED BY <1>3, <1>5, <1>6, <2>1, <2>2
<1>7. CASE Words(Now) > MID_FIFO_Q
  <2>1. /\ requested \in 1 .. Len(program) /\ k <= requested /\ k \in Nat /\ requested \in Nat
        /\ Begun \in Nat /\ Begun <= requested
        /\ Cardinality({j \in k + 1 .. requested : ~Bad(program[j])}) < MAX_INFLIGHT
    BY <1>2 DEF Ahead
  <2>2. FETCH_EDGES * (requested - k) + 3 < MID_FIFO_Q
    BY <1>3, <1>4, <1>7, <2>1 DEF KeepsUp, Up
  <2>3. 8 * (requested - k) + 3 < MID_FIFO_Q
    BY <2>2, Sizes DEF FETCH_EDGES
  <2>4. Len(mid_q) + Delay <= 8 * (Begun - k) + 3 /\ Delay \in Nat
    BY DelayRange DEF LagInv
  <2>5. Len(mid_q) \in Nat
    BY <1>1, Held DEF HeldCounts
  <2> HIDE DEF k
  <2> QED BY <1>5, <2>1, <2>3, <2>4, <2>5
<1> QED BY <1>5, <1>6, <1>7
-----------------------------------------------------------------------------
(* For every program of descriptors that stay inside the memories, FIFO    *)
(* depth, limit on descriptors in flight and order of the edges: as long   *)
(* as the read-ahead of the SRAM controller does not stall, the memories   *)
(* at every handshake are those of executing the descriptors that passed   *)
(* the check one at a time, and the mid FIFO is empty.                     *)
THEOREM CopiesAreInOrder ==
  ASSUME LEN_RANGE >= DESC_WORDS, \A p \in Programs : Executable(p)
  PROVE  Spec /\ []ReadAheadNeverStalls => []CopiesInOrder
<1>1. Init => DataInv
  BY DataInit
<1>2. DataInv /\ ReadAheadNeverStalls /\ [Next]_vars => DataInv'
  BY DataStep
<1> QED BY <1>1, <1>2, DataCopies, PTL DEF Spec

(* The invariant of the programs the engine keeps up with.                 *)
KeptUp == DataInv /\ PaceInv /\ LagInv /\ KeepsUp(program)

LEMMA KeptUpInvariant ==
  ASSUME LEN_RANGE >= DESC_WORDS, MAX_INFLIGHT <= DF_OUT_FIFO_Q,
         \A p \in Programs : Executable(p) /\ KeepsUp(p)
  PROVE  Spec => []KeptUp
<1>1. Init => KeptUp
  <2> SUFFICES ASSUME Init PROVE KeptUp
    OBVIOUS
  <2>1. DataInv /\ KeepsUp(program)
    BY DataInit DEF Init
  <2>2. mid_q = <<>> /\ w_state = "W_IDLE" /\ sram_state = "s_idle"
    BY DEF Init, Mid!Init, SystemMemory!Reset, Sram!Reset
  <2> QED BY <2>1, <2>2 DEF KeptUp, PaceInv, LagInv
<1>2. KeptUp /\ [Next]_vars => KeptUp'
  <2> SUFFICES ASSUME KeptUp, [Next]_vars PROVE KeptUp'
    OBVIOUS
  <2>1. DataInv /\ PaceInv /\ LagInv /\ KeepsUp(program) /\ MovementInv /\ SlaveFollows
    BY DEF KeptUp, DataInv, OrderInv
  <2>2. DataInv'
    BY <2>1, PaceNeverStalls, DataStep
  <2>3. KeepsUp(program)'
    <3>1. program' = program
      BY DEF Next, Clock, vars
    <3> QED BY <2>1, <3>1 DEF KeepsUp, Words, Bad
  <2>4. PaceInv' /\ LagInv'
    <3>1. CASE Next
      BY <2>1, <2>2, <3>1, PaceStep, LagStep DEF Next
    <3>2. CASE UNCHANGED vars
      <4> USE <3>2 DEF vars, fetcher, mover, master, sram, sysmem, fifos, done
      <4>1. PaceInv'
        BY <2>1 DEF PaceInv
      <4>2. Delay' = Delay /\ Begun' = Begun /\ Nth(transfers + 1)' = Nth(transfers + 1)
        BY DEF Delay, Begun, Checks, BeforeCheck, Nth, Passed, Bad
      <4> QED BY <2>1, <4>1, <4>2 DEF LagInv
    <3> QED BY <3>1, <3>2
  <2> QED BY <2>2, <2>3, <2>4 DEF KeptUp
<1> QED BY <1>1, <1>2, PTL DEF Spec

(* Then the read-ahead of the SRAM controller never stalls, however long   *)
(* the bursts are,                                                         *)
THEOREM ReadsKeepUp ==
  ASSUME LEN_RANGE >= DESC_WORDS, MAX_INFLIGHT <= DF_OUT_FIFO_Q,
         \A p \in Programs : Executable(p) /\ KeepsUp(p)
  PROVE  Spec => []ReadAheadNeverStalls
<1>1. KeptUp => ReadAheadNeverStalls
  BY PaceNeverStalls DEF KeptUp
<1> QED BY <1>1, KeptUpInvariant, PTL

(* and every handshake leaves the memories the software model computes.    *)
THEOREM KeptUpCopiesInOrder ==
  ASSUME LEN_RANGE >= DESC_WORDS, MAX_INFLIGHT <= DF_OUT_FIFO_Q,
         \A p \in Programs : Executable(p) /\ KeepsUp(p)
  PROVE  Spec => []CopiesInOrder
<1>1. KeptUp => CopiesInOrder
  BY DataCopies DEF KeptUp
<1> QED BY <1>1, KeptUpInvariant, PTL
=============================================================================
