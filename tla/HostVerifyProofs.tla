-------------------------- MODULE HostVerifyProofs --------------------------
(***************************************************************************)
(* What the verdicts of the host tools are worth, for all memory sizes and *)
(* scenarios, whatever the board held before and whatever its engine did.  *)
(*                                                                         *)
(* First what a sequence of descriptors does to two memories: a word is    *)
(* what the last descriptor that writes it found in its source, or what it *)
(* was.  Then that the software model's memories are those of its fetched  *)
(* descriptors executed on the memories its event loop started with, and   *)
(* that the host tools hold the same image of those memories.  Then, that  *)
(* a board loaded with stim.txt holds every word that was sent, so that an *)
(* engine without mistakes executes what was posted.  Last, the display:   *)
(* the tables it shows now and those it will show after each event that    *)
(* is still in the pipe.                                                   *)
(***************************************************************************)
EXTENDS HostVerify, GoldenRingProofs

Mems ==
  [smem : [0 .. SMEM_WORDS - 1 -> Nat], sram : [0 .. BRAM_SIZE - 1 -> Nat]]

Holders == Mems \cup BoardStates

Regions == {"smem", "sram"}
Size(r) == IF r = "sram" THEN BRAM_SIZE ELSE SMEM_WORDS

(* Word a of memory r.                                                     *)
At(m, r, a) == IF r = "sram" THEN m.sram[a] ELSE m.smem[a]

(* The words a descriptor writes and reads, and where one comes from.      *)
Into(d) == Dst(d) \div 4 .. (Dst(d) \div 4) + Beats(d) - 1
OutOf(d) == Src(d) \div 4 .. (Src(d) \div 4) + Beats(d) - 1
Origin(d, a) == (Src(d) \div 4) + (a - (Dst(d) \div 4))

Writes(d, r, a) == r = DestinationOf(d) /\ a \in Into(d)

(* Both halves stay inside their memories.                                 *)
Legal(d) ==
  Beats(d) # 0 =>
    /\ (Src(d) \div 4) + Beats(d) <= Size(SourceOf(d))
    /\ (Dst(d) \div 4) + Beats(d) <= Size(DestinationOf(d))

LegalDescs == {d \in Descriptors : Legal(d)}
-----------------------------------------------------------------------------
(* One descriptor.                                                         *)

(* Where a descriptor reads and writes.                                    *)
LEMMA Ranges ==
  ASSUME NEW d \in LegalDescs
  PROVE  /\ d \in Descriptors /\ Src(d) \div 4 \in Nat /\ Dst(d) \div 4 \in Nat /\ Beats(d) \in Nat
         /\ ToSram(d) \in BOOLEAN
         /\ SourceOf(d) \in Regions /\ DestinationOf(d) \in Regions /\ SourceOf(d) # DestinationOf(d)
         /\ Into(d) \subseteq 0 .. Size(DestinationOf(d)) - 1
         /\ OutOf(d) \subseteq 0 .. Size(SourceOf(d)) - 1
         /\ \A a \in Into(d) : Origin(d, a) \in OutOf(d)
         /\ \A b \in OutOf(d) :
              /\ (Dst(d) \div 4) + (b - (Src(d) \div 4)) \in Into(d)
              /\ Origin(d, (Dst(d) \div 4) + (b - (Src(d) \div 4))) = b
<1> DEFINE s == Src(d) \div 4
           t == Dst(d) \div 4
           n == Beats(d)
<1>1. d \in Descriptors /\ s \in Nat /\ t \in Nat /\ n \in Nat /\ ToSram(d) \in BOOLEAN
  BY Fields, WordIndex DEF LegalDescs
<1>2. SourceOf(d) \in Regions /\ DestinationOf(d) \in Regions /\ SourceOf(d) # DestinationOf(d)
  BY DEF SourceOf, DestinationOf, Regions
<1>3. Size(SourceOf(d)) \in Nat /\ Size(DestinationOf(d)) \in Nat
  BY GoldenAssumption DEF Size
<1>4. n # 0 => s + n <= Size(SourceOf(d)) /\ t + n <= Size(DestinationOf(d))
  BY DEF LegalDescs, Legal
<1>5. Into(d) = t .. t + n - 1 /\ OutOf(d) = s .. s + n - 1
  BY DEF Into, OutOf
<1>6. \A a : Origin(d, a) = s + (a - t)
  BY DEF Origin
<1> HIDE DEF s, t, n
<1>7. Into(d) \subseteq 0 .. Size(DestinationOf(d)) - 1 /\ OutOf(d) \subseteq 0 .. Size(SourceOf(d)) - 1
  BY <1>1, <1>3, <1>4, <1>5
<1>8. \A a \in Into(d) : Origin(d, a) \in OutOf(d)
  BY <1>1, <1>5, <1>6
<1>9. \A b \in OutOf(d) : t + (b - s) \in Into(d) /\ Origin(d, t + (b - s)) = b
  BY <1>1, <1>5, <1>6
<1>10. QED
  BY <1>1, <1>2, <1>7, <1>8, <1>9 DEF s, t, n

(* What one word is after a copy.                                          *)
LEMMA CopyAt ==
  ASSUME NEW m \in Holders, NEW d \in LegalDescs
  PROVE  /\ Copy(m, d) \in Holders
         /\ \A r \in Regions : \A a \in 0 .. Size(r) - 1 :
              At(Copy(m, d), r, a) =
                IF Writes(d, r, a) THEN At(m, SourceOf(d), Origin(d, a)) ELSE At(m, r, a)
<1> DEFINE s == Src(d) \div 4
           t == Dst(d) \div 4
           n == Beats(d)
<1>1. /\ d \in Descriptors /\ s \in Nat /\ t \in Nat /\ n \in Nat
      /\ SMEM_WORDS \in Nat /\ BRAM_SIZE \in Nat
  BY Ranges, GoldenAssumption
<1>2. m.smem \in [0 .. SMEM_WORDS - 1 -> Nat] /\ m.sram \in [0 .. BRAM_SIZE - 1 -> Nat]
  BY DEF Holders, Mems, BoardStates
<1>3. n # 0 => s + n <= Size(SourceOf(d)) /\ t + n <= Size(DestinationOf(d))
  BY DEF LegalDescs, Legal
<1>4. ASSUME NEW N \in Nat, NEW K \in Nat, NEW from \in [0 .. N - 1 -> Nat], NEW to \in [0 .. K - 1 -> Nat],
             n # 0 => s + n <= N /\ t + n <= K
      PROVE  /\ WriteWords(to, t, ReadWords(from, s, n)) \in [0 .. K - 1 -> Nat]
             /\ \A a \in 0 .. K - 1 :
                  WriteWords(to, t, ReadWords(from, s, n))[a] =
                    IF a \in Into(d) THEN from[Origin(d, a)] ELSE to[a]
  <2> DEFINE w == ReadWords(from, s, n)
  <2> HIDE DEF s, t, n
  <2>1. w \in Seq(Nat) /\ Len(w) = n /\ \A i \in 1 .. n : w[i] = from[s + i - 1]
    BY <1>1, <1>4, ReadsNat DEF ReadWords
  <2> HIDE DEF w
  <2>2. WriteWords(to, t, w) \in [0 .. K - 1 -> Nat]
    BY <1>1, <2>1, WritesNat
  <2>3. ASSUME NEW a \in 0 .. K - 1
        PROVE  WriteWords(to, t, w)[a] = IF a \in t .. t + n - 1 THEN from[s + (a - t)] ELSE to[a]
    <3>1. WriteWords(to, t, w)[a] = IF a \in t .. t + Len(w) - 1 THEN w[a - t + 1] ELSE to[a]
      BY DEF WriteWords
    <3>2. CASE a \in t .. t + n - 1
      <4>1. a - t + 1 \in 1 .. n /\ s + (a - t + 1) - 1 = s + (a - t)
        BY <1>1, <3>2
      <4>2. QED
        BY <2>1, <3>1, <3>2, <4>1
    <3>3. CASE a \notin t .. t + n - 1
      BY <2>1, <3>1, <3>3
    <3>4. QED
      BY <3>2, <3>3
  <2>4. QED
    BY <2>2, <2>3 DEF Into, Origin, w, s, t, n
<1> HIDE DEF s, t, n
<1>5. CASE ToSram(d)
  <2> DEFINE new == WriteWords(m.sram, t, ReadWords(m.smem, s, n))
  <2>1. SourceOf(d) = "smem" /\ DestinationOf(d) = "sram"
    BY <1>5 DEF SourceOf, DestinationOf
  <2>2. n # 0 => s + n <= SMEM_WORDS /\ t + n <= BRAM_SIZE
    BY <1>3, <2>1 DEF Size
  <2>3. /\ new \in [0 .. BRAM_SIZE - 1 -> Nat]
        /\ \A a \in 0 .. BRAM_SIZE - 1 : new[a] = IF a \in Into(d) THEN m.smem[Origin(d, a)] ELSE m.sram[a]
    BY <1>1, <1>2, <1>4, <2>2
  <2>4. Copy(m, d) = [m EXCEPT !.sram = new]
    BY <1>5 DEF Copy, s, t, n
  <2> HIDE DEF new
  <2>5. Copy(m, d) \in Holders /\ Copy(m, d).sram = new /\ Copy(m, d).smem = m.smem
    BY <2>3, <2>4 DEF Holders, Mems, BoardStates
  <2>6. QED
    BY <2>1, <2>3, <2>5 DEF At, Writes, Regions, Size
<1>6. CASE ~ToSram(d)
  <2> DEFINE new == WriteWords(m.smem, t, ReadWords(m.sram, s, n))
  <2>1. SourceOf(d) = "sram" /\ DestinationOf(d) = "smem"
    BY <1>6 DEF SourceOf, DestinationOf
  <2>2. n # 0 => s + n <= BRAM_SIZE /\ t + n <= SMEM_WORDS
    BY <1>3, <2>1 DEF Size
  <2>3. /\ new \in [0 .. SMEM_WORDS - 1 -> Nat]
        /\ \A a \in 0 .. SMEM_WORDS - 1 : new[a] = IF a \in Into(d) THEN m.sram[Origin(d, a)] ELSE m.smem[a]
    BY <1>1, <1>2, <1>4, <2>2
  <2>4. Copy(m, d) = [m EXCEPT !.smem = new]
    BY <1>6 DEF Copy, s, t, n
  <2> HIDE DEF new
  <2>5. Copy(m, d) \in Holders /\ Copy(m, d).smem = new /\ Copy(m, d).sram = m.sram
    BY <2>3, <2>4 DEF Holders, Mems, BoardStates
  <2>6. QED
    BY <2>1, <2>3, <2>5 DEF At, Writes, Regions, Size
<1>7. QED
  BY <1>5, <1>6
-----------------------------------------------------------------------------
(* A sequence of them.                                                     *)

(* Runs is what its recursive definition says, by the least counterexample. *)
LEMMA RunsAre ==
  ASSUME NEW m, NEW s, Len(s) \in Nat
  PROVE  /\ Runs(m, s)[0] = m
         /\ \A k \in 1 .. Len(s) : Runs(m, s)[k] = Copy(Runs(m, s)[k - 1], s[k])
<1> DEFINE L == Len(s)
           Is(g, n) == g = [k \in 0 .. n |-> IF k = 0 THEN m ELSE Copy(g[k - 1], s[k])]
           S == {n \in 0 .. L : ~\E g : Is(g, n)}
<1>1. S = {}
  <2> SUFFICES ASSUME S # {} PROVE FALSE
    OBVIOUS
  <2>1. S \in SUBSET Nat
    OBVIOUS
  <2>2. PICK c \in S : \A n \in S : c <= n
    <3> HIDE DEF S
    <3>1. QED
      BY <2>1, Smallest
  <2>3. c \in 0 .. L /\ ~\E g : Is(g, c)
    BY <2>2
  <2>4. c # 0
    <3> SUFFICES ASSUME c = 0 PROVE FALSE
      OBVIOUS
    <3> DEFINE g == [k \in 0 .. 0 |-> m]
    <3>1. Is(g, 0)
      BY DEF g
    <3>2. QED
      BY <2>3, <3>1
  <2>5. c - 1 \in 0 .. L /\ c - 1 \notin S
    BY <2>2, <2>3, <2>4
  <2>6. PICK g : Is(g, c - 1)
    BY <2>5
  <2> DEFINE h == [k \in 0 .. c |-> IF k = c THEN Copy(g[c - 1], s[c]) ELSE g[k]]
  <2>7. \A k \in 0 .. c - 1 : g[k] = IF k = 0 THEN m ELSE Copy(g[k - 1], s[k])
    BY <2>6, Zenon
  <2>8. \A k \in 0 .. c : h[k] = IF k = 0 THEN m ELSE Copy(h[k - 1], s[k])
    <3> SUFFICES ASSUME NEW k \in 0 .. c
                 PROVE  h[k] = IF k = 0 THEN m ELSE Copy(h[k - 1], s[k])
      OBVIOUS
    <3>1. CASE k = 0
      BY <2>3, <2>4, <2>7, <3>1
    <3>2. CASE k # 0
      <4>1. k - 1 \in 0 .. c /\ k - 1 # c /\ h[k - 1] = g[k - 1]
        BY <2>3, <3>2
      <4>2. CASE k = c
        BY <4>1, <4>2, <3>2
      <4>3. CASE k # c
        <5>1. k \in 0 .. c - 1
          BY <2>3, <4>3
        <5>2. QED
          BY <2>7, <3>2, <4>1, <4>3, <5>1
      <4>4. QED
        BY <4>2, <4>3
    <3>3. QED
      BY <3>1, <3>2
  <2>9. Is(h, c)
    <3>1. h = [k \in 0 .. c |-> h[k]]
      OBVIOUS
    <3> HIDE DEF h
    <3>2. QED
      BY <2>8, <3>1
  <2>10. QED
    BY <2>3, <2>9
<1>2. \E g : Is(g, L)
  <2>1. L \in 0 .. L /\ L \notin S
    BY <1>1
  <2>2. QED
    BY <2>1
<1>3. Is(Runs(m, s), L)
  <2>1. Runs(m, s) = CHOOSE g : Is(g, L)
    BY DEF Runs
  <2> HIDE DEF Is
  <2>2. QED
    BY <1>2, <2>1, Zenon
<1>4. \A k \in 0 .. L : Runs(m, s)[k] = IF k = 0 THEN m ELSE Copy(Runs(m, s)[k - 1], s[k])
  BY <1>3, Zenon
<1>5. QED
  BY <1>4

(* Memories stay memories.                                                 *)
LEMMA RunsHold ==
  ASSUME NEW m \in Holders, NEW s \in Seq(LegalDescs)
  PROVE  \A k \in 0 .. Len(s) : Runs(m, s)[k] \in Holders
<1> DEFINE S == {n \in 0 .. Len(s) : Runs(m, s)[n] \notin Holders}
<1>1. /\ Len(s) \in Nat /\ \A k \in 1 .. Len(s) : s[k] \in LegalDescs
      /\ Runs(m, s)[0] = m
      /\ \A k \in 1 .. Len(s) : Runs(m, s)[k] = Copy(Runs(m, s)[k - 1], s[k])
  BY RunsAre
<1>2. S = {}
  <2> SUFFICES ASSUME S # {} PROVE FALSE
    OBVIOUS
  <2>1. S \in SUBSET Nat
    BY <1>1
  <2>2. PICK c \in S : \A n \in S : c <= n
    <3> HIDE DEF S
    <3>1. QED
      BY <2>1, Smallest
  <2>3. c \in 1 .. Len(s) /\ Runs(m, s)[c] \notin Holders
    BY <1>1, <2>2
  <2>4. c - 1 \in 0 .. Len(s) /\ c - 1 \notin S
    BY <1>1, <2>2, <2>3
  <2>5. Runs(m, s)[c - 1] \in Holders
    BY <2>4
  <2>6. QED
    BY <1>1, <2>3, <2>5, CopyAt
<1>3. QED
  BY <1>2

(* One more descriptor, word by word.                                      *)
LEMMA RunsNext ==
  ASSUME NEW m \in Holders, NEW s \in Seq(LegalDescs), NEW k \in 1 .. Len(s),
         NEW r \in Regions, NEW a \in 0 .. Size(r) - 1
  PROVE  At(Runs(m, s)[k], r, a) =
           IF Writes(s[k], r, a) THEN At(Runs(m, s)[k - 1], SourceOf(s[k]), Origin(s[k], a))
           ELSE At(Runs(m, s)[k - 1], r, a)
<1>1. k - 1 \in 0 .. Len(s) /\ s[k] \in LegalDescs /\ Len(s) \in Nat
  OBVIOUS
<1>2. Runs(m, s)[k - 1] \in Holders
  BY <1>1, RunsHold
<1>3. Runs(m, s)[k] = Copy(Runs(m, s)[k - 1], s[k])
  BY <1>1, RunsAre
<1>4. QED
  BY <1>1, <1>2, <1>3, CopyAt

(* A word nobody writes stays as it is.                                    *)
LEMMA Stays ==
  ASSUME NEW m \in Holders, NEW s \in Seq(LegalDescs), NEW i \in 0 .. Len(s), NEW k \in i .. Len(s),
         NEW r \in Regions, NEW a \in 0 .. Size(r) - 1,
         \A j \in i + 1 .. k : ~Writes(s[j], r, a)
  PROVE  At(Runs(m, s)[k], r, a) = At(Runs(m, s)[i], r, a)
<1> DEFINE S == {n \in i .. k : At(Runs(m, s)[n], r, a) # At(Runs(m, s)[i], r, a)}
<1>0. Len(s) \in Nat /\ i \in Nat /\ k \in Nat /\ i <= k /\ k <= Len(s)
  OBVIOUS
<1>1. S = {}
  <2> SUFFICES ASSUME S # {} PROVE FALSE
    OBVIOUS
  <2>1. S \in SUBSET Nat
    BY <1>0
  <2>2. PICK c \in S : \A n \in S : c <= n
    <3> HIDE DEF S
    <3>1. QED
      BY <2>1, Smallest
  <2>3. c \in i .. k /\ c # i /\ At(Runs(m, s)[c], r, a) # At(Runs(m, s)[i], r, a)
    BY <2>2
  <2>4. c \in i + 1 .. k /\ c \in 1 .. Len(s) /\ c - 1 \in i .. k /\ c - 1 \notin S
    BY <1>0, <2>2, <2>3
  <2>5. At(Runs(m, s)[c - 1], r, a) = At(Runs(m, s)[i], r, a)
    BY <2>4
  <2>6. At(Runs(m, s)[c], r, a) = At(Runs(m, s)[c - 1], r, a)
    BY <2>4, RunsNext
  <2>7. QED
    BY <2>3, <2>5, <2>6
<1>2. k \in i .. k /\ k \notin S
  BY <1>0, <1>1
<1>3. QED
  BY <1>2

(* Descriptor k moves, word by word, what its source holds in the end, or  *)
(* held in the beginning, when others leave source and destination alone.  *)
LEMMA Moves ==
  ASSUME NEW m \in Holders, NEW s \in Seq(LegalDescs), NEW k \in 1 .. Len(s), NEW a \in Into(s[k]),
         \A j \in k + 1 .. Len(s) : ~Writes(s[j], DestinationOf(s[k]), a)
  PROVE  LET b == Origin(s[k], a)  r == SourceOf(s[k])  final == Runs(m, s)[Len(s)]
         IN  /\ (\A j \in 1 .. k - 1 : ~Writes(s[j], r, b)) =>
                  At(final, DestinationOf(s[k]), a) = At(m, r, b)
             /\ (\A j \in k + 1 .. Len(s) : ~Writes(s[j], r, b)) =>
                  At(final, DestinationOf(s[k]), a) = At(final, r, b)
<1> DEFINE d == s[k]
           b == Origin(d, a)
           n == Len(s)
<1>1. n \in Nat /\ d \in LegalDescs /\ k \in 0 .. n /\ k - 1 \in 0 .. n /\ 0 \in 0 .. n /\ n \in k .. n
  OBVIOUS
<1>2. /\ SourceOf(d) \in Regions /\ DestinationOf(d) \in Regions /\ SourceOf(d) # DestinationOf(d)
      /\ a \in 0 .. Size(DestinationOf(d)) - 1 /\ b \in 0 .. Size(SourceOf(d)) - 1
  BY <1>1, Ranges
<1>3. At(Runs(m, s)[n], DestinationOf(d), a) = At(Runs(m, s)[k], DestinationOf(d), a)
  <2> HIDE DEF b, n
  <2>1. QED
    BY <1>1, <1>2, Stays DEF n
<1>4. At(Runs(m, s)[k], DestinationOf(d), a) = At(Runs(m, s)[k - 1], SourceOf(d), b)
  BY <1>2, RunsNext DEF Writes
<1>5. ASSUME \A j \in 1 .. k - 1 : ~Writes(s[j], SourceOf(d), b)
      PROVE  At(Runs(m, s)[n], DestinationOf(d), a) = At(m, SourceOf(d), b)
  <2>1. Runs(m, s)[0] = m
    BY <1>1, RunsAre
  <2>2. k - 1 \in 0 .. Len(s) /\ 0 + 1 = 1
    BY <1>1
  <2> HIDE DEF b, d
  <2>3. At(Runs(m, s)[k - 1], SourceOf(d), b) = At(Runs(m, s)[0], SourceOf(d), b)
    BY <1>1, <1>2, <1>5, <2>2, Stays
  <2>4. QED
    BY <1>3, <1>4, <2>1, <2>3
<1>6. ASSUME \A j \in k + 1 .. n : ~Writes(s[j], SourceOf(d), b)
      PROVE  At(Runs(m, s)[n], DestinationOf(d), a) = At(Runs(m, s)[n], SourceOf(d), b)
  <2>1. ~Writes(s[k], SourceOf(d), b)
    BY <1>2 DEF Writes
  <2>2. \A j \in (k - 1) + 1 .. n : ~Writes(s[j], SourceOf(d), b)
    BY <1>1, <1>6, <2>1
  <2>3. n \in k - 1 .. Len(s)
    BY <1>1
  <2> HIDE DEF b, d, n
  <2>4. At(Runs(m, s)[n], SourceOf(d), b) = At(Runs(m, s)[k - 1], SourceOf(d), b)
    BY <1>1, <1>2, <2>2, <2>3, Stays DEF n
  <2>5. QED
    BY <1>3, <1>4, <2>4
<1>7. QED
  BY <1>5, <1>6
-----------------------------------------------------------------------------
(* The software model as a sequence of copies.                             *)

(* The first descriptors give the same memories whatever follows them.     *)
LEMMA RunsSame ==
  ASSUME NEW m, NEW s, NEW t, Len(s) \in Nat, Len(t) \in Nat, Len(s) <= Len(t),
         \A i \in 1 .. Len(s) : t[i] = s[i]
  PROVE  Runs(m, t)[Len(s)] = Runs(m, s)[Len(s)]
<1> DEFINE S == {n \in 0 .. Len(s) : Runs(m, t)[n] # Runs(m, s)[n]}
<1>1. /\ Runs(m, s)[0] = m /\ Runs(m, t)[0] = m
      /\ \A k \in 1 .. Len(s) : Runs(m, s)[k] = Copy(Runs(m, s)[k - 1], s[k])
      /\ \A k \in 1 .. Len(t) : Runs(m, t)[k] = Copy(Runs(m, t)[k - 1], t[k])
  BY RunsAre
<1>2. S = {}
  <2> SUFFICES ASSUME S # {} PROVE FALSE
    OBVIOUS
  <2>1. S \in SUBSET Nat
    OBVIOUS
  <2>2. PICK c \in S : \A n \in S : c <= n
    <3> HIDE DEF S
    <3>1. QED
      BY <2>1, Smallest
  <2>3. c \in 0 .. Len(s) /\ Runs(m, t)[c] # Runs(m, s)[c] /\ c # 0
    BY <1>1, <2>2
  <2>4. c \in 1 .. Len(s) /\ c \in 1 .. Len(t) /\ c - 1 \in 0 .. Len(s) /\ c - 1 \notin S
    BY <2>2, <2>3
  <2>5. Runs(m, t)[c - 1] = Runs(m, s)[c - 1] /\ t[c] = s[c]
    BY <2>4
  <2>6. Runs(m, t)[c] = Runs(m, s)[c]
    BY <1>1, <2>4, <2>5
  <2>7. QED
    BY <2>3, <2>6
<1>3. Len(s) \in 0 .. Len(s) /\ Len(s) \notin S
  BY <1>2
<1>4. QED
  BY <1>3

(* Descriptors whose copy has been noted.                                  *)
Completed == IF pc = "move" THEN Count - 1 ELSE Count

AxiReach  == Beats(desc) # 0 => (AxiInstruction(desc).addr \div 4) + Beats(desc) <= SMEM_WORDS
SramReach == Beats(desc) # 0 => (SramInstruction(desc).addr \div 4) + Beats(desc) <= BRAM_SIZE

(* copied is what the fetched descriptors make of the memories the loop    *)
(* started with, and a half that is done stayed inside its memory.         *)
ExecInv ==
  /\ initial \in Mems
  /\ pc = "setup" => descs_fetched = <<>>
  /\ pc # "raised" =>
       /\ copied = Runs(initial, descs_fetched)[Completed]
       /\ \A k \in 1 .. Completed : Legal(descs_fetched[k])
  /\ pc = "move" =>
       /\ Count > 0 /\ desc = descs_fetched[Count]
       /\ dm_axi = <<>> => AxiReach
       /\ dm_sram = <<>> => SramReach

ExecutedInv == PostedInv /\ ExecInv

(* Both halves inside their memories: a legal descriptor.                  *)
LEMMA BothReach ==
  ASSUME AxiReach, SramReach
  PROVE  Legal(desc)
<1>1. CASE ToSram(desc)
  BY <1>1 DEF AxiReach, SramReach, Legal, Size, SourceOf, DestinationOf, AxiInstruction, SramInstruction
<1>2. CASE ~ToSram(desc)
  BY <1>2 DEF AxiReach, SramReach, Legal, Size, SourceOf, DestinationOf, AxiInstruction, SramInstruction
<1>3. QED
  BY <1>1, <1>2

(* A half that does not raise stays inside its memory.                     *)
LEMMA AxiReaches ==
  ASSUME DrainInv, AxiMove, pc' # "raised"
  PROVE  AxiReach
<1>1. pc = "move" /\ dm_axi # <<>> /\ desc \in Descriptors /\ (BothWait \/ OneWaits \/ MoveIdle)
  BY DEF AxiMove, AxiTurn, DrainInv, InPlace, Moving
<1>2. dm_axi = <<AxiInstruction(desc)>>
  BY <1>1 DEF BothWait, OneWaits, MoveIdle
<1>3. Head(dm_axi) = AxiInstruction(desc) /\ AxiInstruction(desc).len = Beats(desc) /\ Beats(desc) \in Nat
      /\ AxiInstruction(desc).addr \div 4 \in Nat
  BY <1>1, <1>2, Fields, WordIndex
<1>4. ~(Head(dm_axi).len > 0 /\ (AxiFault(Head(dm_axi).addr, Head(dm_axi).len) \/ MidRefuses(Head(dm_axi))))
  BY DEF AxiMove, Raise
<1>5. Beats(desc) # 0 => ~AxiFault(AxiInstruction(desc).addr, Beats(desc))
  BY <1>3, <1>4
<1>6. QED
  BY <1>3, <1>5, GoldenAssumption DEF AxiReach, AxiFault

(* The same for the half on SRAM.                                          *)
LEMMA SramReaches ==
  ASSUME DrainInv, SramMove, pc' # "raised"
  PROVE  SramReach
<1>1. pc = "move" /\ dm_sram # <<>> /\ desc \in Descriptors /\ (BothWait \/ OneWaits \/ MoveIdle)
  BY DEF SramMove, SramTurn, DrainInv, InPlace, Moving
<1>2. dm_sram = <<SramInstruction(desc)>>
  BY <1>1 DEF BothWait, OneWaits, MoveIdle
<1>3. Head(dm_sram) = SramInstruction(desc) /\ SramInstruction(desc).len = Beats(desc) /\ Beats(desc) \in Nat
      /\ SramInstruction(desc).addr \div 4 \in Nat
  BY <1>1, <1>2, Fields, WordIndex
<1>4. ~(Head(dm_sram).len > 0
        /\ ((Head(dm_sram).addr \div 4) + Head(dm_sram).len > BRAM_SIZE \/ MidRefuses(Head(dm_sram))))
  BY DEF SramMove, Raise
<1>5. Beats(desc) # 0 => ~((SramInstruction(desc).addr \div 4) + Beats(desc) > BRAM_SIZE)
  BY <1>3, <1>4
<1>6. QED
  BY <1>3, <1>5, GoldenAssumption DEF SramReach

(* Steps that fetch and copy nothing.                                      *)
LEMMA ExecKeeps ==
  ASSUME ExecutedInv, UNCHANGED <<initial, descs_fetched, copied>>,
         pc' = "setup" => pc = "setup",
         pc' # "raised" => pc # "raised" /\ (pc' = "move" <=> pc = "move"),
         pc' = "move" => /\ desc' = desc
                         /\ dm_axi' = <<>> => AxiReach
                         /\ dm_sram' = <<>> => SramReach
  PROVE  ExecInv'
<1>1. Count' = Count
  BY DEF Count
<1>2. initial' \in Mems /\ (pc' = "setup" => descs_fetched' = <<>>)
  BY DEF ExecutedInv, ExecInv
<1>3. CASE pc' # "raised"
  <2>1. Completed' = Completed
    BY <1>1, <1>3 DEF Completed
  <2>2. /\ copied' = Runs(initial', descs_fetched')[Completed']
        /\ \A k \in 1 .. Completed' : Legal(descs_fetched'[k])
    BY <1>3, <2>1 DEF ExecutedInv, ExecInv
  <2>3. CASE pc' = "move"
    <3>1. desc' = desc /\ pc = "move" /\ Count' > 0 /\ desc' = descs_fetched'[Count']
      BY <1>1, <1>3, <2>3 DEF ExecutedInv, ExecInv
    <3>2. AxiReach' = AxiReach /\ SramReach' = SramReach
      BY <3>1 DEF AxiReach, SramReach
    <3>3. QED
      BY <1>2, <1>3, <2>2, <2>3, <3>1, <3>2 DEF ExecInv
  <2>4. CASE pc' # "move"
    BY <1>2, <2>2, <2>4 DEF ExecInv
  <2>5. QED
    BY <2>3, <2>4
<1>4. CASE pc' = "raised"
  BY <1>2, <1>4 DEF ExecInv
<1>5. QED
  BY <1>3, <1>4

(* The words that come back are a descriptor, and the next one fetched.    *)
LEMMA ExecDecodes ==
  ASSUME ExecutedInv, Decode
  PROVE  ExecInv'
<1>1. CASE pc' = "raised"
  <2>1. UNCHANGED <<initial, descs_fetched, copied>>
    <3>1. Raise("fifo") \/ pc' = "move"
      BY DEF Decode
    <3>2. QED
      BY <1>1, <3>1 DEF Raise, results, fetched
  <2>2. QED
    BY <1>1, <2>1, ExecKeeps
<1>2. CASE pc' # "raised"
  <2> DEFINE d == Head(df_out)
  <2>1. /\ pc = "fetch" /\ pc' = "move" /\ desc' = d /\ descs_fetched' = Append(descs_fetched, d)
        /\ dm_axi' = Append(dm_axi, AxiInstruction(d)) /\ dm_sram' = Append(dm_sram, SramInstruction(d))
        /\ UNCHANGED <<initial, copied>>
    BY <1>2 DEF Decode, Raise
  <2>2. dm_axi = <<>> /\ dm_sram = <<>> /\ d \in Descriptors
    <3>1. MoveIdle /\ Fetching
      BY <2>1 DEF ExecutedInv, PostedInv, GoldenInv, DrainInv, InPlace
    <3>2. df_out # <<>>
      BY DEF Decode
    <3>3. PICK e \in Descriptors : df_out = <<e>>
      BY <3>1, <3>2 DEF Fetching
    <3>4. QED
      BY <3>1, <3>3 DEF MoveIdle
  <2>3. descs_fetched \in Seq(Descriptors) /\ Count \in Nat
    BY DEF ExecutedInv, PostedInv, GoldenInv, RingInv, Count
  <2> HIDE DEF d
  <2>4. /\ Len(descs_fetched') = Count + 1 /\ descs_fetched'[Count + 1] = d
        /\ \A i \in 1 .. Count : descs_fetched'[i] = descs_fetched[i]
    BY <2>1, <2>2, <2>3 DEF Count
  <2>5. Count' = Count + 1 /\ Completed' = Count /\ Completed = Count
    BY <2>1, <2>3, <2>4 DEF Count, Completed
  <2>6. Runs(initial, descs_fetched')[Count] = Runs(initial, descs_fetched)[Count]
    <3>1. Len(descs_fetched) = Count /\ Len(descs_fetched') \in Nat /\ Count <= Len(descs_fetched')
      BY <2>3, <2>4 DEF Count
    <3>2. QED
      BY <2>3, <2>4, <3>1, RunsSame
  <2>7. initial \in Mems /\ copied = Runs(initial, descs_fetched)[Count]
        /\ \A k \in 1 .. Count : Legal(descs_fetched[k])
    BY <2>1, <2>5 DEF ExecutedInv, ExecInv
  <2>8. dm_axi' # <<>> /\ dm_sram' # <<>>
    BY <2>1, <2>2
  <2>9. initial' \in Mems /\ copied' = Runs(initial', descs_fetched')[Completed']
    BY <2>1, <2>5, <2>6, <2>7
  <2>10. \A k \in 1 .. Completed' : Legal(descs_fetched'[k])
    BY <2>4, <2>5, <2>7
  <2>11. Count' > 0 /\ desc' = descs_fetched'[Count']
    BY <2>1, <2>3, <2>4, <2>5
  <2>12. QED
    BY <2>1, <2>8, <2>9, <2>10, <2>11 DEF ExecInv
<1>3. QED
  BY <1>1, <1>2

(* A descriptor that is done has been copied.                              *)
LEMMA ExecCompletes ==
  ASSUME ExecutedInv, Complete
  PROVE  ExecInv'
<1>1. CASE pc' = "raised"
  <2>1. UNCHANGED <<initial, descs_fetched, copied>>
    <3>1. Raise("ring") \/ pc' = "loop"
      BY DEF Complete
    <3>2. QED
      BY <1>1, <3>1 DEF Raise, results, fetched
  <2>2. QED
    BY <1>1, <2>1, ExecKeeps
<1>2. CASE pc' # "raised"
  <2>1. /\ pc = "move" /\ pc' = "loop" /\ dm_axi = <<>> /\ dm_sram = <<>>
        /\ copied' = Copy(copied, desc) /\ UNCHANGED <<initial, descs_fetched>>
    BY <1>2 DEF Complete, Raise
  <2>2. descs_fetched \in Seq(Descriptors) /\ Count \in Nat /\ Len(descs_fetched) = Count
    BY DEF ExecutedInv, PostedInv, GoldenInv, RingInv, Count
  <2>3. /\ initial \in Mems /\ copied = Runs(initial, descs_fetched)[Count - 1]
        /\ \A k \in 1 .. Count - 1 : Legal(descs_fetched[k])
        /\ Count > 0 /\ desc = descs_fetched[Count] /\ AxiReach /\ SramReach
    BY <2>1 DEF ExecutedInv, ExecInv, Completed
  <2>4. Completed' = Count
    BY <2>1 DEF Completed, Count
  <2>5. Runs(initial, descs_fetched)[Count] = Copy(Runs(initial, descs_fetched)[Count - 1], descs_fetched[Count])
    <3>1. Count \in 1 .. Len(descs_fetched)
      BY <2>2, <2>3
    <3>2. QED
      BY <2>2, <3>1, RunsAre
  <2>6. copied' = Runs(initial', descs_fetched')[Completed']
    BY <2>1, <2>3, <2>4, <2>5
  <2>7. Legal(descs_fetched[Count])
    BY <2>3, BothReach
  <2>8. \A k \in 1 .. Completed' : Legal(descs_fetched'[k])
    <3> SUFFICES ASSUME NEW k \in 1 .. Count PROVE Legal(descs_fetched[k])
      BY <2>1, <2>4
    <3>1. k \in 1 .. Count - 1 \/ k = Count
      BY <2>2
    <3>2. QED
      BY <2>3, <2>7, <3>1
  <2>9. QED
    BY <2>1, <2>3, <2>6, <2>8 DEF ExecInv
<1>3. QED
  BY <1>1, <1>2

(* Every step keeps that.                                                  *)
LEMMA ExecStep == ExecutedInv /\ [Next]_goldenVars => ExecutedInv'
<1> SUFFICES ASSUME ExecutedInv, [Next]_goldenVars PROVE ExecInv'
  BY PostedStep DEF ExecutedInv
<1>0. DrainInv
  BY DEF ExecutedInv, PostedInv, GoldenInv
<1>1. ASSUME NEW where, Raise(where) PROVE ExecInv'
  <2>1. UNCHANGED <<initial, descs_fetched, copied>> /\ pc' = "raised"
    BY <1>1 DEF Raise, results, fetched
  <2>2. QED
    BY <2>1, ExecKeeps
<1>2. CASE EndOfRows
  <2>1. /\ pc = "setup" /\ pc' \in {"loop", "done"} /\ descs_fetched' = descs_fetched
        /\ initial' = Memories /\ copied' = Memories
    BY <1>2 DEF EndOfRows
  <2>2. descs_fetched = <<>> /\ Len(descs_fetched') = 0
    BY <2>1 DEF ExecutedInv, ExecInv
  <2>3. Completed' = 0
    BY <2>1, <2>2 DEF Completed, Count
  <2>4. Runs(initial', descs_fetched')[0] = initial'
    BY <2>2, RunsAre
  <2>5. Memories \in Mems
    BY <1>0 DEF Mems, Memories, DrainInv, Stored
  <2>6. QED
    BY <2>1, <2>2, <2>3, <2>4, <2>5 DEF ExecInv
<1>3. CASE Setup /\ ~EndOfRows /\ ~(\E where : Raise(where))
  <2>1. pc = "setup" /\ UNCHANGED <<pc, initial, descs_fetched, copied>>
    BY <1>3 DEF Setup, RowSmem, RowSram, RowCsr, RowDesc, RowEnable, RowUnknown, Row, results, fetched
  <2>2. QED
    BY <2>1, ExecKeeps
<1>4. CASE (Iterate \/ DescriptorFetch) /\ ~(\E where : Raise(where))
  <2>1. /\ pc \in {"loop", "fetch"} /\ pc' \in {"loop", "fetch", "done"}
        /\ UNCHANGED <<initial, descs_fetched, copied>>
    BY <1>4 DEF Iterate, DescriptorFetch, results, fetched
  <2>2. QED
    BY <2>1, ExecKeeps
<1>5. CASE AxiMove
  <2>1. CASE \E where : Raise(where)
    BY <1>1, <2>1
  <2>2. CASE ~\E where : Raise(where)
    <3>1. pc = "move" /\ dm_sram' = dm_sram /\ UNCHANGED <<pc, desc, initial, descs_fetched, copied>>
      BY <1>5, <2>2 DEF AxiMove, results, fetched
    <3>2. pc' # "raised"
      BY <3>1
    <3>3. AxiReach
      BY <1>0, <1>5, <3>2, AxiReaches
    <3>4. dm_sram' = <<>> => SramReach
      BY <3>1 DEF ExecutedInv, ExecInv
    <3>5. QED
      BY <3>1, <3>3, <3>4, ExecKeeps
  <2>3. QED
    BY <2>1, <2>2
<1>6. CASE SramMove
  <2>1. CASE \E where : Raise(where)
    BY <1>1, <2>1
  <2>2. CASE ~\E where : Raise(where)
    <3>1. pc = "move" /\ dm_axi' = dm_axi /\ UNCHANGED <<pc, desc, initial, descs_fetched, copied>>
      BY <1>6, <2>2 DEF SramMove, results, fetched
    <3>2. pc' # "raised"
      BY <3>1
    <3>3. SramReach
      BY <1>0, <1>6, <3>2, SramReaches
    <3>4. dm_axi' = <<>> => AxiReach
      BY <3>1 DEF ExecutedInv, ExecInv
    <3>5. QED
      BY <3>1, <3>3, <3>4, ExecKeeps
  <2>3. QED
    BY <2>1, <2>2
<1>7. CASE UNCHANGED goldenVars
  <2>1. UNCHANGED <<pc, desc, dm_axi, dm_sram, initial, descs_fetched, copied>>
    BY <1>7 DEF goldenVars, queues, results, fetched
  <2>2. pc' = "move" => (dm_axi' = <<>> => AxiReach) /\ (dm_sram' = <<>> => SramReach)
    BY <2>1 DEF ExecutedInv, ExecInv
  <2>3. QED
    BY <2>1, <2>2, ExecKeeps
<1>8. QED
  BY <1>1, <1>2, <1>3, <1>4, <1>5, <1>6, <1>7, ExecDecodes, ExecCompletes DEF Next, EventLoop, Finished

(* Nothing is fetched in the beginning.                                    *)
LEMMA ExecInit == Init => ExecutedInv
<1> SUFFICES ASSUME Init PROVE ExecutedInv
  OBVIOUS
<1>1. PostedInv
  <2>1. FetchInv
    BY DEF Init, FetchInv
  <2>2. QED
    BY <2>1, RingInit DEF PostedInv
<1>2. pc = "setup" /\ descs_fetched = <<>> /\ copied = initial /\ initial = Memories
  BY DEF Init
<1>3. Count = 0 /\ Completed = 0 /\ Len(descs_fetched) = 0
  BY <1>2 DEF Completed, Count
<1>4. Runs(initial, descs_fetched)[0] = initial
  BY <1>3, RunsAre
<1>5. initial \in Mems
  BY <1>1, <1>2 DEF Mems, Memories, PostedInv, GoldenInv, DrainInv, Stored
<1>6. QED
  BY <1>1, <1>2, <1>3, <1>4, <1>5 DEF ExecutedInv, ExecInv
-----------------------------------------------------------------------------
(* What a scenario leaves behind when its event loop has ended: the posted *)
(* descriptors, all legal, executed on the memories it started with.       *)
LEMMA GoldenEnds ==
  ASSUME ExecutedInv, CopyInv, RingUntouched, pc = "done", Csr!is_enabled(regs)
  PROVE  /\ posted \in Seq(Posts) /\ regs.TAIL = Len(posted)
         /\ PostedDescs \in Seq(LegalDescs) /\ Len(PostedDescs) = Len(posted)
         /\ \A k \in 1 .. Len(posted) : PostedDescs[k] = posted[k].desc
         /\ initial \in Mems
         /\ Memories = Runs(initial, PostedDescs)[Len(posted)]
<1>1. descs_fetched = PostedDescs /\ Ordered
  BY FetchedFits DEF ExecutedInv, FetchedAsPosted, PostedInv, GoldenInv, RingInv, RingUntouched
<1>2. posted \in Seq(Posts) /\ descs_fetched \in Seq(Descriptors) /\ Len(posted) \in Nat
  BY DEF ExecutedInv, PostedInv, GoldenInv, RingInv
<1>3. PostedDescs = [k \in 1 .. Len(posted) |-> posted[k].desc]
  BY <1>2 DEF PostedDescs
<1>4. Len(PostedDescs) = Len(posted) /\ \A k \in 1 .. Len(posted) : PostedDescs[k] = posted[k].desc
  BY <1>2, <1>3
<1>5. Completed = Len(PostedDescs)
  BY <1>1 DEF Completed, Count
<1>6. /\ initial \in Mems /\ copied = Runs(initial, PostedDescs)[Len(posted)]
      /\ \A k \in 1 .. Len(posted) : Legal(PostedDescs[k])
  BY <1>1, <1>4, <1>5 DEF ExecutedInv, ExecInv
<1>7. PostedDescs \in Seq(LegalDescs)
  <2>1. \A k \in 1 .. Len(PostedDescs) : PostedDescs[k] \in LegalDescs
    BY <1>1, <1>2, <1>4, <1>6 DEF LegalDescs
  <2>2. PostedDescs \in Seq(Descriptors)
    BY <1>1, <1>2
  <2>3. QED
    BY <2>1, <2>2
<1>8. Memories = copied
  BY DEF CopyInv
<1>9. QED
  BY <1>1, <1>2, <1>4, <1>6, <1>7, <1>8 DEF Ordered

(* The place of a word that a posted descriptor reads or writes.           *)
LEMMA Places ==
  ASSUME NEW k, NEW r, NEW a
  PROVE  /\ <<r, a>> \in Destination(k) <=> Writes(posted[k].desc, r, a)
         /\ <<r, a>> \in Source(k) <=> r = SourceOf(posted[k].desc) /\ a \in OutOf(posted[k].desc)
<1>1. Destination(k) = {DestinationOf(posted[k].desc)} \X Into(posted[k].desc)
  BY DEF Destination, Place, Into
<1>2. Source(k) = {SourceOf(posted[k].desc)} \X OutOf(posted[k].desc)
  BY DEF Source, Place, OutOf
<1>3. QED
  BY <1>1, <1>2 DEF Writes
-----------------------------------------------------------------------------
(* The host tools run after the model and leave its state alone.           *)
ModelInv == ExecutedInv /\ CopyInv /\ ReplayInv

(* A step of the tools is a step of the model or none of its.              *)
LEMMA ToolsWatch == [vNext]_verifyVars => [Next]_goldenVars
<1>1. RunGolden => Next
  BY DEF RunGolden, Next
<1>2. Host \/ Display \/ Stop => UNCHANGED goldenVars
  BY DEF Host, Display, Stop, Start, ClearMemories, SendLine, WalkRing, StimSent, RunDma,
         VerifyTransfer, Report, VerifyCrcs, DryRun, verifyVars
<1>3. QED
  BY <1>1, <1>2 DEF vNext, verifyVars

(* So what holds of the model alone holds of it among the tools.           *)
LEMMA ModelStep == ModelInv /\ [vNext]_verifyVars => ModelInv'
<1>1. ModelInv /\ [vNext]_verifyVars => ExecutedInv'
  BY ToolsWatch, ExecStep DEF ModelInv
<1>2. ModelInv /\ [vNext]_verifyVars => CopyInv'
  BY ToolsWatch, CopyStep DEF ModelInv, ExecutedInv, PostedInv, GoldenInv
<1>3. ModelInv /\ [vNext]_verifyVars => ReplayInv'
  BY ToolsWatch, ReplayStep DEF ModelInv, ExecutedInv, PostedInv, BoardInv
<1>4. QED
  BY <1>1, <1>2, <1>3 DEF ModelInv

(* It holds before anything runs.                                          *)
LEMMA ModelInit == vInit => ModelInv
<1>1. Init => CopyInv
  BY DEF Init, CopyInv
<1>2. QED
  BY <1>1, ExecInit, ReplayInit DEF vInit, ModelInv, BoardInv

(* After the model, nothing of it changes.                                 *)
LEMMA ModelStands ==
  ASSUME [vNext]_verifyVars, phase # "golden"
  PROVE  UNCHANGED goldenVars
BY DEF vNext, Host, Display, Stop, RunGolden, Start, ClearMemories, SendLine, WalkRing, StimSent, RunDma,
       VerifyTransfer, Report, VerifyCrcs, DryRun, verifyVars
-----------------------------------------------------------------------------
(* The dry run.                                                            *)
DryInv ==
  tool = "dry_run" =>
    /\ phase \in {"verify", "end"}
    /\ phase = "end" /\ pc = "done" /\ (\A k \in DOMAIN posted : SelfCheck(posted[k].desc)) =>
         verdict = "pass"

(* The verdict of a dry run is given once, on the model's memories.        *)
LEMMA DryStep == DryInv /\ [vNext]_verifyVars => DryInv'
<1> SUFFICES ASSUME DryInv, [vNext]_verifyVars, tool' = "dry_run" PROVE DryInv'
  BY DEF DryInv
<1>1. CASE Start
  <2>1. phase' = "verify"
    BY <1>1 DEF Start
  <2>2. QED
    BY <2>1 DEF DryInv
<1>2. CASE tool = "dry_run"
  <2>1. phase \in {"verify", "end"}
    BY <1>2 DEF DryInv
  <2>2. UNCHANGED goldenVars
    BY <2>1, ModelStands
  <2>3. UNCHANGED <<pc, posted, initial, sram, sysmem>>
    BY <2>2 DEF goldenVars, memories, results
  <2>4. (\A k \in DOMAIN posted : SelfCheck(posted[k].desc))' = (\A k \in DOMAIN posted : SelfCheck(posted[k].desc))
    BY <2>3 DEF SelfCheck, Agree
  <2>5. CASE DryRun
    BY <2>3, <2>4, <2>5 DEF DryRun, DryInv
  <2>6. CASE ~DryRun
    <3>1. UNCHANGED <<phase, verdict>>
      BY <1>2, <2>1, <2>6 DEF vNext, Host, Display, Stop, RunGolden, Start, ClearMemories, SendLine, WalkRing,
             StimSent, RunDma, VerifyTransfer, Report, VerifyCrcs, verifyVars, hostVars
    <3>2. QED
      BY <1>2, <2>1, <2>3, <2>4, <3>1 DEF DryInv
  <2>7. QED
    BY <2>5, <2>6
<1>3. CASE ~Start /\ tool # "dry_run"
  <2>1. tool' = tool
    BY <1>3 DEF vNext, Host, Display, Stop, RunGolden, ClearMemories, SendLine, WalkRing, StimSent, RunDma,
           VerifyTransfer, Report, VerifyCrcs, DryRun, verifyVars, hostVars
  <2>2. QED
    BY <1>3, <2>1
<1>4. QED
  BY <1>1, <1>2, <1>3

(* Every check of the dry run succeeds when no transfer is overwritten     *)
(* and only downloads read what another transfer has written.              *)
LEMMA DryChecks ==
  ASSUME ModelInv, RingUntouched, pc = "done", Csr!is_enabled(regs),
         \A k \in DOMAIN posted : ~Overwritten(k) /\ (Chained(k) => ~ToSram(posted[k].desc)),
         NEW k \in DOMAIN posted
  PROVE  SelfCheck(posted[k].desc)
<1> DEFINE s == PostedDescs
           d == posted[k].desc
           n == Len(posted)
<1>1. /\ posted \in Seq(Posts) /\ s \in Seq(LegalDescs) /\ Len(s) = n
      /\ \A j \in 1 .. n : s[j] = posted[j].desc
      /\ initial \in Holders /\ Memories = Runs(initial, s)[n]
  BY GoldenEnds DEF ModelInv, Holders
<1>2. n \in Nat /\ k \in 1 .. n /\ s[k] = d /\ DOMAIN posted = 1 .. n /\ d \in LegalDescs
  BY <1>1
<1>3. ASSUME NEW a \in Into(d)
      PROVE  /\ ToSram(d) => At(Memories, DestinationOf(d), a) = At(initial, SourceOf(d), Origin(d, a))
             /\ At(Memories, DestinationOf(d), a) = At(Memories, SourceOf(d), Origin(d, a))
  <2> DEFINE b == Origin(d, a)
  <2>1. b \in OutOf(d)
    BY <1>2, Ranges
  <2>2. <<DestinationOf(d), a>> \in Destination(k) /\ <<SourceOf(d), b>> \in Source(k)
    BY <2>1, Places DEF Writes
  <2>3. \A j \in k + 1 .. n : ~Writes(s[j], DestinationOf(d), a) /\ ~Writes(s[j], SourceOf(d), b)
    <3> SUFFICES ASSUME NEW j \in k + 1 .. n
                 PROVE  ~Writes(s[j], DestinationOf(d), a) /\ ~Writes(s[j], SourceOf(d), b)
      OBVIOUS
    <3>1. j \in 1 .. n /\ j \in DOMAIN posted /\ j > k
      BY <1>2
    <3>2. Destination(j) \cap (Source(k) \cup Destination(k)) = {}
      BY <3>1 DEF Overwritten
    <3>3. s[j] = posted[j].desc
      BY <1>1, <3>1
    <3> HIDE DEF b, d, s
    <3>4. QED
      BY <2>2, <3>2, <3>3, Places
  <2>4. ToSram(d) => \A j \in 1 .. k - 1 : ~Writes(s[j], SourceOf(d), b)
    <3> SUFFICES ASSUME ToSram(d), NEW j \in 1 .. k - 1
                 PROVE  ~Writes(s[j], SourceOf(d), b)
      OBVIOUS
    <3>1. j \in 1 .. n /\ j \in DOMAIN posted /\ j < k
      BY <1>2
    <3>2. Destination(j) \cap Source(k) = {}
      BY <3>1 DEF Chained
    <3>3. s[j] = posted[j].desc
      BY <1>1, <3>1
    <3> HIDE DEF b, d, s
    <3>4. QED
      BY <2>2, <3>2, <3>3, Places
  <2> HIDE DEF s
  <2>5. k \in 1 .. Len(s) /\ a \in Into(s[k])
    BY <1>1, <1>2
  <2>6. \A j \in k + 1 .. Len(s) : ~Writes(s[j], DestinationOf(s[k]), a)
    BY <1>1, <1>2, <2>3
  <2>7. /\ (\A j \in 1 .. k - 1 : ~Writes(s[j], SourceOf(s[k]), Origin(s[k], a))) =>
             At(Runs(initial, s)[Len(s)], DestinationOf(s[k]), a) = At(initial, SourceOf(s[k]), Origin(s[k], a))
        /\ (\A j \in k + 1 .. Len(s) : ~Writes(s[j], SourceOf(s[k]), Origin(s[k], a))) =>
             At(Runs(initial, s)[Len(s)], DestinationOf(s[k]), a)
               = At(Runs(initial, s)[Len(s)], SourceOf(s[k]), Origin(s[k], a))
    BY <1>1, <2>5, <2>6, Moves
  <2> HIDE DEF d, n
  <2>8. QED
    BY <1>1, <1>2, <2>3, <2>4, <2>7
<1> HIDE DEF d, s, n
<1>4. ASSUME NEW j \in 0 .. Beats(d) - 1
      PROVE  /\ (Dst(d) \div 4) + j \in Into(d)
             /\ Origin(d, (Dst(d) \div 4) + j) = (Src(d) \div 4) + j
  <2>1. Beats(d) \in Nat /\ Dst(d) \div 4 \in Nat /\ Src(d) \div 4 \in Nat
    BY <1>2, Ranges
  <2>2. QED
    BY <2>1 DEF Into, Origin
<1>5. CASE ToSram(d)
  <2>1. SourceOf(d) = "smem" /\ DestinationOf(d) = "sram"
    BY <1>5 DEF SourceOf, DestinationOf
  <2>2. \A a \in Into(d) : sram[a] = initial.smem[Origin(d, a)]
    BY <1>3, <1>5, <2>1 DEF At, Memories
  <2>3. SelfCheck(d)
    BY <1>4, <1>5, <2>2 DEF SelfCheck, Agree
  <2>4. QED
    BY <2>3 DEF d
<1>6. CASE ~ToSram(d)
  <2>1. SourceOf(d) = "sram" /\ DestinationOf(d) = "smem"
    BY <1>6 DEF SourceOf, DestinationOf
  <2>2. \A a \in Into(d) : sysmem[a] = sram[Origin(d, a)]
    BY <1>3, <2>1 DEF At, Memories
  <2>3. SelfCheck(d)
    BY <1>4, <1>6, <2>2 DEF SelfCheck, Agree
  <2>4. QED
    BY <2>3 DEF d
<1>7. QED
  BY <1>5, <1>6

(* The dry run of serial_host.py accepts every scenario in which no        *)
(* transfer is overwritten later and only transfers out of SRAM read what  *)
(* another one wrote, as long as only enqueue writes the ring: for all     *)
(* memory sizes, queue depths and scenarios, whatever order they are in.   *)
THEOREM DryRunIsComplete == vSpec => [](RingUntouched => DryRunAccepts)
<1>1. vInit => DryInv
  BY DEF vInit, DryInv
<1>2. ModelInv /\ DryInv => (RingUntouched => DryRunAccepts)
  <2> SUFFICES ASSUME ModelInv, DryInv, RingUntouched,
                      tool = "dry_run", phase = "end", pc = "done", Csr!is_enabled(regs),
                      \A k \in DOMAIN posted : ~Overwritten(k) /\ (Chained(k) => ~ToSram(posted[k].desc))
               PROVE  verdict = "pass"
    BY DEF DryRunAccepts
  <2>1. \A k \in DOMAIN posted : SelfCheck(posted[k].desc)
    BY DryChecks
  <2>2. QED
    BY <2>1 DEF DryInv
<1>3. QED
  BY <1>1, <1>2, ModelInit, ModelStep, DryStep, PTL DEF vSpec
-----------------------------------------------------------------------------
(* The lines of stim.txt when the rows give aligned addresses: memory      *)
(* lines name whole words, and no source starts between two of them.       *)
AlignedRows ==
  \A r \in RowValues :
    /\ r.op = "csr_baseaddr" => r.data % 4 = 0
    /\ r.op = "desc" => Src(r.desc) % 4 = 0

WholeLine(l) ==
  \/ l.op \in {"sysmem_write", "sram_write"} /\ l.addr \in Nat /\ l.addr % 4 = 0
  \/ l.op = "csr_write" /\ l.addr \in {"BASEADDR", "RINGLEN", "TAIL"}

WholeLines == {l \in Lines : WholeLine(l)}

AlignInv ==
  /\ regs.BASEADDR % 4 = 0
  /\ stim \in Seq(WholeLines)
  /\ \A k \in 1 .. Len(posted) : Src(posted[k].desc) % 4 = 0

(* Whole words further on.                                                 *)
LEMMA FourMore ==
  ASSUME NEW b \in Nat, b % 4 = 0, NEW n \in Nat
  PROVE  (b + 4 * n) % 4 = 0 /\ (4 * n) % 4 = 0
BY SMT

(* A descriptor row adds five such lines.                                  *)
LEMMA AlignPosts ==
  ASSUME AlignedRows, GoldenInv, AlignInv, RowDesc, pc' # "raised"
  PROVE  AlignInv'
<1> DEFINE d == Head(rows).desc
           slot == SlotAddress(regs.TAIL)
           tail == (regs.TAIL + 1) % regs.RINGLEN
<1>1. /\ Head(rows) \in RowValues /\ d \in Descriptors /\ Src(d) % 4 = 0 /\ regs \in Registers
      /\ stim \in Seq(WholeLines) /\ posted \in Seq(Posts) /\ regs.BASEADDR % 4 = 0
  BY NextRow, ScenarioAssumption
     DEF GoldenInv, DrainInv, Stored, RingInv, RowDesc, Row, Descriptors, AlignedRows, AlignInv
<1>2. /\ ~EnqueueFails(slot) /\ regs' = Csr!Write(regs, "TAIL", tail)
      /\ stim' = stim \o DescriptorLines(slot, d, regs'.TAIL)
      /\ posted' = Append(posted, [desc |-> d, slot |-> slot \div 4])
  BY DEF RowDesc, Enqueue, Raise
<1>3. slot \in Nat /\ slot % 4 = 0 /\ tail \in Nat
  <2>1. regs.RINGLEN \in Nat /\ regs.RINGLEN > 0 /\ regs.BASEADDR \in Nat /\ regs.TAIL \in Nat
    BY <1>1, <1>2 DEF EnqueueFails, Registers
  <2>2. regs.TAIL % regs.RINGLEN \in Nat /\ tail \in Nat
    BY <2>1
  <2> DEFINE x == 4 * (regs.TAIL % regs.RINGLEN)
             base == regs.BASEADDR
  <2>3. x \in Nat /\ base \in Nat /\ base % 4 = 0 /\ slot = base + 4 * x
    BY <1>1, <2>1, <2>2 DEF SlotAddress, DESCRIPTOR_SIZE_BYTES
  <2> HIDE DEF x, base, slot
  <2>4. slot \in Nat /\ slot % 4 = 0
    BY <2>3, FourMore
  <2>5. QED
    BY <2>2, <2>4
<1>4. regs'.TAIL = tail /\ regs'.BASEADDR = regs.BASEADDR
  BY <1>1, <1>2, <1>3, Written
<1> HIDE DEF d, slot, tail
<1> DEFINE L(i) == Line("sysmem_write", slot + 4 * (i - 1), d[i])
           last == Line("csr_write", "TAIL", tail)
           new == DescriptorLines(slot, d, tail)
<1>5. \A i \in 1 .. 4 : L(i) \in WholeLines
  <2> SUFFICES ASSUME NEW i \in 1 .. 4 PROVE L(i) \in WholeLines
    OBVIOUS
  <2>1. i - 1 \in Nat /\ d[i] \in Nat /\ slot + 4 * (i - 1) \in Nat
    BY <1>1, <1>3 DEF Descriptors, DESC_WORDS
  <2>2. (slot + 4 * (i - 1)) % 4 = 0
    BY <1>3, <2>1, FourMore
  <2> DEFINE addr == slot + 4 * (i - 1)
  <2> HIDE DEF addr
  <2>3. addr \in Nat /\ addr % 4 = 0
    BY <2>1, <2>2 DEF addr
  <2>4. Line("sysmem_write", addr, d[i]) \in WholeLines
    BY <2>1, <2>3 DEF WholeLines, WholeLine, Lines, Line, LineOps, LineAddrs
  <2>5. QED
    BY <2>4 DEF addr
<1>6. last \in WholeLines
  BY <1>3 DEF WholeLines, WholeLine, Lines, Line, LineOps, LineAddrs
<1>7. new \in Seq(WholeLines)
  <2> HIDE DEF L, last
  <2> DEFINE words == [i \in 1 .. 4 |-> L(i)]
             end == <<last>>
  <2>1. words \in Seq(WholeLines) /\ end \in Seq(WholeLines)
    BY <1>5, <1>6
  <2>2. new = words \o end
    BY DEF DescriptorLines, DESC_WORDS, L, last
  <2> HIDE DEF words, end, new
  <2>3. QED
    BY <2>1, <2>2, ConcatProperties
<1>8. stim' \in Seq(WholeLines)
  <2> HIDE DEF new
  <2>1. stim' = stim \o new
    BY <1>2, <1>4 DEF new
  <2>2. QED
    BY <1>1, <1>7, <2>1, ConcatProperties
<1>9. \A k \in 1 .. Len(posted') : Src(posted'[k].desc) % 4 = 0
  <2> SUFFICES ASSUME NEW k \in 1 .. Len(posted') PROVE Src(posted'[k].desc) % 4 = 0
    OBVIOUS
  <2>1. k \in 1 .. Len(posted) \/ k = Len(posted) + 1
    BY <1>1, <1>2
  <2>2. CASE k = Len(posted) + 1
    <3>1. posted'[k].desc = d
      BY <1>1, <1>2, <2>2
    <3>2. QED
      BY <1>1, <3>1
  <2>3. CASE k \in 1 .. Len(posted)
    <3>1. posted'[k] = posted[k]
      BY <1>1, <1>2, <2>3
    <3>2. QED
      BY <2>3, <3>1 DEF AlignInv
  <2>4. QED
    BY <2>1, <2>2, <2>3
<1>10. QED
  BY <1>1, <1>4, <1>8, <1>9 DEF AlignInv

(* Steps that add no line and leave BASEADDR alone.                        *)
LEMMA AlignKeeps ==
  ASSUME AlignInv, stim' = stim, posted' = posted, regs'.BASEADDR = regs.BASEADDR
  PROVE  AlignInv'
BY DEF AlignInv

(* No step adds a line that is not whole, or moves BASEADDR between words. *)
LEMMA AlignStep ==
  ASSUME AlignedRows
  PROVE  GoldenInv /\ AlignInv /\ [Next]_goldenVars => AlignInv'
<1> SUFFICES ASSUME GoldenInv, AlignInv, [Next]_goldenVars PROVE AlignInv'
  OBVIOUS
<1>0. regs \in Registers
  BY DEF GoldenInv, DrainInv, Stored
<1>1. ASSUME NEW where, Raise(where) PROVE AlignInv'
  <2>1. UNCHANGED <<stim, posted, regs>>
    BY <1>1 DEF Raise, results, memories
  <2>2. QED
    BY <2>1, AlignKeeps
<1>2. CASE (RowSmem \/ RowSram) /\ ~\E where : Raise(where)
  <2>1. /\ Head(rows) \in RowValues /\ Head(rows).index \in Nat /\ Head(rows).data \in Nat
    BY <1>2, NextRow, ScenarioAssumption DEF GoldenInv, DrainInv, RowSmem, RowSram, Row
  <2> DEFINE addr == 4 * Head(rows).index
             w == Head(rows).data
  <2>2. addr \in Nat /\ addr % 4 = 0 /\ w \in Nat
    BY <2>1
  <2>3. \E op \in {"sysmem_write", "sram_write"} : stim' = Append(stim, Line(op, addr, w))
    BY <1>2 DEF RowSmem, RowSram
  <2>4. posted' = posted /\ regs' = regs
    BY <1>2 DEF RowSmem, RowSram
  <2> HIDE DEF addr, w
  <2>5. PICK op \in {"sysmem_write", "sram_write"} : stim' = Append(stim, Line(op, addr, w))
    BY <2>3
  <2>6. Line(op, addr, w) \in WholeLines
    BY <2>2 DEF WholeLines, WholeLine, Lines, Line, LineOps, LineAddrs
  <2>7. stim' \in Seq(WholeLines)
    BY <2>5, <2>6 DEF AlignInv
  <2>8. QED
    BY <2>4, <2>7 DEF AlignInv
<1>3. CASE RowCsr("csr_baseaddr", "BASEADDR") \/ RowCsr("csr_ringlen", "RINGLEN")
  <2> DEFINE w == Head(rows).data
  <2>1. PICK r \in {"BASEADDR", "RINGLEN"} :
          /\ w \in Nat /\ (r = "BASEADDR" => w % 4 = 0)
          /\ regs' = Csr!Write(regs, r, w) /\ stim' = Append(stim, Line("csr_write", r, w)) /\ posted' = posted
    <3>1. CASE RowCsr("csr_baseaddr", "BASEADDR")
      <4>1. w \in Nat /\ w % 4 = 0
        BY <3>1, NextRow, ScenarioAssumption DEF GoldenInv, DrainInv, RowCsr, Row, AlignedRows
      <4>2. QED
        BY <3>1, <4>1 DEF RowCsr
    <3>2. CASE RowCsr("csr_ringlen", "RINGLEN")
      <4>1. w \in Nat
        BY <3>2, NextRow, ScenarioAssumption DEF GoldenInv, DrainInv, RowCsr, Row
      <4>2. QED
        BY <3>2, <4>1 DEF RowCsr
    <3>3. QED
      BY <1>3, <3>1, <3>2
  <2> HIDE DEF w
  <2>2. Line("csr_write", r, w) \in WholeLines
    BY <2>1 DEF WholeLines, WholeLine, Lines, Line, LineOps, LineAddrs
  <2>3. stim' \in Seq(WholeLines)
    BY <2>1, <2>2 DEF AlignInv
  <2>4. regs'.BASEADDR % 4 = 0
    <3>1. CASE r = "BASEADDR"
      BY <1>0, <2>1, <3>1 DEF Csr!Write, Registers
    <3>2. CASE r = "RINGLEN"
      BY <1>0, <2>1, <3>2 DEF Csr!Write, Registers, AlignInv
    <3>3. QED
      BY <3>1, <3>2
  <2>5. QED
    BY <2>1, <2>3, <2>4 DEF AlignInv
<1>4. CASE RowDesc /\ ~\E where : Raise(where)
  <2>1. pc' # "raised"
    BY <1>4 DEF RowDesc, Row
  <2>2. QED
    BY <1>4, <2>1, AlignPosts
<1>5. CASE RowEnable
  <2>1. stim' = stim /\ posted' = posted /\ regs'.BASEADDR = regs.BASEADDR
    BY <1>0, <1>5, WrittenCtrl DEF RowEnable, results
  <2>2. QED
    BY <2>1, AlignKeeps
<1>6. CASE RowUnknown \/ EndOfRows
  <2>1. stim' = stim /\ posted' = posted /\ regs' = regs
    BY <1>6 DEF RowUnknown, EndOfRows, Raise, results, memories
  <2>2. QED
    BY <2>1, AlignKeeps
<1>7. CASE EventLoop /\ ~\E where : Raise(where)
  <2>1. stim' = stim /\ posted' = posted
    BY <1>7 DEF EventLoop, Iterate, DescriptorFetch, Decode, AxiMove, SramMove, Complete, results
  <2>2. regs' = regs \/ regs' = Csr!hw_set_head(regs, NextHead)
    BY <1>7 DEF EventLoop, Iterate, DescriptorFetch, Decode, AxiMove, SramMove, Complete, memories
  <2>3. regs'.BASEADDR = regs.BASEADDR
    BY <1>0, <2>2 DEF Csr!hw_set_head, Registers
  <2>4. QED
    BY <2>1, <2>3, AlignKeeps
<1>8. CASE UNCHANGED goldenVars
  BY <1>8, AlignKeeps DEF goldenVars, results, memories
<1>9. QED
  BY <1>1, <1>2, <1>3, <1>4, <1>5, <1>6, <1>7, <1>8 DEF Next, Setup, Finished
-----------------------------------------------------------------------------
(* What host_runner.py remembers of the lines it has sent.                 *)

(* One more place is remembered, the others as they were.                  *)
LEMMA PutSent ==
  ASSUME NEW f, NEW k, NEW v
  PROVE  /\ Sent(Put(f, k, v), k) = v
         /\ \A x : x # k => Sent(Put(f, k, v), x) = Sent(f, x)
BY DEF Sent, Put

(* The places that were remembered still are.                              *)
LEMMA PutMore ==
  ASSUME NEW f, NEW k, NEW v, NEW x, x \in DOMAIN f
  PROVE  /\ x \in DOMAIN Put(f, k, v)
         /\ x = k => Put(f, k, v)[x] = v
         /\ x # k => Put(f, k, v)[x] = f[x]
BY DEF Put

(* After the lines sent so far, the host knows every word of the board     *)
(* that replays them on zeros, and TAIL and BASEADDR.                      *)
Position == Len(stim) - Len(todo)

Knows(b) ==
  /\ b \in BoardStates
  /\ \A a \in 0 .. SMEM_WORDS - 1 : Sent(image.smem, 4 * a) = b.smem[a]
  /\ \A a \in 0 .. BRAM_SIZE - 1 : Sent(image.sram, 4 * a) = b.sram[a]
  /\ {"TAIL", "BASEADDR"} \subseteq DOMAIN csr_writes
  /\ csr_writes.TAIL = b.regs.TAIL /\ csr_writes.BASEADDR = b.regs.BASEADDR

Sending ==
  /\ todo \in Seq(WholeLines) /\ Position \in 0 .. Len(stim)
  /\ \A i \in 1 .. Len(todo) : todo[i] = stim[Position + i]
  /\ Knows(Boards(stim)[Position])
  /\ DOMAIN image = {"smem", "sram"}

(* One line, and what it does to the board and to what the host knows.     *)
LEMMA KnowsMore ==
  ASSUME NEW b, Knows(b), SendLine, tool = "host_runner", NEW l \in WholeLines, l = Head(todo),
         DOMAIN image = {"smem", "sram"}
  PROVE  Knows(Replay(b, l))' /\ DOMAIN image' = {"smem", "sram"}
<1> DEFINE c == Replay(b, l)
<1>0. /\ l = Line(l.op, l.addr, l.data) /\ l.data \in Nat
      /\ b \in BoardStates /\ SMEM_WORDS \in Nat /\ BRAM_SIZE \in Nat
  BY GoldenAssumption DEF WholeLines, Lines, Line, Knows
<1>1. \A a \in Nat, x \in Nat : x % 4 = 0 => (4 * a = x <=> a = x \div 4)
  OBVIOUS
<1>2. CASE l.op = "sysmem_write"
  <2>1. l.addr \in Nat /\ l.addr % 4 = 0
    BY <1>2 DEF WholeLines, WholeLine
  <2>2. image' = [image EXCEPT !.smem = Put(@, l.addr, l.data)] /\ csr_writes' = csr_writes
    BY <1>2 DEF SendLine
  <2>3. image'.smem = Put(image.smem, l.addr, l.data) /\ image'.sram = image.sram
        /\ DOMAIN image' = DOMAIN image
    BY <2>2
  <2> DEFINE addr == l.addr
             w == l.data
  <2>4. addr \in Nat /\ w \in Nat /\ l = Line("sysmem_write", addr, w) /\ addr % 4 = 0
    BY <1>0, <1>2, <2>1
  <2>5. image'.smem = Put(image.smem, addr, w)
    BY <2>3
  <2> HIDE DEF addr, w
  <2>6. /\ Sent(image'.smem, addr) = w
        /\ \A x : x # addr => Sent(image'.smem, x) = Sent(image.smem, x)
    BY <2>5, PutSent
  <2>7. c \in BoardStates /\ c.regs = b.regs /\ c.smem = [b.smem EXCEPT ![addr \div 4] = w] /\ c.sram = b.sram
    <3> DEFINE op == "sysmem_write"
    <3>1. op \in {"sysmem_write", "sram_write"} /\ op = "sysmem_write" /\ l = Line(op, addr, w)
      BY <2>4
    <3> HIDE DEF op
    <3>2. /\ Replay(b, Line(op, addr, w)) \in BoardStates
          /\ Replay(b, Line(op, addr, w)).regs = b.regs
          /\ Replay(b, Line(op, addr, w)).smem = [b.smem EXCEPT ![addr \div 4] = w]
          /\ Replay(b, Line(op, addr, w)).sram = b.sram
      BY <1>0, <2>4, <3>1, ReplayWord
    <3>3. c = Replay(b, Line(op, addr, w))
      BY <3>1
    <3> HIDE DEF c
    <3>4. QED
      BY <3>2, <3>3
  <2> HIDE DEF c
  <2>8. ASSUME NEW a \in 0 .. SMEM_WORDS - 1
        PROVE  Sent(image'.smem, 4 * a) = c.smem[a]
    <3>1. Sent(image'.smem, 4 * a) = IF 4 * a = addr THEN w ELSE Sent(image.smem, 4 * a)
      BY <2>6
    <3>2. Sent(image.smem, 4 * a) = b.smem[a]
      BY DEF Knows
    <3>3. 4 * a = addr <=> a = addr \div 4
      BY <1>1, <2>4
    <3>4. c.smem[a] = IF a = addr \div 4 THEN w ELSE b.smem[a]
      BY <1>0, <2>7 DEF BoardStates
    <3>5. QED
      BY <3>1, <3>2, <3>3, <3>4
  <2>9. QED
    BY <2>2, <2>3, <2>7, <2>8 DEF Knows, c
<1>3. CASE l.op = "sram_write"
  <2>1. l.addr \in Nat /\ l.addr % 4 = 0
    BY <1>3 DEF WholeLines, WholeLine
  <2>2. image' = [image EXCEPT !.sram = Put(@, l.addr, l.data)] /\ csr_writes' = csr_writes
    BY <1>3 DEF SendLine
  <2>3. image'.sram = Put(image.sram, l.addr, l.data) /\ image'.smem = image.smem
        /\ DOMAIN image' = DOMAIN image
    BY <2>2
  <2> DEFINE addr == l.addr
             w == l.data
  <2>4. addr \in Nat /\ w \in Nat /\ l = Line("sram_write", addr, w) /\ addr % 4 = 0
    BY <1>0, <1>3, <2>1
  <2>5. image'.sram = Put(image.sram, addr, w)
    BY <2>3
  <2> HIDE DEF addr, w
  <2>6. /\ Sent(image'.sram, addr) = w
        /\ \A x : x # addr => Sent(image'.sram, x) = Sent(image.sram, x)
    BY <2>5, PutSent
  <2>7. c \in BoardStates /\ c.regs = b.regs /\ c.sram = [b.sram EXCEPT ![addr \div 4] = w] /\ c.smem = b.smem
    <3> DEFINE op == "sram_write"
    <3>1. op \in {"sysmem_write", "sram_write"} /\ op = "sram_write" /\ l = Line(op, addr, w)
      BY <2>4
    <3> HIDE DEF op
    <3>2. /\ Replay(b, Line(op, addr, w)) \in BoardStates
          /\ Replay(b, Line(op, addr, w)).regs = b.regs
          /\ Replay(b, Line(op, addr, w)).sram = [b.sram EXCEPT ![addr \div 4] = w]
          /\ Replay(b, Line(op, addr, w)).smem = b.smem
      BY <1>0, <2>4, <3>1, ReplayWord
    <3>3. c = Replay(b, Line(op, addr, w))
      BY <3>1
    <3> HIDE DEF c
    <3>4. QED
      BY <3>2, <3>3
  <2> HIDE DEF c
  <2>8. ASSUME NEW a \in 0 .. BRAM_SIZE - 1
        PROVE  Sent(image'.sram, 4 * a) = c.sram[a]
    <3>1. Sent(image'.sram, 4 * a) = IF 4 * a = addr THEN w ELSE Sent(image.sram, 4 * a)
      BY <2>6
    <3>2. Sent(image.sram, 4 * a) = b.sram[a]
      BY DEF Knows
    <3>3. 4 * a = addr <=> a = addr \div 4
      BY <1>1, <2>4
    <3>4. c.sram[a] = IF a = addr \div 4 THEN w ELSE b.sram[a]
      BY <1>0, <2>7 DEF BoardStates
    <3>5. QED
      BY <3>1, <3>2, <3>3, <3>4
  <2>9. QED
    BY <2>2, <2>3, <2>7, <2>8 DEF Knows, c
<1>4. CASE l.op = "csr_write"
  <2>1. l.addr \in {"BASEADDR", "RINGLEN", "TAIL"}
    BY <1>4 DEF WholeLines, WholeLine
  <2>2. csr_writes' = Put(csr_writes, l.addr, l.data) /\ image' = image
    BY <1>4 DEF SendLine
  <2>3. /\ {"TAIL", "BASEADDR"} \subseteq DOMAIN csr_writes
        /\ csr_writes.TAIL = b.regs.TAIL /\ csr_writes.BASEADDR = b.regs.BASEADDR
    BY DEF Knows
  <2> DEFINE addr == l.addr
             w == l.data
  <2>4. addr \in {"BASEADDR", "RINGLEN", "TAIL"} /\ w \in Nat /\ l = Line("csr_write", addr, w)
    BY <1>0, <1>4, <2>1
  <2> HIDE DEF addr, w
  <2>5. c \in BoardStates /\ c.smem = b.smem /\ c.sram = b.sram /\ c.regs = Csr!Write(b.regs, addr, w)
    <3>1. c = Replay(b, Line("csr_write", addr, w))
      BY <2>4
    <3>2. /\ Replay(b, Line("csr_write", addr, w)) \in BoardStates
          /\ Replay(b, Line("csr_write", addr, w)).smem = b.smem
          /\ Replay(b, Line("csr_write", addr, w)).sram = b.sram
          /\ Replay(b, Line("csr_write", addr, w)).regs = Csr!Write(b.regs, addr, w)
      BY <1>0, <2>4, ReplayRegister, Zenon
    <3> HIDE DEF c
    <3>3. QED
      BY <3>1, <3>2
  <2> HIDE DEF c
  <2>6. /\ {"TAIL", "BASEADDR"} \subseteq DOMAIN csr_writes'
        /\ csr_writes'.TAIL = (IF addr = "TAIL" THEN w ELSE csr_writes.TAIL)
        /\ csr_writes'.BASEADDR = (IF addr = "BASEADDR" THEN w ELSE csr_writes.BASEADDR)
    <3>1. csr_writes' = Put(csr_writes, addr, w)
      BY <2>2 DEF addr, w
    <3>2. "TAIL" \in DOMAIN csr_writes /\ "BASEADDR" \in DOMAIN csr_writes
      BY <2>3
    <3>3. ASSUME NEW x \in {"TAIL", "BASEADDR"}
          PROVE  x \in DOMAIN csr_writes' /\ csr_writes'[x] = IF x = addr THEN w ELSE csr_writes[x]
      BY <3>1, <3>2, PutMore
    <3>4. QED
      BY <3>3
  <2>7. /\ c.regs.TAIL = (IF addr = "TAIL" THEN w ELSE b.regs.TAIL)
        /\ c.regs.BASEADDR = (IF addr = "BASEADDR" THEN w ELSE b.regs.BASEADDR)
    <3>1. b.regs \in Registers
      BY <1>0 DEF BoardStates
    <3>2. CASE addr = "TAIL"
      BY <2>4, <2>5, <3>1, <3>2, Written
    <3>3. CASE addr = "BASEADDR"
      BY <2>4, <2>5, <3>1, <3>3 DEF Csr!Write, Registers
    <3>4. CASE addr = "RINGLEN"
      BY <2>4, <2>5, <3>1, <3>4 DEF Csr!Write, Registers
    <3>5. QED
      BY <2>4, <3>2, <3>3, <3>4
  <2>8. QED
    BY <2>2, <2>3, <2>5, <2>6, <2>7 DEF Knows, c
<1>5. QED
  BY <1>2, <1>3, <1>4 DEF WholeLines, WholeLine

(* Before a tool is started.                                               *)
HomeInv ==
  phase = "golden" =>
    /\ tool = "none" /\ verdict = "none" /\ checked = 0 /\ transfers = <<>>
    /\ image = [smem |-> <<>>, sram |-> <<>>] /\ csr_writes = [TAIL |-> 0, BASEADDR |-> 0]

(* The model's steps start no tool.                                        *)
LEMMA HomeStep == HomeInv /\ [vNext]_verifyVars => HomeInv'
BY DEF HomeInv, vNext, Host, Display, Stop, RunGolden, Start, ClearMemories, SendLine, WalkRing, StimSent, RunDma,
       VerifyTransfer, Report, VerifyCrcs, DryRun, verifyVars, hostVars

(* The ring walk finds what was posted, and for every transfer the words   *)
(* its source held when the event loop started.                            *)
Expectation(d) ==
  [desc |-> d, words |-> [j \in 1 .. Beats(d) |-> At(initial, SourceOf(d), (Src(d) \div 4) + j - 1)]]

Walked ==
  RingUntouched /\ Csr!is_enabled(regs) =>
    /\ Len(transfers) = Len(posted)
    /\ \A k \in 1 .. Len(posted) : transfers[k] = Expectation(posted[k].desc)

Judged(n) == \A k \in 1 .. n : Beats(transfers[k].desc) = 0 \/ Intact(transfers[k])

RunnerInv ==
  tool = "host_runner" =>
    /\ pc = "done" /\ phase \in {"send", "run", "verify", "end"}
    /\ phase = "send" => Sending
    /\ phase # "send" => Walked /\ Len(transfers) \in Nat
    /\ phase \in {"send", "run"} => verdict = "none" /\ checked = 0
    /\ phase = "verify" =>
         /\ checked \in 0 .. Len(transfers) /\ verdict \in {"none", "fail"}
         /\ verdict = "none" => Judged(checked)
    /\ phase = "end" /\ verdict = "pass" => Judged(Len(transfers))

(* The host starts with nothing sent.                                      *)
LEMMA RunnerStarts ==
  ASSUME ModelInv, AlignInv, HomeInv, Start, tool' = "host_runner"
  PROVE  RunnerInv'
<1>1. /\ phase = "golden" /\ pc \in {"done", "raised"} /\ todo' = stim /\ UNCHANGED goldenVars
      /\ UNCHANGED <<verdict, image, csr_writes, transfers, checked>>
  BY DEF Start
<1>2. pc = "done" /\ phase' = "send"
  BY DEF Start
<1>3. UNCHANGED <<pc, stim, regs>>
  BY <1>1 DEF goldenVars, memories, results
<1>4. /\ verdict = "none" /\ checked = 0
      /\ image = [smem |-> <<>>, sram |-> <<>>] /\ csr_writes = [TAIL |-> 0, BASEADDR |-> 0]
  BY <1>1 DEF HomeInv
<1>5. stim \in Seq(WholeLines) /\ Len(stim) \in Nat
  BY DEF AlignInv
<1>6. Position' = 0
  BY <1>1, <1>3, <1>5 DEF Position
<1>7. Boards(stim)[0] = Blank
  BY <1>5, BoardsAre
<1>8. Knows(Boards(stim)[Position])'
  <2>1. /\ Blank \in BoardStates /\ Blank.regs.TAIL = 0 /\ Blank.regs.BASEADDR = 0
        /\ \A a \in 0 .. SMEM_WORDS - 1 : Blank.smem[a] = 0
        /\ \A a \in 0 .. BRAM_SIZE - 1 : Blank.sram[a] = 0
    BY DEF Blank, BoardStates, Registers, Csr!PowerUp
  <2>2. \A x : Sent(<<>>, x) = 0
    BY DEF Sent
  <2>3. image'.smem = <<>> /\ image'.sram = <<>> /\ csr_writes' = [TAIL |-> 0, BASEADDR |-> 0]
    BY <1>1, <1>4
  <2>4. (Boards(stim)[Position])' = Blank
    BY <1>3, <1>6, <1>7
  <2>5. {"TAIL", "BASEADDR"} \subseteq DOMAIN csr_writes' /\ csr_writes'.TAIL = 0 /\ csr_writes'.BASEADDR = 0
    BY <2>3
  <2>6. QED
    BY <2>1, <2>2, <2>3, <2>4, <2>5 DEF Knows
<1>9. Sending'
  BY <1>1, <1>3, <1>4, <1>5, <1>6, <1>8 DEF Sending
<1>10. QED
  BY <1>1, <1>2, <1>3, <1>4, <1>9 DEF RunnerInv

(* One line sent.                                                          *)
LEMMA RunnerSends ==
  ASSUME ModelInv, RunnerInv, SendLine, tool = "host_runner"
  PROVE  RunnerInv'
<1>1. /\ phase = "send" /\ todo # <<>> /\ todo' = Tail(todo)
      /\ UNCHANGED <<goldenVars, tool, phase, verdict, transfers, checked>>
  BY DEF SendLine
<1>2. pc = "done" /\ verdict = "none" /\ checked = 0 /\ Sending
  BY <1>1 DEF RunnerInv
<1>3. UNCHANGED <<pc, stim>>
  BY <1>1 DEF goldenVars, results
<1>4. /\ todo \in Seq(WholeLines) /\ Position \in 0 .. Len(stim) /\ DOMAIN image = {"smem", "sram"}
      /\ \A i \in 1 .. Len(todo) : todo[i] = stim[Position + i]
      /\ Knows(Boards(stim)[Position])
  BY <1>2 DEF Sending
<1>5. Len(stim) \in Nat
  BY DEF ModelInv, ExecutedInv, PostedInv, GoldenInv, RingInv
<1>6. /\ Len(todo) \in Nat /\ Len(todo) > 0 /\ Len(todo') = Len(todo) - 1 /\ todo' \in Seq(WholeLines)
      /\ Head(todo) \in WholeLines /\ Head(todo) = todo[1]
      /\ \A i \in 1 .. Len(todo) - 1 : todo'[i] = todo[i + 1]
  BY <1>1, <1>4
<1>7. Position' = Position + 1 /\ Position' \in 0 .. Len(stim) /\ Position \in Nat
  BY <1>3, <1>4, <1>5, <1>6 DEF Position
<1>8. \A i \in 1 .. Len(todo') : todo'[i] = stim[Position' + i]
  <2> SUFFICES ASSUME NEW i \in 1 .. Len(todo') PROVE todo'[i] = stim[Position' + i]
    OBVIOUS
  <2>1. i + 1 \in 1 .. Len(todo) /\ i \in 1 .. Len(todo) - 1 /\ Position' + i = Position + (i + 1)
    BY <1>6, <1>7
  <2>2. QED
    BY <1>4, <1>6, <2>1
<1>9. PICK b : b = Boards(stim)[Position]
  OBVIOUS
<1>10. PICK l : l = Head(todo)
  OBVIOUS
<1>11. Knows(b) /\ l \in WholeLines
  BY <1>4, <1>6, <1>9, <1>10
<1>12. Knows(Replay(b, l))' /\ DOMAIN image' = {"smem", "sram"}
  BY <1>4, <1>10, <1>11, KnowsMore
<1>13. (Boards(stim)[Position])' = Replay(b, l)
  <2>1. Position + 1 \in 1 .. Len(stim) /\ (Position + 1) - 1 = Position
    BY <1>5, <1>7
  <2>2. Boards(stim)[Position + 1] = Replay(Boards(stim)[Position], stim[Position + 1])
    BY <1>5, <2>1, BoardsAre
  <2>3. stim[Position + 1] = l
    <3>1. 1 \in 1 .. Len(todo)
      BY <1>6
    <3>2. QED
      BY <1>4, <1>6, <1>10, <3>1
  <2>4. QED
    BY <1>3, <1>7, <1>9, <2>2, <2>3
<1>14. Knows(Boards(stim)[Position])'
  BY <1>12, <1>13 DEF Knows
<1>15. Sending'
  BY <1>3, <1>6, <1>7, <1>8, <1>12, <1>14 DEF Sending
<1>16. QED
  BY <1>1, <1>2, <1>3, <1>15 DEF RunnerInv

(* What is known of the last board is known of the start of the loop.      *)
LEMMA KnowsStart ==
  ASSUME ModelInv, pc = "done", Knows(Replayed(stim))
  PROVE  /\ \A a \in 0 .. SMEM_WORDS - 1 : Sent(image.smem, 4 * a) = initial.smem[a]
         /\ \A a \in 0 .. BRAM_SIZE - 1 : Sent(image.sram, 4 * a) = initial.sram[a]
         /\ csr_writes.TAIL = regs.TAIL /\ csr_writes.BASEADDR = regs.BASEADDR
<1>1. /\ Replayed(stim).smem = initial.smem /\ Replayed(stim).sram = initial.sram
      /\ SameRing(Replayed(stim).regs, regs)
  BY DEF ModelInv, ReplayInv
<1>2. QED
  BY <1>1 DEF Knows, SameRing

(* The walk finds transfer k as it was posted.                             *)
LEMMA WalkFinds ==
  ASSUME ModelInv, AlignInv, pc = "done", RingUntouched, Csr!is_enabled(regs),
         Knows(Replayed(stim)), NEW k \in 1 .. Len(posted)
  PROVE  Transfer(k) = Expectation(posted[k].desc)
<1> DEFINE d == posted[k].desc
           slot == posted[k].slot
           base == regs.BASEADDR
           at(i) == Sent(image.smem, csr_writes.BASEADDR + 16 * (k - 1) + 4 * (i - 1))
           found == [i \in 1 .. DESC_WORDS |-> at(i)]
<1>1. /\ posted \in Seq(Posts) /\ PostedDescs \in Seq(LegalDescs)
      /\ Len(PostedDescs) = Len(posted) /\ PostedDescs[k] = d
  BY GoldenEnds DEF ModelInv
<1>2. /\ k \in Nat /\ k - 1 \in Nat /\ d \in LegalDescs
      /\ slot \in Nat /\ slot + DESC_WORDS <= SMEM_WORDS /\ SMEM_WORDS \in Nat /\ BRAM_SIZE \in Nat
  <2>1. k \in 1 .. Len(PostedDescs) /\ posted[k] \in Posts /\ Len(posted) \in Nat
    BY <1>1
  <2>2. slot \in Nat /\ slot + DESC_WORDS <= SMEM_WORDS
    BY <2>1 DEF Posts
  <2>3. QED
    BY <1>1, <2>1, <2>2, GoldenAssumption
<1>3. base \in Nat /\ base % 4 = 0 /\ slot = (base + (k - 1) * DESCRIPTOR_SIZE_BYTES) \div 4
  <2>1. Ordered
    BY DEF ModelInv, ExecutedInv, PostedInv, GoldenInv, RingInv, RingUntouched
  <2>2. base \in Nat
    BY DEF ModelInv, ExecutedInv, PostedInv, GoldenInv, DrainInv, Stored, Registers
  <2>3. QED
    BY <2>1, <2>2 DEF Ordered, SlotOf, AlignInv
<1>4. ReadWords(initial.smem, slot, DESC_WORDS) = d
  <2>1. k \in DOMAIN posted
    BY <1>1
  <2>2. QED
    BY <2>1 DEF RingUntouched
<1> HIDE DEF slot, base
<1>5. ASSUME NEW i \in 1 .. DESC_WORDS
      PROVE  at(i) = d[i]
  <2>1. i - 1 \in Nat /\ slot + (i - 1) \in 0 .. SMEM_WORDS - 1
    BY <1>2 DEF DESC_WORDS
  <2>2. base + 16 * (k - 1) + 4 * (i - 1) = 4 * (slot + (i - 1))
    <3> DEFINE x == k - 1
               y == i - 1
    <3>1. x \in Nat /\ y \in Nat /\ slot = (base + x * DESCRIPTOR_SIZE_BYTES) \div 4
      BY <1>2, <1>3, <2>1
    <3> HIDE DEF x, y
    <3>2. PICK q \in Nat : base = 4 * q
      <4>1. base \div 4 \in Nat /\ base = 4 * (base \div 4)
        BY <1>3
      <4>2. QED
        BY <4>1
    <3>3. base + x * DESCRIPTOR_SIZE_BYTES = 4 * (q + 4 * x) /\ q + 4 * x \in Nat
      BY <3>1, <3>2 DEF DESCRIPTOR_SIZE_BYTES
    <3>4. \A n \in Nat : (4 * n) \div 4 = n
      OBVIOUS
    <3>5. slot = q + 4 * x
      BY <3>1, <3>3, <3>4
    <3>6. base + 16 * x + 4 * y = 4 * (slot + y)
      BY <3>1, <3>2, <3>5
    <3>7. QED
      BY <3>6 DEF x, y
  <2>3. csr_writes.BASEADDR = base
    BY KnowsStart DEF base
  <2>4. at(i) = initial.smem[slot + (i - 1)]
    BY <2>1, <2>2, <2>3, KnowsStart
  <2>5. ReadWords(initial.smem, slot, DESC_WORDS)[i] = initial.smem[slot + i - 1]
    BY DEF ReadWords
  <2>6. slot + i - 1 = slot + (i - 1)
    BY <1>2, <2>1 DEF DESC_WORDS
  <2>7. QED
    BY <1>4, <2>4, <2>5, <2>6
<1>6. found = d
  <2>1. d \in [1 .. DESC_WORDS -> Nat]
    BY <1>2 DEF LegalDescs, Descriptors
  <2> HIDE DEF at, d
  <2>2. QED
    BY <1>5, <2>1
<1> DEFINE source == IF ToSram(d) THEN image.smem ELSE image.sram
<1>7. Transfer(k) = [desc |-> d, words |-> [j \in 1 .. Beats(d) |-> SourceWord(source, Src(d), j)]]
  <2>1. Transfer(k) = [desc |-> found,
                       words |-> [j \in 1 .. Beats(found) |->
                                    SourceWord(IF ToSram(found) THEN image.smem ELSE image.sram, Src(found), j)]]
    BY DEF Transfer
  <2> HIDE DEF found, d
  <2>2. QED
    BY <1>6, <2>1
<1>8. ASSUME NEW j \in 1 .. Beats(d)
      PROVE  SourceWord(source, Src(d), j) = At(initial, SourceOf(d), (Src(d) \div 4) + j - 1)
  <2> DEFINE s == Src(d) \div 4
             a == s + (j - 1)
  <2>1. /\ s \in Nat /\ Beats(d) \in Nat /\ OutOf(d) \subseteq 0 .. Size(SourceOf(d)) - 1
        /\ Src(d) \in Nat
    BY <1>2, Ranges, Fields DEF LegalDescs
  <2>2. Src(d) = 4 * s
    <3>1. Src(d) % 4 = 0
      BY DEF AlignInv
    <3> DEFINE x == Src(d)
    <3>2. x \in Nat /\ x % 4 = 0
      BY <2>1, <3>1
    <3> HIDE DEF x
    <3>3. x = 4 * (x \div 4)
      BY <3>2
    <3>4. QED
      BY <3>3 DEF x
  <2>3. a \in OutOf(d) /\ j - 1 \in Nat
    BY <2>1 DEF OutOf
  <2>4. a \in 0 .. Size(SourceOf(d)) - 1 /\ Src(d) + 4 * (j - 1) = 4 * a
    <3>1. a \in 0 .. Size(SourceOf(d)) - 1
      BY <2>1, <2>3
    <3>2. 4 * s + 4 * (j - 1) = 4 * (s + (j - 1))
      BY <2>1, <2>3
    <3>3. QED
      BY <2>2, <3>1, <3>2
  <2>5. SourceWord(source, Src(d), j) = Sent(source, 4 * a)
    BY <2>4 DEF SourceWord
  <2>6. (Src(d) \div 4) + j - 1 = a
    BY <2>1
  <2> HIDE DEF a, s
  <2>7. CASE ToSram(d)
    <3>1. SourceOf(d) = "smem" /\ source = image.smem /\ a \in 0 .. SMEM_WORDS - 1
      BY <2>4, <2>7 DEF SourceOf, Size
    <3>2. QED
      BY <2>5, <2>6, <3>1, KnowsStart DEF At
  <2>8. CASE ~ToSram(d)
    <3>1. SourceOf(d) = "sram" /\ source = image.sram /\ a \in 0 .. BRAM_SIZE - 1
      BY <2>4, <2>8 DEF SourceOf, Size
    <3>2. QED
      BY <2>5, <2>6, <3>1, KnowsStart DEF At
  <2>9. QED
    BY <2>7, <2>8
<1> HIDE DEF source, d
<1>9. Transfer(k) = Expectation(d)
  BY <1>7, <1>8 DEF Expectation
<1>10. QED
  BY <1>9 DEF d

(* The ring walk.                                                          *)
LEMMA RunnerWalks ==
  ASSUME ModelInv, AlignInv, RunnerInv, WalkRing
  PROVE  RunnerInv'
<1>1. /\ phase = "send" /\ todo = <<>> /\ tool = "host_runner" /\ phase' = "run"
      /\ transfers' = [i \in 1 .. csr_writes.TAIL |-> Transfer(i)]
      /\ UNCHANGED <<goldenVars, tool, verdict, checked>>
  BY DEF WalkRing
<1>2. pc = "done" /\ verdict = "none" /\ checked = 0 /\ Sending
  BY <1>1 DEF RunnerInv
<1>3. UNCHANGED <<pc, stim, regs, posted, initial>>
  BY <1>1 DEF goldenVars, memories, results
<1>4. Knows(Replayed(stim))
  <2>1. Len(stim) \in Nat
    BY DEF AlignInv
  <2>2. Position = Len(stim)
    BY <1>1, <2>1 DEF Position
  <2>3. QED
    BY <1>2, <2>2 DEF Sending, Replayed
<1> DEFINE n == csr_writes.TAIL
<1>5. n \in Nat
  BY <1>4 DEF Knows, BoardStates, Registers
<1>6. Len(transfers') = n /\ \A k \in 1 .. n : transfers'[k] = Transfer(k)
  <2> DEFINE T(i) == Transfer(i)
  <2>1. transfers' = [i \in 1 .. n |-> T(i)]
    BY <1>1
  <2> HIDE DEF T, n
  <2>2. Len(transfers') = n /\ \A k \in 1 .. n : transfers'[k] = T(k)
    BY <1>5, <2>1
  <2>3. QED
    BY <2>2 DEF T
<1>7. ASSUME RingUntouched, Csr!is_enabled(regs)
      PROVE  n = Len(posted) /\ \A k \in 1 .. Len(posted) : transfers'[k] = Expectation(posted[k].desc)
  <2>1. n = Len(posted)
    <3>1. regs.TAIL = Len(posted)
      BY <1>2, <1>7, GoldenEnds DEF ModelInv
    <3>2. QED
      BY <1>2, <1>4, <3>1, KnowsStart
  <2> HIDE DEF n
  <2>2. ASSUME NEW k \in 1 .. Len(posted)
        PROVE  transfers'[k] = Expectation(posted[k].desc)
    BY <1>2, <1>4, <1>6, <1>7, <2>1, <2>2, WalkFinds
  <2>3. QED
    BY <2>1, <2>2
<1>8. Walked'
  <2>1. /\ RingUntouched' <=> RingUntouched
        /\ (Csr!is_enabled(regs))' <=> Csr!is_enabled(regs)
        /\ \A d : Expectation(d)' = Expectation(d)
    BY <1>3 DEF RingUntouched, Reconfigured, SlotWords, Expectation, At, Csr!is_enabled
  <2> HIDE DEF n
  <2>2. QED
    BY <1>3, <1>6, <1>7, <2>1 DEF Walked
<1>9. QED
  BY <1>1, <1>2, <1>3, <1>5, <1>6, <1>8 DEF RunnerInv

(* What was walked does not change.                                        *)
LEMMA WalkedStays ==
  ASSUME UNCHANGED <<goldenVars, transfers>>, Walked
  PROVE  Walked'
<1>1. UNCHANGED <<stim, regs, posted, initial>>
  BY DEF goldenVars, memories, results
<1>2. QED
  BY <1>1 DEF Walked, RingUntouched, Reconfigured, SlotWords, Expectation, At, Csr!is_enabled

(* The engine runs, whatever it does.                                      *)
LEMMA RunnerRuns ==
  ASSUME RunnerInv, RunDma, tool = "host_runner"
  PROVE  RunnerInv'
<1>1. /\ phase = "run" /\ UNCHANGED <<goldenVars, tool, checked, transfers>>
      /\ \/ phase' = "verify" /\ verdict' = verdict
         \/ phase' = "end" /\ verdict' = "fail"
  BY DEF RunDma
<1>2. pc = "done" /\ verdict = "none" /\ checked = 0 /\ Walked /\ Len(transfers) \in Nat
  BY <1>1 DEF RunnerInv
<1>3. pc' = pc
  BY <1>1 DEF goldenVars
<1>4. Walked'
  BY <1>1, <1>2, WalkedStays
<1>5. Judged(checked)'
  BY <1>1, <1>2 DEF Judged
<1>6. QED
  BY <1>1, <1>2, <1>3, <1>4, <1>5 DEF RunnerInv

(* A verdict does not change when neither board nor transfers do.          *)
LEMMA JudgedStays ==
  ASSUME UNCHANGED <<board, transfers>>, NEW n, Judged(n)
  PROVE  \A k \in 1 .. n : (Beats(transfers[k].desc) = 0 \/ Intact(transfers[k]))'
BY DEF Judged, Intact, Words, ReadWords, DestinationOf, SourceOf

(* One transfer is judged.                                                 *)
LEMMA RunnerVerifies ==
  ASSUME RunnerInv, VerifyTransfer
  PROVE  RunnerInv'
<1> DEFINE t == transfers[checked + 1]
<1>1. /\ phase = "verify" /\ tool = "host_runner" /\ checked < Len(transfers)
      /\ verdict' = (IF Beats(t.desc) = 0 \/ Intact(t) THEN verdict ELSE "fail")
      /\ checked' = checked + 1
      /\ UNCHANGED <<goldenVars, board, tool, phase, transfers>>
  BY DEF VerifyTransfer, boardVars
<1>2. /\ pc = "done" /\ Walked /\ Len(transfers) \in Nat
      /\ checked \in 0 .. Len(transfers) /\ verdict \in {"none", "fail"}
      /\ verdict = "none" => Judged(checked)
  BY <1>1 DEF RunnerInv
<1>3. pc' = pc /\ Walked'
  BY <1>1, <1>2, WalkedStays DEF goldenVars
<1>4. ASSUME verdict' = "none"
      PROVE  Judged(checked)'
  <2>1. verdict = "none" /\ (Beats(t.desc) = 0 \/ Intact(t))
    BY <1>1, <1>4
  <2>2. Judged(checked')
    <3>1. \A k \in 1 .. checked : Beats(transfers[k].desc) = 0 \/ Intact(transfers[k])
      BY <1>2, <2>1 DEF Judged
    <3>2. \A k \in 1 .. checked' : k \in 1 .. checked \/ k = checked + 1
      BY <1>1, <1>2
    <3>3. QED
      BY <2>1, <3>1, <3>2 DEF Judged
  <2>3. PICK n : n = checked'
    OBVIOUS
  <2>4. \A k \in 1 .. n : (Beats(transfers[k].desc) = 0 \/ Intact(transfers[k]))'
    BY <1>1, <2>2, <2>3, JudgedStays
  <2>5. QED
    BY <2>3, <2>4 DEF Judged
<1>5. checked' \in 0 .. Len(transfers) /\ verdict' \in {"none", "fail"}
  BY <1>1, <1>2
<1>6. QED
  BY <1>1, <1>2, <1>3, <1>4, <1>5 DEF RunnerInv

(* The verdict.                                                            *)
LEMMA RunnerReports ==
  ASSUME RunnerInv, Report
  PROVE  RunnerInv'
<1>1. /\ phase = "verify" /\ tool = "host_runner" /\ checked = Len(transfers)
      /\ verdict' = (IF verdict = "none" THEN "pass" ELSE "fail") /\ phase' = "end"
      /\ UNCHANGED <<goldenVars, board, tool, transfers>>
  BY DEF Report, boardVars
<1>2. /\ pc = "done" /\ Walked /\ Len(transfers) \in Nat
      /\ verdict = "none" => Judged(Len(transfers))
  BY <1>1 DEF RunnerInv
<1>3. pc' = pc /\ Walked'
  BY <1>1, <1>2, WalkedStays DEF goldenVars
<1>4. ASSUME verdict' = "pass"
      PROVE  Judged(Len(transfers))'
  <2>1. PICK n : n = Len(transfers)
    OBVIOUS
  <2>2. Judged(n)
    BY <1>1, <1>2, <1>4, <2>1
  <2>3. \A k \in 1 .. n : (Beats(transfers[k].desc) = 0 \/ Intact(transfers[k]))'
    BY <1>1, <2>2, JudgedStays
  <2>4. QED
    BY <1>1, <2>1, <2>3 DEF Judged
<1>5. QED
  BY <1>1, <1>2, <1>3, <1>4 DEF RunnerInv

(* The display, the end and a stutter.                                     *)
LEMMA RunnerKeeps ==
  ASSUME RunnerInv, UNCHANGED <<goldenVars, board, hostVars>>
  PROVE  RunnerInv'
<1> SUFFICES ASSUME tool = "host_runner" PROVE RunnerInv'
  BY DEF RunnerInv, hostVars
<1>1. UNCHANGED <<pc, stim, tool, phase, verdict, todo, image, csr_writes, transfers, checked>>
  BY DEF goldenVars, results, hostVars
<1>2. phase = "send" => Sending'
  BY <1>1 DEF RunnerInv, Sending, Position, Knows
<1>3. phase # "send" => Walked'
  BY <1>1, WalkedStays DEF RunnerInv
<1>4. \A n : Judged(n) <=> Judged(n)'
  BY <1>1 DEF Judged, Intact, Words, ReadWords, DestinationOf, SourceOf
<1>5. QED
  BY <1>1, <1>2, <1>3, <1>4 DEF RunnerInv

(* Every step of model, tool and display keeps what is known of the tool.  *)
LEMMA RunnerStep ==
  ModelInv /\ AlignInv /\ HomeInv /\ RunnerInv /\ [vNext]_verifyVars => RunnerInv'
<1> SUFFICES ASSUME ModelInv, AlignInv, HomeInv, RunnerInv, [vNext]_verifyVars PROVE RunnerInv'
  OBVIOUS
<1>1. CASE Start
  BY <1>1, RunnerStarts DEF RunnerInv
<1>2. CASE SendLine
  <2>1. tool' = tool
    BY <1>2 DEF SendLine
  <2>2. QED
    BY <1>2, <2>1, RunnerSends DEF RunnerInv
<1>3. CASE WalkRing
  BY <1>3, RunnerWalks
<1>4. CASE RunDma
  <2>1. tool' = tool
    BY <1>4 DEF RunDma
  <2>2. QED
    BY <1>4, <2>1, RunnerRuns DEF RunnerInv
<1>5. CASE VerifyTransfer
  BY <1>5, RunnerVerifies
<1>6. CASE Report
  BY <1>6, RunnerReports
<1>7. CASE Display \/ Stop \/ UNCHANGED verifyVars
  <2>1. UNCHANGED <<goldenVars, board, hostVars>>
    BY <1>7 DEF Display, Stop, verifyVars, boardVars
  <2>2. QED
    BY <2>1, RunnerKeeps
<1>8. CASE RunGolden \/ ClearMemories \/ StimSent \/ VerifyCrcs \/ DryRun
  <2>1. tool' = tool /\ tool # "host_runner"
    BY <1>8 DEF RunnerInv, RunGolden, ClearMemories, StimSent, VerifyCrcs, DryRun, hostVars
  <2>2. QED
    BY <2>1 DEF RunnerInv
<1>9. QED
  BY <1>1, <1>2, <1>3, <1>4, <1>5, <1>6, <1>7, <1>8 DEF vNext, Host
-----------------------------------------------------------------------------
(* Destination and source both hold the words the source held when the     *)
(* event loop started.                                                     *)
Agreed(d) ==
  \A a \in Into(d) :
    /\ board[DestinationOf(d)][a] = At(initial, SourceOf(d), Origin(d, a))
    /\ board[SourceOf(d)][Origin(d, a)] = At(initial, SourceOf(d), Origin(d, a))

(* That is what an intact transfer says.                                   *)
LEMMA IntactAgrees ==
  ASSUME NEW d \in LegalDescs, NEW t, t = Expectation(d), Beats(t.desc) = 0 \/ Intact(t)
  PROVE  Agreed(d)
<1> DEFINE s == Src(d) \div 4
           e == Dst(d) \div 4
           n == Beats(d)
           w(j) == At(initial, SourceOf(d), s + j - 1)
<1>1. s \in Nat /\ e \in Nat /\ n \in Nat
  BY Ranges
<1>2. t.desc = d /\ t.words = [j \in 1 .. n |-> w(j)]
  BY DEF Expectation
<1>3. n = 0 \/ /\ [j \in 1 .. n |-> board[DestinationOf(d)][e + j - 1]] = [j \in 1 .. n |-> w(j)]
               /\ [j \in 1 .. n |-> board[SourceOf(d)][s + j - 1]] = [j \in 1 .. n |-> w(j)]
  BY <1>2 DEF Intact, Words, ReadWords
<1>4. Into(d) = e .. e + n - 1 /\ \A a : Origin(d, a) = s + (a - e)
  BY DEF Into, Origin
<1>5. ASSUME NEW j \in 1 .. n
      PROVE  board[DestinationOf(d)][e + j - 1] = w(j) /\ board[SourceOf(d)][s + j - 1] = w(j)
  <2> HIDE DEF w, e, s, n
  <2>1. n # 0
    BY <1>1
  <2> DEFINE f == [i \in 1 .. n |-> board[DestinationOf(d)][e + i - 1]]
             g == [i \in 1 .. n |-> board[SourceOf(d)][s + i - 1]]
             h == [i \in 1 .. n |-> w(i)]
  <2>2. f = h /\ g = h
    BY <1>3, <2>1
  <2>3. /\ f[j] = board[DestinationOf(d)][e + j - 1] /\ g[j] = board[SourceOf(d)][s + j - 1]
        /\ h[j] = w(j)
    OBVIOUS
  <2> HIDE DEF f, g, h
  <2>4. QED
    BY <2>2, <2>3
<1>6. ASSUME NEW a \in Into(d)
      PROVE  /\ board[DestinationOf(d)][a] = At(initial, SourceOf(d), Origin(d, a))
             /\ board[SourceOf(d)][Origin(d, a)] = At(initial, SourceOf(d), Origin(d, a))
  <2> DEFINE j == a - e + 1
  <2> HIDE DEF e, s, n
  <2>1. j \in 1 .. n /\ e + j - 1 = a /\ s + j - 1 = Origin(d, a)
    BY <1>1, <1>4
  <2> HIDE DEF j
  <2>2. w(j) = At(initial, SourceOf(d), Origin(d, a))
    BY <2>1
  <2> HIDE DEF w
  <2>3. QED
    BY <1>5, <2>1, <2>2
<1>7. QED
  BY <1>6 DEF Agreed

(* When every transfer agrees, executing them in order gives the words of  *)
(* the board: a chained transfer reads a word that the earlier one should  *)
(* have replaced by itself.                                                *)
Held(s, i) ==
  \A r \in Regions : \A a \in 0 .. Size(r) - 1 :
    At(Runs(initial, s)[i], r, a) =
      IF \E j \in 1 .. i : Writes(s[j], r, a) THEN board[r][a] ELSE At(initial, r, a)

(* One more descriptor.                                                    *)
LEMMA OneHeld ==
  ASSUME initial \in Mems, NEW s \in Seq(LegalDescs), NEW i \in 1 .. Len(s),
         Agreed(s[i]), Held(s, i - 1)
  PROVE  Held(s, i)
<1>1. s[i] \in LegalDescs /\ initial \in Holders /\ Len(s) \in Nat
  BY DEF Holders
<1>2. ASSUME NEW r \in Regions, NEW a \in 0 .. Size(r) - 1
      PROVE  At(Runs(initial, s)[i], r, a) =
               IF \E j \in 1 .. i : Writes(s[j], r, a) THEN board[r][a] ELSE At(initial, r, a)
  <2>1. At(Runs(initial, s)[i], r, a) =
          IF Writes(s[i], r, a) THEN At(Runs(initial, s)[i - 1], SourceOf(s[i]), Origin(s[i], a))
          ELSE At(Runs(initial, s)[i - 1], r, a)
    BY <1>1, RunsNext
  <2>2. CASE Writes(s[i], r, a)
    <3> DEFINE q == SourceOf(s[i])
               b == Origin(s[i], a)
    <3>1. q \in Regions /\ b \in 0 .. Size(q) - 1
      BY <1>1, <2>2, Ranges DEF Writes
    <3>2. board[r][a] = At(initial, q, b) /\ board[q][b] = At(initial, q, b)
      BY <2>2 DEF Agreed, Writes
    <3> HIDE DEF q, b
    <3>3. At(Runs(initial, s)[i - 1], q, b) = At(initial, q, b)
      BY <3>1, <3>2 DEF Held
    <3>4. \E j \in 1 .. i : Writes(s[j], r, a)
      BY <1>1, <2>2
    <3>5. At(Runs(initial, s)[i], r, a) = board[r][a]
      BY <2>1, <2>2, <3>2, <3>3 DEF q, b
    <3>6. QED
      BY <3>4, <3>5
  <2>3. CASE ~Writes(s[i], r, a)
    <3>1. (\E j \in 1 .. i : Writes(s[j], r, a)) <=> (\E j \in 1 .. i - 1 : Writes(s[j], r, a))
      <4>1. \A j \in 1 .. i : j = i \/ j \in 1 .. i - 1
        BY <1>1
      <4>2. \A j \in 1 .. i - 1 : j \in 1 .. i
        BY <1>1
      <4>3. QED
        BY <2>3, <4>1, <4>2
    <3>2. QED
      BY <2>1, <2>3, <3>1 DEF Held
  <2>4. QED
    BY <2>2, <2>3
<1>3. QED
  BY <1>2 DEF Held

(* So all of them, by the least counterexample.                            *)
LEMMA AllHeld ==
  ASSUME initial \in Mems, NEW s \in Seq(LegalDescs), \A k \in 1 .. Len(s) : Agreed(s[k])
  PROVE  Held(s, Len(s))
<1> DEFINE S == {n \in 0 .. Len(s) : ~Held(s, n)}
<1>1. Len(s) \in Nat
  OBVIOUS
<1>2. S = {}
  <2> SUFFICES ASSUME S # {} PROVE FALSE
    OBVIOUS
  <2>1. S \in SUBSET Nat
    BY <1>1
  <2>2. PICK c \in S : \A n \in S : c <= n
    <3> HIDE DEF S
    <3>1. QED
      BY <2>1, Smallest
  <2>3. Held(s, 0)
    <3>1. Runs(initial, s)[0] = initial
      BY <1>1, RunsAre
    <3>2. \A j \in 1 .. 0 : FALSE
      OBVIOUS
    <3>3. QED
      BY <3>1, <3>2 DEF Held
  <2>4. c \in 0 .. Len(s) /\ ~Held(s, c)
    BY <2>2
  <2>5. c # 0
    BY <2>3, <2>4
  <2>6. c \in 1 .. Len(s) /\ c - 1 \in 0 .. Len(s) /\ ~(c <= c - 1)
    BY <1>1, <2>4, <2>5
  <2>7. Held(s, c - 1)
    BY <2>2, <2>6
  <2>8. QED
    BY <2>4, <2>6, <2>7, OneHeld
<1>3. QED
  BY <1>1, <1>2

(* PASS of host_runner.py: every destination holds the software model's    *)
(* words.                                                                  *)
LEMMA PassIsRight ==
  ASSUME ModelInv, RunnerInv, RingUntouched, tool = "host_runner", verdict = "pass", Csr!is_enabled(regs)
  PROVE  \A k \in DOMAIN posted : \A p \in Destination(k) : board[p[1]][p[2]] = Golden(p)
<1>1. /\ pc = "done" /\ phase = "end" /\ Walked /\ Judged(Len(transfers))
  BY DEF RunnerInv
<1>2. /\ posted \in Seq(Posts) /\ PostedDescs \in Seq(LegalDescs) /\ Len(PostedDescs) = Len(posted)
      /\ \A k \in 1 .. Len(posted) : PostedDescs[k] = posted[k].desc
      /\ initial \in Mems /\ Memories = Runs(initial, PostedDescs)[Len(posted)]
  BY <1>1, GoldenEnds DEF ModelInv
<1>3. Len(posted) \in Nat /\ DOMAIN posted = 1 .. Len(posted)
  BY <1>2
<1>4. /\ Len(transfers) = Len(posted)
      /\ \A k \in 1 .. Len(posted) : transfers[k] = Expectation(PostedDescs[k])
  BY <1>1, <1>2 DEF Walked
<1>5. ASSUME NEW k \in 1 .. Len(PostedDescs)
      PROVE  Agreed(PostedDescs[k])
  <2>1. PostedDescs[k] \in LegalDescs
    BY <1>2
  <2>2. Beats(transfers[k].desc) = 0 \/ Intact(transfers[k])
    BY <1>1, <1>2, <1>4 DEF Judged
  <2>3. transfers[k] = Expectation(PostedDescs[k])
    BY <1>2, <1>4
  <2>4. QED
    BY <2>1, <2>2, <2>3, IntactAgrees
<1>6. Held(PostedDescs, Len(PostedDescs))
  BY <1>2, <1>5, AllHeld
<1>7. ASSUME NEW k \in DOMAIN posted, NEW p \in Destination(k)
      PROVE  board[p[1]][p[2]] = Golden(p)
  <2> DEFINE d == posted[k].desc
             r == p[1]
             a == p[2]
  <2>1. Destination(k) = {DestinationOf(d)} \X Into(d)
    BY DEF Destination, Place, Into
  <2>2. r = DestinationOf(d) /\ a \in Into(d) /\ p = <<r, a>>
    BY <2>1
  <2>3. k \in 1 .. Len(posted) /\ PostedDescs[k] = d /\ d \in LegalDescs
    BY <1>2, <1>3
  <2>4. r \in Regions /\ a \in 0 .. Size(r) - 1
    BY <2>2, <2>3, Ranges
  <2>5. Writes(PostedDescs[k], r, a)
    BY <2>2, <2>3 DEF Writes
  <2> HIDE DEF r, a, d
  <2>6. At(Runs(initial, PostedDescs)[Len(posted)], r, a) = board[r][a]
    BY <1>2, <1>6, <2>3, <2>4, <2>5 DEF Held
  <2>7. At(Memories, r, a) = Golden(<<r, a>>)
    BY <2>4 DEF At, Memories, Golden, Regions
  <2>8. board[r][a] = Golden(p)
    BY <1>2, <2>2, <2>6, <2>7
  <2>9. QED
    BY <2>8 DEF r, a
<1>8. QED
  BY <1>7

(* In the beginning no tool runs and nothing is sent.                      *)
LEMMA RunnerInit == vInit => AlignInv /\ HomeInv /\ RunnerInv
<1> SUFFICES ASSUME vInit PROVE AlignInv /\ HomeInv /\ RunnerInv
  OBVIOUS
<1>1. AlignInv
  <2>1. regs.BASEADDR = 0 /\ stim = <<>> /\ posted = <<>>
    BY DEF vInit, Init, Csr!PowerUp
  <2>2. QED
    BY <2>1 DEF AlignInv
<1>2. HomeInv /\ RunnerInv
  BY DEF vInit, HomeInv, RunnerInv
<1>3. QED
  BY <1>1, <1>2

(* host_runner.py is sound: when it reports PASS, every destination of the *)
(* board holds what the software model computed, whatever the board held   *)
(* before and whatever its engine did.  Only enqueue may have written the  *)
(* ring, because the tool walks it in what was sent; and the addresses in  *)
(* the rows are aligned, because it looks words up by their byte address.  *)
THEOREM RunnerPassIsSound ==
  ASSUME AlignedRows
  PROVE  vSpec => [](RingUntouched => RunnerPassIsRight)
<1>1. ModelInv /\ AlignInv /\ [vNext]_verifyVars => AlignInv'
  BY ToolsWatch, AlignStep DEF ModelInv, ExecutedInv, PostedInv
<1>2. ModelInv /\ RunnerInv => (RingUntouched => RunnerPassIsRight)
  BY PassIsRight DEF RunnerPassIsRight
<1>3. QED
  BY <1>1, <1>2, ModelInit, ModelStep, HomeStep, RunnerInit, RunnerStep, PTL DEF vSpec
-----------------------------------------------------------------------------
(* Two boards with the same words and the same descriptors.                *)
Alike(m1, m2) == \A r \in Regions : \A a \in 0 .. Size(r) - 1 : At(m1, r, a) = At(m2, r, a)

(* The same descriptors keep them alike, by the least counterexample.      *)
LEMMA RunsAlike ==
  ASSUME NEW m1 \in Holders, NEW m2 \in Holders, NEW s \in Seq(LegalDescs), Alike(m1, m2)
  PROVE  Alike(Runs(m1, s)[Len(s)], Runs(m2, s)[Len(s)])
<1> DEFINE S == {n \in 0 .. Len(s) : ~Alike(Runs(m1, s)[n], Runs(m2, s)[n])}
<1>1. /\ Len(s) \in Nat /\ \A k \in 1 .. Len(s) : s[k] \in LegalDescs
      /\ Runs(m1, s)[0] = m1 /\ Runs(m2, s)[0] = m2
  BY RunsAre
<1>2. S = {}
  <2> SUFFICES ASSUME S # {} PROVE FALSE
    OBVIOUS
  <2>1. S \in SUBSET Nat
    BY <1>1
  <2>2. PICK c \in S : \A n \in S : c <= n
    <3> HIDE DEF S
    <3>1. QED
      BY <2>1, Smallest
  <2>3. c \in 0 .. Len(s) /\ ~Alike(Runs(m1, s)[c], Runs(m2, s)[c]) /\ c # 0
    BY <1>1, <2>2
  <2>4. c \in 1 .. Len(s) /\ c - 1 \in 0 .. Len(s) /\ c - 1 \notin S
    BY <1>1, <2>2, <2>3
  <2>5. Alike(Runs(m1, s)[c - 1], Runs(m2, s)[c - 1])
    BY <2>4
  <2>6. ASSUME NEW r \in Regions, NEW a \in 0 .. Size(r) - 1
        PROVE  At(Runs(m1, s)[c], r, a) = At(Runs(m2, s)[c], r, a)
    <3> DEFINE q == SourceOf(s[c])
               b == Origin(s[c], a)
    <3>1. /\ At(Runs(m1, s)[c], r, a) =
               IF Writes(s[c], r, a) THEN At(Runs(m1, s)[c - 1], q, b) ELSE At(Runs(m1, s)[c - 1], r, a)
          /\ At(Runs(m2, s)[c], r, a) =
               IF Writes(s[c], r, a) THEN At(Runs(m2, s)[c - 1], q, b) ELSE At(Runs(m2, s)[c - 1], r, a)
      BY <2>4, RunsNext
    <3>2. Writes(s[c], r, a) => q \in Regions /\ b \in 0 .. Size(q) - 1
      <4>1. s[c] \in LegalDescs
        BY <1>1, <2>4
      <4>2. QED
        BY <4>1, Ranges DEF Writes
    <3> HIDE DEF q, b
    <3>3. QED
      BY <2>5, <3>1, <3>2 DEF Alike
  <2>7. QED
    BY <2>3, <2>6 DEF Alike
<1>3. Len(s) \in 0 .. Len(s) /\ Len(s) \notin S
  BY <1>1, <1>2
<1>4. QED
  BY <1>3

(* Functions are equal when they are at every point.                       *)
LEMMA SamePoints ==
  ASSUME NEW X, NEW f \in [X -> Nat], NEW g \in [X -> Nat]
  PROVE  f = g <=> \A x \in X : f[x] = g[x]
OBVIOUS

(* Alike memories are equal, memory by memory.                             *)
LEMMA AlikeSame ==
  ASSUME NEW m1 \in Holders, NEW m2 \in Holders
  PROVE  Alike(m1, m2) <=> m1.smem = m2.smem /\ m1.sram = m2.sram
<1>1. /\ m1.smem \in [0 .. SMEM_WORDS - 1 -> Nat] /\ m2.smem \in [0 .. SMEM_WORDS - 1 -> Nat]
      /\ m1.sram \in [0 .. BRAM_SIZE - 1 -> Nat] /\ m2.sram \in [0 .. BRAM_SIZE - 1 -> Nat]
  BY DEF Holders, Mems, BoardStates
<1>2. m1.smem = m2.smem <=> \A a \in 0 .. SMEM_WORDS - 1 : m1.smem[a] = m2.smem[a]
  <2> DEFINE X == 0 .. SMEM_WORDS - 1
             f == m1.smem
             g == m2.smem
  <2>1. f \in [X -> Nat] /\ g \in [X -> Nat]
    BY <1>1
  <2> HIDE DEF X, f, g
  <2>2. f = g <=> \A a \in X : f[a] = g[a]
    BY <2>1, SamePoints
  <2>3. QED
    BY <2>2 DEF X, f, g
<1>3. m1.sram = m2.sram <=> \A a \in 0 .. BRAM_SIZE - 1 : m1.sram[a] = m2.sram[a]
  <2> DEFINE X == 0 .. BRAM_SIZE - 1
             f == m1.sram
             g == m2.sram
  <2>1. f \in [X -> Nat] /\ g \in [X -> Nat]
    BY <1>1
  <2> HIDE DEF X, f, g
  <2>2. f = g <=> \A a \in X : f[a] = g[a]
    BY <2>1, SamePoints
  <2>3. QED
    BY <2>2 DEF X, f, g
<1>4. Alike(m1, m2) <=> /\ \A a \in 0 .. SMEM_WORDS - 1 : m1.smem[a] = m2.smem[a]
                        /\ \A a \in 0 .. BRAM_SIZE - 1 : m1.sram[a] = m2.sram[a]
  BY DEF Alike, At, Size, Regions
<1>5. QED
  BY <1>2, <1>3, <1>4

(* A sequence without its element k.                                       *)
LEMMA Removed ==
  ASSUME NEW D, NEW s \in Seq(D), NEW k \in 1 .. Len(s)
  PROVE  /\ RemoveAt(s, k) \in Seq(D) /\ Len(RemoveAt(s, k)) = Len(s) - 1
         /\ \A i \in 1 .. k - 1 : RemoveAt(s, k)[i] = s[i]
         /\ \A i \in k .. Len(s) - 1 : RemoveAt(s, k)[i] = s[i + 1]
<1> DEFINE u == SubSeq(s, 1, k - 1)
           v == SubSeq(s, k + 1, Len(s))
           n == Len(s)
<1>1. n \in Nat /\ k \in Nat /\ k > 0 /\ k <= n /\ \A i \in 1 .. n : s[i] \in D
  OBVIOUS
<1>2. /\ u \in Seq(D) /\ Len(u) = k - 1 /\ \A i \in 1 .. k - 1 : u[i] = s[i]
  <2>1. 1 \in Int /\ k - 1 \in Int /\ \A i \in 1 .. k - 1 : s[i] \in D
    BY <1>1
  <2>2. /\ SubSeq(s, 1, k - 1) \in Seq(D)
        /\ Len(SubSeq(s, 1, k - 1)) = IF 1 <= k - 1 THEN (k - 1) - 1 + 1 ELSE 0
        /\ \A i \in 1 .. (k - 1) - 1 + 1 : SubSeq(s, 1, k - 1)[i] = s[1 + i - 1]
    BY <2>1, SubSeqProperties
  <2>3. (k - 1) - 1 + 1 = k - 1 /\ \A i \in 1 .. k - 1 : 1 + i - 1 = i
    BY <1>1
  <2> HIDE DEF u
  <2>4. QED
    BY <1>1, <2>2, <2>3 DEF u
<1>3. /\ v \in Seq(D) /\ Len(v) = n - k /\ \A i \in 1 .. n - k : v[i] = s[k + i]
  <2>1. k + 1 \in Int /\ n \in Int /\ \A i \in k + 1 .. n : s[i] \in D
    BY <1>1
  <2>2. /\ SubSeq(s, k + 1, n) \in Seq(D)
        /\ Len(SubSeq(s, k + 1, n)) = IF k + 1 <= n THEN n - (k + 1) + 1 ELSE 0
        /\ \A i \in 1 .. n - (k + 1) + 1 : SubSeq(s, k + 1, n)[i] = s[(k + 1) + i - 1]
    BY <2>1, SubSeqProperties
  <2>3. /\ n - (k + 1) + 1 = n - k /\ \A i \in 1 .. n - k : (k + 1) + i - 1 = k + i
        /\ n - k = IF k + 1 <= n THEN n - k ELSE 0
    BY <1>1
  <2> HIDE DEF n, v
  <2>4. v = SubSeq(s, k + 1, n)
    BY DEF v, n
  <2> DEFINE w == SubSeq(s, k + 1, n)
  <2>5. w \in Seq(D) /\ Len(w) = n - k /\ \A i \in 1 .. n - k : w[i] = s[(k + 1) + i - 1]
    BY <2>2, <2>3
  <2> HIDE DEF w
  <2>6. w \in Seq(D) /\ Len(w) = n - k /\ \A i \in 1 .. n - k : w[i] = s[k + i]
    BY <2>3, <2>5
  <2>7. QED
    BY <2>4, <2>6 DEF w
<1>4. RemoveAt(s, k) = u \o v
  BY DEF RemoveAt
<1> HIDE DEF u, v, n
<1>5. /\ u \o v \in Seq(D) /\ Len(u \o v) = (k - 1) + (n - k)
      /\ \A i \in 1 .. (k - 1) + (n - k) : (u \o v)[i] = IF i <= k - 1 THEN u[i] ELSE v[i - (k - 1)]
  BY <1>2, <1>3, ConcatProperties
<1>6. (k - 1) + (n - k) = n - 1
  BY <1>1
<1>7. ASSUME NEW i \in 1 .. k - 1
      PROVE  (u \o v)[i] = s[i]
  <2>1. i \in 1 .. n - 1 /\ i <= k - 1
    BY <1>1
  <2>2. QED
    BY <1>2, <1>5, <1>6, <2>1
<1>8. ASSUME NEW i \in k .. n - 1
      PROVE  (u \o v)[i] = s[i + 1]
  <2>1. i \in 1 .. n - 1 /\ ~(i <= k - 1) /\ i - (k - 1) \in 1 .. n - k /\ k + (i - (k - 1)) = i + 1
    BY <1>1
  <2>2. QED
    BY <1>3, <1>5, <1>6, <2>1
<1>9. QED
  BY <1>4, <1>5, <1>6, <1>7, <1>8 DEF n
-----------------------------------------------------------------------------
(* When all descriptors go to SRAM, system memory stays as it is, and a    *)
(* word of SRAM is what its only writer found there, or what it was.       *)
LEMMA Uploads ==
  ASSUME NEW m \in Holders, NEW s \in Seq(LegalDescs), \A k \in 1 .. Len(s) : ToSram(s[k])
  PROVE  LET final == Runs(m, s)[Len(s)]
         IN  /\ \A b \in 0 .. SMEM_WORDS - 1 : At(final, "smem", b) = At(m, "smem", b)
             /\ \A a \in 0 .. BRAM_SIZE - 1 :
                  (\A k \in 1 .. Len(s) : a \notin Into(s[k])) => At(final, "sram", a) = At(m, "sram", a)
             /\ \A k \in 1 .. Len(s) : \A a \in Into(s[k]) :
                  (\A j \in k + 1 .. Len(s) : a \notin Into(s[j])) =>
                    At(final, "sram", a) = At(m, "smem", Origin(s[k], a))
<1> DEFINE final == Runs(m, s)[Len(s)]
<1>1. /\ Len(s) \in Nat /\ 0 \in 0 .. Len(s) /\ Len(s) \in 0 .. Len(s)
      /\ Runs(m, s)[0] = m /\ 0 + 1 = 1
  BY RunsAre
<1>2. \A k \in 1 .. Len(s) : SourceOf(s[k]) = "smem" /\ DestinationOf(s[k]) = "sram"
  BY DEF SourceOf, DestinationOf
<1>3. "smem" \in Regions /\ "sram" \in Regions /\ Size("smem") = SMEM_WORDS /\ Size("sram") = BRAM_SIZE
  BY DEF Regions, Size
<1>4. ASSUME NEW b \in 0 .. SMEM_WORDS - 1
      PROVE  At(final, "smem", b) = At(m, "smem", b)
  <2>1. \A j \in 0 + 1 .. Len(s) : ~Writes(s[j], "smem", b)
    BY <1>1, <1>2 DEF Writes
  <2>2. At(Runs(m, s)[Len(s)], "smem", b) = At(Runs(m, s)[0], "smem", b)
    BY <1>1, <1>3, <2>1, Stays
  <2>3. QED
    BY <1>1, <2>2
<1>5. ASSUME NEW a \in 0 .. BRAM_SIZE - 1, \A k \in 1 .. Len(s) : a \notin Into(s[k])
      PROVE  At(final, "sram", a) = At(m, "sram", a)
  <2>1. \A j \in 0 + 1 .. Len(s) : ~Writes(s[j], "sram", a)
    BY <1>1, <1>5 DEF Writes
  <2>2. At(Runs(m, s)[Len(s)], "sram", a) = At(Runs(m, s)[0], "sram", a)
    BY <1>1, <1>3, <2>1, Stays
  <2>3. QED
    BY <1>1, <2>2
<1>6. ASSUME NEW k \in 1 .. Len(s), NEW a \in Into(s[k]), \A j \in k + 1 .. Len(s) : a \notin Into(s[j])
      PROVE  At(final, "sram", a) = At(m, "smem", Origin(s[k], a))
  <2>1. \A j \in k + 1 .. Len(s) : ~Writes(s[j], DestinationOf(s[k]), a)
    BY <1>6 DEF Writes
  <2>2. \A j \in 1 .. k - 1 : ~Writes(s[j], SourceOf(s[k]), Origin(s[k], a))
    <3>1. \A j \in 1 .. k - 1 : j \in 1 .. Len(s)
      BY <1>1
    <3>2. QED
      BY <1>2, <3>1 DEF Writes
  <2>3. (\A j \in 1 .. k - 1 : ~Writes(s[j], SourceOf(s[k]), Origin(s[k], a))) =>
          At(Runs(m, s)[Len(s)], DestinationOf(s[k]), a) = At(m, SourceOf(s[k]), Origin(s[k], a))
    BY <2>1, Moves
  <2>4. QED
    BY <1>2, <2>2, <2>3
<1>7. QED
  BY <1>4, <1>5, <1>6

(* No word is written twice.                                               *)
OnceWritten(s) == \A j, k \in 1 .. Len(s) : j # k => Into(s[j]) \cap Into(s[k]) = {}

(* A word of SRAM that shows that descriptor l is missing is one that the  *)
(* complete run changes.                                                   *)
LEMMA LostShows ==
  ASSUME NEW m \in Holders, NEW s \in Seq(LegalDescs), \A k \in 1 .. Len(s) : ToSram(s[k]),
         OnceWritten(s), NEW l \in 1 .. Len(s), NEW a \in 0 .. BRAM_SIZE - 1,
         At(Runs(m, RemoveAt(s, l))[Len(s) - 1], "sram", a) # At(Runs(m, s)[Len(s)], "sram", a)
  PROVE  At(Runs(m, s)[Len(s)], "sram", a) # At(m, "sram", a)
<1> DEFINE u == RemoveAt(s, l)
           n == Len(s)
<1>1. /\ n \in Nat /\ l \in Nat /\ u \in Seq(LegalDescs) /\ Len(u) = n - 1
      /\ \A i \in 1 .. l - 1 : u[i] = s[i]
      /\ \A i \in l .. n - 1 : u[i] = s[i + 1]
  BY Removed
<1> HIDE DEF u
<1>2. \A i \in 1 .. n - 1 : \E k \in 1 .. n : k # l /\ u[i] = s[k]
  <2> SUFFICES ASSUME NEW i \in 1 .. n - 1 PROVE \E k \in 1 .. n : k # l /\ u[i] = s[k]
    OBVIOUS
  <2>1. CASE i < l
    <3>1. i \in 1 .. l - 1 /\ i \in 1 .. n /\ i # l
      BY <1>1, <2>1
    <3>2. QED
      BY <1>1, <3>1
  <2>2. CASE ~(i < l)
    <3>1. i \in l .. n - 1 /\ i + 1 \in 1 .. n /\ i + 1 # l
      BY <1>1, <2>2
    <3>2. QED
      BY <1>1, <3>1
  <2>3. QED
    BY <2>1, <2>2
<1>3. \A k \in 1 .. Len(u) : ToSram(u[k])
  BY <1>1, <1>2
<1>4. CASE \A k \in 1 .. n : k # l => a \notin Into(s[k])
  <2>1. \A i \in 1 .. Len(u) : a \notin Into(u[i])
    BY <1>1, <1>2, <1>4
  <2>2. At(Runs(m, u)[Len(u)], "sram", a) = At(m, "sram", a)
    BY <1>1, <1>3, <2>1, Uploads
  <2>3. QED
    BY <1>1, <2>2 DEF u
<1>5. CASE \E k \in 1 .. n : k # l /\ a \in Into(s[k])
  <2>1. PICK k \in 1 .. n : k # l /\ a \in Into(s[k])
    BY <1>5
  <2>2. \A j \in 1 .. n : j # k => a \notin Into(s[j])
    BY <2>1 DEF OnceWritten
  <2>3. At(Runs(m, s)[Len(s)], "sram", a) = At(m, "smem", Origin(s[k], a))
    <3>1. \A j \in k + 1 .. Len(s) : j \in 1 .. n /\ j # k
      BY <1>1
    <3>2. \A j \in k + 1 .. Len(s) : a \notin Into(s[j])
      BY <2>2, <3>1
    <3>3. QED
      BY <2>1, <3>2, Uploads
  <2>4. PICK i \in 1 .. n - 1 : u[i] = s[k] /\ (i < l => i = k) /\ (~(i < l) => i + 1 = k)
    <3>1. CASE k < l
      <4>1. k \in 1 .. l - 1 /\ k \in 1 .. n - 1
        BY <1>1, <3>1
      <4>2. QED
        BY <1>1, <3>1, <4>1
    <3>2. CASE l < k
      <4>1. k - 1 \in l .. n - 1 /\ k - 1 \in 1 .. n - 1 /\ (k - 1) + 1 = k /\ ~(k - 1 < l)
        BY <1>1, <3>2
      <4>2. u[k - 1] = s[k]
        BY <1>1, <4>1
      <4>3. QED
        BY <4>1, <4>2
    <3>3. QED
      BY <1>1, <2>1, <3>1, <3>2
  <2>5. \A j \in i + 1 .. Len(u) : a \notin Into(u[j])
    <3> SUFFICES ASSUME NEW j \in i + 1 .. Len(u) PROVE a \notin Into(u[j])
      OBVIOUS
    <3>1. CASE j < l
      <4>1. j \in 1 .. l - 1 /\ j \in 1 .. n /\ j # k
        BY <1>1, <2>4, <3>1
      <4>2. QED
        BY <1>1, <2>2, <4>1
    <3>2. CASE ~(j < l)
      <4>1. j \in l .. n - 1 /\ j + 1 \in 1 .. n /\ j + 1 # k
        BY <1>1, <2>4, <3>2
      <4>2. u[j] = s[j + 1]
        BY <1>1, <4>1
      <4>3. QED
        BY <2>2, <4>1, <4>2
    <3>3. QED
      BY <3>1, <3>2
  <2>6. At(Runs(m, u)[Len(u)], "sram", a) = At(m, "smem", Origin(s[k], a))
    <3>1. i \in 1 .. Len(u) /\ a \in Into(u[i])
      BY <1>1, <2>1, <2>4
    <3>2. At(Runs(m, u)[Len(u)], "sram", a) = At(m, "smem", Origin(u[i], a))
      BY <1>1, <1>3, <2>5, <3>1, Uploads
    <3>3. QED
      BY <2>4, <3>2
  <2>7. QED
    BY <1>1, <2>3, <2>6 DEF u
<1>6. QED
  BY <1>4, <1>5
-----------------------------------------------------------------------------
(* stim.txt has a line for every word of every slot that was posted.       *)
SlotsInv ==
  \A k \in 1 .. Len(posted) : \A w \in 0 .. DESC_WORDS - 1 :
    \E i \in 1 .. Len(stim) : stim[i].op = "sysmem_write" /\ stim[i].addr \div 4 = posted[k].slot + w

(* Lines that are added take nothing away.                                 *)
LEMMA SlotsKeep ==
  ASSUME GoldenInv, SlotsInv, posted' = posted, NEW l,
         stim' = stim \/ stim' = Append(stim, l)
  PROVE  SlotsInv'
<1>1. stim \in Seq(Lines)
  BY DEF GoldenInv, RingInv
<1>2. \A i \in 1 .. Len(stim) : i \in 1 .. Len(stim') /\ stim'[i] = stim[i]
  BY <1>1
<1>3. QED
  BY <1>2 DEF SlotsInv

(* A descriptor row adds the four lines of its slot.                       *)
LEMMA SlotsPost ==
  ASSUME GoldenInv, SlotsInv, RowDesc, pc' # "raised"
  PROVE  SlotsInv'
<1> DEFINE d == Head(rows).desc
           slot == SlotAddress(regs.TAIL)
           new == DescriptorLines(slot, d, regs'.TAIL)
<1>1. /\ stim \in Seq(Lines) /\ posted \in Seq(Posts) /\ regs \in Registers
  BY DEF GoldenInv, DrainInv, Stored, RingInv
<1>2. /\ ~EnqueueFails(slot) /\ stim' = stim \o new
      /\ posted' = Append(posted, [desc |-> d, slot |-> slot \div 4])
  BY DEF RowDesc, Enqueue, Raise
<1>3. slot \in Nat
  <2>1. regs.RINGLEN \in Nat /\ regs.RINGLEN > 0 /\ regs.BASEADDR \in Nat /\ regs.TAIL \in Nat
    BY <1>1, <1>2 DEF EnqueueFails, Registers
  <2>2. regs.TAIL % regs.RINGLEN \in Nat
    BY <2>1
  <2>3. QED
    BY <2>1, <2>2 DEF SlotAddress, DESCRIPTOR_SIZE_BYTES
<1> HIDE DEF slot
<1>4. /\ Len(new) = 5
      /\ \A w \in 0 .. DESC_WORDS - 1 :
           new[w + 1].op = "sysmem_write" /\ new[w + 1].addr = slot + 4 * w
  BY DEF DescriptorLines, Line, DESC_WORDS
<1>5. \E S : stim \in Seq(S) /\ new \in Seq(S)
  <2> DEFINE L(i) == Line("sysmem_write", slot + 4 * (i - 1), d[i])
             last == Line("csr_write", "TAIL", regs'.TAIL)
             S == Lines \cup {L(i) : i \in 1 .. 4} \cup {last}
             words == [i \in 1 .. 4 |-> L(i)]
             end == <<last>>
  <2>1. new = words \o end
    BY DEF DescriptorLines, DESC_WORDS
  <2>2. Lines \subseteq S /\ last \in S /\ \A i \in 1 .. 4 : L(i) \in S
    OBVIOUS
  <2> HIDE DEF L, last, S
  <2>3. words \in Seq(S) /\ end \in Seq(S)
    BY <2>2
  <2>4. stim \in Seq(S)
    BY <1>1, <2>2
  <2> HIDE DEF words, end, new
  <2>5. QED
    BY <2>1, <2>3, <2>4, ConcatProperties
<1> HIDE DEF new
<1>6. ASSUME NEW w \in 0 .. DESC_WORDS - 1
      PROVE  \E i \in 1 .. Len(stim') :
               stim'[i].op = "sysmem_write" /\ stim'[i].addr \div 4 = (slot \div 4) + w
  <2> DEFINE i == Len(stim) + (w + 1)
  <2>1. w \in Nat /\ i \in 1 .. Len(stim) + 5 /\ i > Len(stim) /\ i - Len(stim) = w + 1
    BY <1>1 DEF DESC_WORDS
  <2>2. Len(stim') = Len(stim) + 5 /\ stim'[i] = new[w + 1]
    <3> HIDE DEF i
    <3>1. PICK S : stim \in Seq(S) /\ new \in Seq(S)
      BY <1>5
    <3>2. /\ Len(stim \o new) = Len(stim) + Len(new)
          /\ \A j \in 1 .. Len(stim) + Len(new) :
               (stim \o new)[j] = IF j <= Len(stim) THEN stim[j] ELSE new[j - Len(stim)]
      BY <3>1, ConcatProperties
    <3>3. Len(stim) \in Nat /\ i \in 1 .. Len(stim) + Len(new) /\ ~(i <= Len(stim))
      BY <1>1, <1>4, <2>1
    <3>4. QED
      BY <1>2, <1>4, <2>1, <3>2, <3>3
  <2>3. \A x \in Nat, y \in Nat : (x + 4 * y) \div 4 = (x \div 4) + y
    OBVIOUS
  <2>4. stim'[i].op = "sysmem_write" /\ stim'[i].addr \div 4 = (slot \div 4) + w
    BY <1>3, <1>4, <2>1, <2>2, <2>3
  <2>5. QED
    BY <2>1, <2>2, <2>4
<1>7. \A i \in 1 .. Len(stim) : i \in 1 .. Len(stim') /\ stim'[i] = stim[i]
  BY <1>1, <1>2, <1>4
<1>8. ASSUME NEW k \in 1 .. Len(posted'), NEW w \in 0 .. DESC_WORDS - 1
      PROVE  \E i \in 1 .. Len(stim') :
               stim'[i].op = "sysmem_write" /\ stim'[i].addr \div 4 = posted'[k].slot + w
  <2>1. CASE k \in 1 .. Len(posted)
    <3>1. posted'[k] = posted[k]
      BY <1>1, <1>2, <2>1
    <3>2. QED
      BY <1>7, <2>1, <3>1 DEF SlotsInv
  <2>2. CASE k = Len(posted) + 1
    <3>1. posted'[k].slot = slot \div 4
      BY <1>1, <1>2, <2>2
    <3>2. QED
      BY <1>6, <3>1
  <2>3. k \in 1 .. Len(posted) \/ k = Len(posted) + 1
    BY <1>1, <1>2
  <2>4. QED
    BY <2>1, <2>2, <2>3
<1>9. QED
  BY <1>8 DEF SlotsInv

(* No step takes a line away.                                              *)
LEMMA SlotsStep == GoldenInv /\ SlotsInv /\ [Next]_goldenVars => SlotsInv'
<1> SUFFICES ASSUME GoldenInv, SlotsInv, [Next]_goldenVars PROVE SlotsInv'
  OBVIOUS
<1>1. ASSUME NEW where, Raise(where) PROVE SlotsInv'
  <2>1. UNCHANGED <<stim, posted>>
    BY <1>1 DEF Raise, results
  <2>2. QED
    BY <2>1, SlotsKeep
<1>2. CASE (RowSmem \/ RowSram \/ RowCsr("csr_baseaddr", "BASEADDR") \/ RowCsr("csr_ringlen", "RINGLEN"))
           /\ ~\E where : Raise(where)
  <2>1. posted' = posted /\ \E l : stim' = Append(stim, l)
    BY <1>2 DEF RowSmem, RowSram, RowCsr
  <2>2. QED
    BY <2>1, SlotsKeep
<1>3. CASE RowDesc /\ ~\E where : Raise(where)
  <2>1. pc' # "raised"
    BY <1>3 DEF RowDesc, Row
  <2>2. QED
    BY <1>3, <2>1, SlotsPost
<1>4. CASE RowEnable \/ RowUnknown \/ EndOfRows
  <2>1. stim' = stim /\ posted' = posted
    BY <1>4 DEF RowEnable, RowUnknown, EndOfRows, Raise, results
  <2>2. QED
    BY <2>1, SlotsKeep
<1>5. CASE EventLoop /\ ~\E where : Raise(where)
  <2>1. stim' = stim /\ posted' = posted
    BY <1>5 DEF EventLoop, Iterate, DescriptorFetch, Decode, AxiMove, SramMove, Complete, results
  <2>2. QED
    BY <2>1, SlotsKeep
<1>6. CASE UNCHANGED goldenVars
  BY <1>6, SlotsKeep DEF goldenVars, results
<1>7. QED
  BY <1>1, <1>2, <1>3, <1>4, <1>5, <1>6 DEF Next, Setup, Finished

(* Without ENABLE the loop does not run.                                   *)
IdleInv ==
  /\ pc \in {"loop", "fetch", "move"} => Csr!is_enabled(regs)
  /\ pc = "done" /\ ~Csr!is_enabled(regs) => Memories = initial

(* Only EndOfRows starts the loop, and no step clears ENABLE.              *)
LEMMA IdleStep == GoldenInv /\ IdleInv /\ [Next]_goldenVars => IdleInv'
<1> SUFFICES ASSUME GoldenInv, IdleInv, [Next]_goldenVars PROVE IdleInv'
  OBVIOUS
<1>0. regs \in Registers
  BY DEF GoldenInv, DrainInv, Stored
<1>1. ASSUME NEW where, Raise(where) PROVE IdleInv'
  BY <1>1 DEF Raise, IdleInv
<1>2. CASE (RowSmem \/ RowSram \/ RowCsr("csr_baseaddr", "BASEADDR") \/ RowCsr("csr_ringlen", "RINGLEN")
            \/ RowDesc \/ RowEnable) /\ ~\E where : Raise(where)
  <2>1. pc' = "setup"
    BY <1>2 DEF RowSmem, RowSram, RowCsr, RowDesc, RowEnable, Row
  <2>2. QED
    BY <2>1 DEF IdleInv
<1>3. CASE RowUnknown
  BY <1>1, <1>3 DEF RowUnknown
<1>4. CASE EndOfRows
  BY <1>4 DEF EndOfRows, IdleInv, memories, Memories, Csr!is_enabled
<1>5. CASE EventLoop /\ ~\E where : Raise(where)
  <2>1. pc \in {"loop", "fetch", "move"}
    BY <1>5 DEF EventLoop, Iterate, DescriptorFetch, Decode, AxiMove, SramMove, Complete
  <2>2. regs' = regs \/ regs' = Csr!hw_set_head(regs, NextHead)
    BY <1>5 DEF EventLoop, Iterate, DescriptorFetch, Decode, AxiMove, SramMove, Complete, memories
  <2>3. regs'.CTRL = regs.CTRL
    BY <1>0, <2>2 DEF Csr!hw_set_head, Registers
  <2>4. QED
    BY <2>1, <2>3 DEF IdleInv, Csr!is_enabled
<1>6. CASE UNCHANGED goldenVars
  BY <1>6 DEF goldenVars, results, memories, IdleInv, Memories, Csr!is_enabled
<1>7. QED
  BY <1>1, <1>2, <1>3, <1>4, <1>5, <1>6 DEF Next, Setup, Finished
-----------------------------------------------------------------------------
(* Loading a board that is not all zero.  A line does the same to every    *)
(* board, so a word of the board that is loaded is that of the blank board *)
(* of StimReplays, or no line named it and it is what it was.              *)
OpOf(r) == IF r = "sram" THEN "sram_write" ELSE "sysmem_write"

Shape(b) ==
  /\ b = [smem |-> b.smem, sram |-> b.sram, regs |-> b.regs]
  /\ b.smem = [a \in 0 .. SMEM_WORDS - 1 |-> b.smem[a]]
  /\ b.sram = [a \in 0 .. BRAM_SIZE - 1 |-> b.sram[a]]

(* One line on two boards with equal registers.                            *)
LEMMA SameLine ==
  ASSUME NEW b, NEW c, Shape(b), Shape(c), b.regs = c.regs, NEW l \in Lines
  PROVE  /\ Shape(Replay(b, l)) /\ Shape(Replay(c, l)) /\ Replay(b, l).regs = Replay(c, l).regs
         /\ \A r \in Regions : \A a \in 0 .. Size(r) - 1 :
              \/ At(Replay(b, l), r, a) = At(Replay(c, l), r, a)
              \/ /\ At(Replay(b, l), r, a) = At(b, r, a) /\ At(Replay(c, l), r, a) = At(c, r, a)
                 /\ ~(l.op = OpOf(r) /\ l.addr \div 4 = a)
<1> DEFINE f == l.addr \div 4
           w == <<l.data>>
<1>1. Len(w) = 1
  OBVIOUS
<1> HIDE DEF w
<1>2. CASE l.op = "sysmem_write"
  <2> DEFINE x == WriteWords(b.smem, f, w)
             y == WriteWords(c.smem, f, w)
  <2>1. Replay(b, l) = [b EXCEPT !.smem = x] /\ Replay(c, l) = [c EXCEPT !.smem = y]
    BY <1>2 DEF Replay, w
  <2>2. /\ x = [a \in 0 .. SMEM_WORDS - 1 |-> x[a]] /\ y = [a \in 0 .. SMEM_WORDS - 1 |-> y[a]]
        /\ \A a \in 0 .. SMEM_WORDS - 1 : x[a] = y[a] \/ (x[a] = b.smem[a] /\ y[a] = c.smem[a] /\ f # a)
    <3> DEFINE X == 0 .. SMEM_WORDS - 1
    <3>0. DOMAIN b.smem = X /\ DOMAIN c.smem = X
      BY DEF Shape
    <3>1. \A a \in 0 .. SMEM_WORDS - 1 :
            /\ x[a] = IF a \in f .. f + Len(w) - 1 THEN w[a - f + 1] ELSE b.smem[a]
            /\ y[a] = IF a \in f .. f + Len(w) - 1 THEN w[a - f + 1] ELSE c.smem[a]
      BY <3>0 DEF WriteWords
    <3>2. x = [a \in X |-> x[a]] /\ y = [a \in X |-> y[a]]
      BY <3>0 DEF WriteWords
    <3> HIDE DEF f, x, y
    <3>3. \A a \in 0 .. SMEM_WORDS - 1 : f = a => a \in f .. f + Len(w) - 1
      BY <1>1
    <3>4. QED
      BY <3>1, <3>2, <3>3
  <2> HIDE DEF x, y, f
  <2>3. /\ Replay(b, l).smem = x /\ Replay(b, l).sram = b.sram /\ Replay(b, l).regs = b.regs
        /\ Replay(c, l).smem = y /\ Replay(c, l).sram = c.sram /\ Replay(c, l).regs = c.regs
        /\ Replay(b, l) = [smem |-> Replay(b, l).smem, sram |-> Replay(b, l).sram, regs |-> Replay(b, l).regs]
        /\ Replay(c, l) = [smem |-> Replay(c, l).smem, sram |-> Replay(c, l).sram, regs |-> Replay(c, l).regs]
    BY <2>1 DEF Shape
  <2>4. QED
    BY <1>2, <2>2, <2>3 DEF Shape, At, OpOf, Size, Regions, f
<1>3. CASE l.op = "sram_write"
  <2> DEFINE x == WriteWords(b.sram, f, w)
             y == WriteWords(c.sram, f, w)
  <2>1. Replay(b, l) = [b EXCEPT !.sram = x] /\ Replay(c, l) = [c EXCEPT !.sram = y]
    BY <1>3 DEF Replay, w
  <2>2. /\ x = [a \in 0 .. BRAM_SIZE - 1 |-> x[a]] /\ y = [a \in 0 .. BRAM_SIZE - 1 |-> y[a]]
        /\ \A a \in 0 .. BRAM_SIZE - 1 : x[a] = y[a] \/ (x[a] = b.sram[a] /\ y[a] = c.sram[a] /\ f # a)
    <3> DEFINE X == 0 .. BRAM_SIZE - 1
    <3>0. DOMAIN b.sram = X /\ DOMAIN c.sram = X
      BY DEF Shape
    <3>1. \A a \in 0 .. BRAM_SIZE - 1 :
            /\ x[a] = IF a \in f .. f + Len(w) - 1 THEN w[a - f + 1] ELSE b.sram[a]
            /\ y[a] = IF a \in f .. f + Len(w) - 1 THEN w[a - f + 1] ELSE c.sram[a]
      BY <3>0 DEF WriteWords
    <3>2. x = [a \in X |-> x[a]] /\ y = [a \in X |-> y[a]]
      BY <3>0 DEF WriteWords
    <3> HIDE DEF f, x, y
    <3>3. \A a \in 0 .. BRAM_SIZE - 1 : f = a => a \in f .. f + Len(w) - 1
      BY <1>1
    <3>4. QED
      BY <3>1, <3>2, <3>3
  <2> HIDE DEF x, y, f
  <2>3. /\ Replay(b, l).sram = x /\ Replay(b, l).smem = b.smem /\ Replay(b, l).regs = b.regs
        /\ Replay(c, l).sram = y /\ Replay(c, l).smem = c.smem /\ Replay(c, l).regs = c.regs
        /\ Replay(b, l) = [smem |-> Replay(b, l).smem, sram |-> Replay(b, l).sram, regs |-> Replay(b, l).regs]
        /\ Replay(c, l) = [smem |-> Replay(c, l).smem, sram |-> Replay(c, l).sram, regs |-> Replay(c, l).regs]
    BY <2>1 DEF Shape
  <2>4. QED
    BY <1>3, <2>2, <2>3 DEF Shape, At, OpOf, Size, Regions, f
<1>4. CASE l.op = "csr_write"
  <2> DEFINE x == Csr!Write(b.regs, l.addr, l.data)
  <2>1. Replay(b, l) = [b EXCEPT !.regs = x] /\ Replay(c, l) = [c EXCEPT !.regs = x]
    BY <1>4 DEF Replay
  <2> HIDE DEF x
  <2>2. /\ Replay(b, l).sram = b.sram /\ Replay(b, l).smem = b.smem /\ Replay(b, l).regs = x
        /\ Replay(c, l).sram = c.sram /\ Replay(c, l).smem = c.smem /\ Replay(c, l).regs = x
        /\ Replay(b, l) = [smem |-> Replay(b, l).smem, sram |-> Replay(b, l).sram, regs |-> Replay(b, l).regs]
        /\ Replay(c, l) = [smem |-> Replay(c, l).smem, sram |-> Replay(c, l).sram, regs |-> Replay(c, l).regs]
    BY <2>1 DEF Shape
  <2>3. \A r : l.op # OpOf(r)
    BY <1>4 DEF OpOf
  <2>4. QED
    BY <2>2, <2>3 DEF Shape, At
<1>5. QED
  BY <1>2, <1>3, <1>4 DEF Lines, LineOps

(* A line has named word a of memory r.                                    *)
SentTo(n, r, a) == \E i \in 1 .. n : stim[i].op = OpOf(r) /\ stim[i].addr \div 4 = a

Before(r, a) ==
  IF tool = "serial_host" THEN At(board, r, a) = At(initial, r, a) ELSE At(board, r, a) \in Stale

Loaded ==
  \A r \in Regions : \A a \in 0 .. Size(r) - 1 :
    \/ At(board, r, a) = At(Boards(stim)[Position], r, a)
    \/ ~SentTo(Position, r, a) /\ Before(r, a)

(* What host_runner.py remembers it has sent.                              *)
Remembered ==
  \A r \in Regions : \A x \in DOMAIN image[r] :
    \E i \in 1 .. Position : stim[i].op = OpOf(r) /\ stim[i].addr = x

Loading ==
  /\ Shape(board) /\ Shape(Boards(stim)[Position]) /\ board.regs = Boards(stim)[Position].regs
  /\ todo \in Seq(Lines) /\ Position \in 0 .. Len(stim)
  /\ \A i \in 1 .. Len(todo) : todo[i] = stim[Position + i]
  /\ Loaded
  /\ tool = "host_runner" => DOMAIN image = {"smem", "sram"} /\ Remembered

LoadInv ==
  tool \in {"serial_host", "host_runner"} =>
    /\ pc = "done"
    /\ phase = "clear" => tool = "serial_host" /\ Shape(board) /\ board.regs = Csr!PowerUp /\ todo = stim
    /\ phase \in {"send", "run"} => Loading
    /\ phase = "run" => todo = <<>>

(* Nothing is sent yet.                                                    *)
LEMMA LoadBegins ==
  ASSUME ModelInv, phase' = "send", todo' = stim, UNCHANGED <<stim, initial>>,
         Shape(board'), board'.regs = Csr!PowerUp,
         \A r \in Regions : \A a \in 0 .. Size(r) - 1 :
           IF tool' = "serial_host" THEN At(board', r, a) = At(initial, r, a) ELSE At(board', r, a) \in Stale,
         tool' = "host_runner" => image' = [smem |-> <<>>, sram |-> <<>>]
  PROVE  Loading'
<1>1. stim \in Seq(Lines) /\ Len(stim) \in Nat
  BY DEF ModelInv, ExecutedInv, PostedInv, GoldenInv, RingInv
<1>2. Position' = 0
  BY <1>1 DEF Position
<1>3. (Boards(stim)[Position])' = Blank /\ Shape(Blank) /\ Blank.regs = Csr!PowerUp
  <2>1. Boards(stim)[0] = Blank
    BY <1>1, BoardsAre
  <2>2. QED
    BY <1>2, <2>1 DEF Blank, Shape
<1>4. \A n, r, a : n = 0 => ~SentTo(n, r, a)'
  BY DEF SentTo
<1>5. Loaded'
  BY <1>2, <1>4 DEF Loaded, Before
<1>6. tool' = "host_runner" => DOMAIN image' = {"smem", "sram"} /\ Remembered'
  <2> SUFFICES ASSUME tool' = "host_runner" PROVE DOMAIN image' = {"smem", "sram"} /\ Remembered'
    OBVIOUS
  <2>1. DOMAIN image' = {"smem", "sram"} /\ image'.smem = <<>> /\ image'.sram = <<>>
    OBVIOUS
  <2>2. \A r \in Regions : DOMAIN image'[r] = {}
    BY <2>1 DEF Regions
  <2>3. QED
    BY <2>1, <2>2 DEF Remembered
<1>7. QED
  BY <1>1, <1>2, <1>3, <1>5, <1>6 DEF Loading, Shape

(* host_runner.py starts with the words an earlier test has left.          *)
LEMMA LoadStarts ==
  ASSUME ModelInv, HomeInv, Start
  PROVE  LoadInv'
<1> SUFFICES ASSUME tool' \in {"serial_host", "host_runner"} PROVE LoadInv'
  BY DEF LoadInv
<1>1. PICK w \in Stale :
        board' = [Blank EXCEPT !.smem = [a \in DOMAIN @ |-> w], !.sram = [a \in DOMAIN @ |-> w]]
  BY DEF Start
<1>2. /\ phase = "golden" /\ pc = "done" /\ todo' = stim /\ UNCHANGED <<pc, stim, initial, image>>
      /\ phase' = IF tool' = "serial_host" THEN "clear" ELSE "send"
  BY DEF Start, goldenVars, results
<1>3. /\ Shape(board') /\ board'.regs = Csr!PowerUp
      /\ \A r \in Regions : \A a \in 0 .. Size(r) - 1 : At(board', r, a) = w
  BY <1>1 DEF Blank, Shape, At, Size, Regions
<1>4. CASE tool' = "serial_host"
  BY <1>2, <1>3, <1>4 DEF LoadInv, Shape
<1>5. CASE tool' = "host_runner"
  <2>1. image' = [smem |-> <<>>, sram |-> <<>>]
    BY <1>2 DEF HomeInv
  <2>2. Loading'
    BY <1>2, <1>3, <1>5, <2>1, LoadBegins
  <2>3. QED
    BY <1>2, <1>5, <2>2 DEF LoadInv
<1>6. QED
  BY <1>4, <1>5

(* serial_host.py first gives every word its initial value.                *)
LEMMA LoadClears ==
  ASSUME ModelInv, LoadInv, ClearMemories, tool \in {"serial_host", "host_runner"}
  PROVE  LoadInv'
<1>1. /\ phase = "clear" /\ phase' = "send" /\ UNCHANGED <<goldenVars, tool, todo>>
      /\ board' = [board EXCEPT !.smem = initial.smem, !.sram = initial.sram]
  BY DEF ClearMemories
<1>2. /\ pc = "done" /\ tool = "serial_host" /\ Shape(board) /\ board.regs = Csr!PowerUp /\ todo = stim
  BY <1>1 DEF LoadInv
<1>3. UNCHANGED <<pc, stim, initial>>
  BY <1>1 DEF goldenVars, results
<1>4. initial.smem \in [0 .. SMEM_WORDS - 1 -> Nat] /\ initial.sram \in [0 .. BRAM_SIZE - 1 -> Nat]
  BY DEF ModelInv, ExecutedInv, ExecInv, Mems
<1>5. /\ Shape(board') /\ board'.regs = Csr!PowerUp
      /\ board'.smem = initial.smem /\ board'.sram = initial.sram
  BY <1>1, <1>2, <1>4 DEF Shape
<1>6. \A r, a : At(board', r, a) = At(initial, r, a)
  BY <1>5 DEF At
<1>7. Loading'
  BY <1>1, <1>2, <1>3, <1>5, <1>6, LoadBegins
<1>8. QED
  BY <1>1, <1>2, <1>3, <1>7 DEF LoadInv

(* One line.                                                               *)
LEMMA LoadSends ==
  ASSUME ModelInv, LoadInv, SendLine, tool \in {"serial_host", "host_runner"}
  PROVE  LoadInv'
<1>1. /\ phase = "send" /\ todo # <<>> /\ todo' = Tail(todo) /\ board' = Replay(board, Head(todo))
      /\ UNCHANGED <<goldenVars, tool, phase>>
  BY DEF SendLine
<1>2. /\ pc = "done" /\ Shape(board) /\ Shape(Boards(stim)[Position]) /\ board.regs = Boards(stim)[Position].regs
      /\ todo \in Seq(Lines) /\ Position \in 0 .. Len(stim) /\ Loaded
      /\ \A i \in 1 .. Len(todo) : todo[i] = stim[Position + i]
      /\ tool = "host_runner" => DOMAIN image = {"smem", "sram"} /\ Remembered
  BY <1>1 DEF LoadInv, Loading
<1>3. UNCHANGED <<pc, stim, initial>>
  BY <1>1 DEF goldenVars, results
<1>4. Len(stim) \in Nat
  BY DEF ModelInv, ExecutedInv, PostedInv, GoldenInv, RingInv
<1>5. /\ Len(todo) \in Nat /\ Len(todo) > 0 /\ Len(todo') = Len(todo) - 1 /\ todo' \in Seq(Lines)
      /\ Head(todo) \in Lines /\ Head(todo) = todo[1]
      /\ \A i \in 1 .. Len(todo) - 1 : todo'[i] = todo[i + 1]
  BY <1>1, <1>2
<1>6. Position' = Position + 1 /\ Position' \in 0 .. Len(stim) /\ Position \in Nat
  BY <1>2, <1>3, <1>4, <1>5 DEF Position
<1>7. \A i \in 1 .. Len(todo') : todo'[i] = stim[Position' + i]
  <2> SUFFICES ASSUME NEW i \in 1 .. Len(todo') PROVE todo'[i] = stim[Position' + i]
    OBVIOUS
  <2>1. i + 1 \in 1 .. Len(todo) /\ i \in 1 .. Len(todo) - 1 /\ Position' + i = Position + (i + 1)
    BY <1>5, <1>6
  <2>2. QED
    BY <1>2, <1>5, <2>1
<1>8. PICK b : b = board
  OBVIOUS
<1>9. PICK c : c = Boards(stim)[Position]
  OBVIOUS
<1>10. PICK l : l = Head(todo)
  OBVIOUS
<1>11. PICK n : n = Position
  OBVIOUS
<1>12. n \in Nat /\ n + 1 \in 1 .. Len(stim) /\ Position' = n + 1 /\ stim[n + 1] = l
  <2>1. 1 \in 1 .. Len(todo)
    BY <1>5
  <2>2. QED
    BY <1>2, <1>4, <1>5, <1>6, <1>10, <1>11, <2>1
<1>13. (Boards(stim)[Position])' = Replay(c, l) /\ board' = Replay(b, l)
  <2>1. (n + 1) - 1 = n
    BY <1>12
  <2>2. Boards(stim)[n + 1] = Replay(Boards(stim)[(n + 1) - 1], stim[n + 1])
    BY <1>4, <1>12, BoardsAre
  <2>3. QED
    BY <1>1, <1>3, <1>8, <1>9, <1>10, <1>11, <1>12, <2>1, <2>2
<1>14. l \in Lines /\ Shape(b) /\ Shape(c) /\ b.regs = c.regs
  BY <1>2, <1>5, <1>8, <1>9, <1>10
<1>15. /\ Shape(Replay(b, l)) /\ Shape(Replay(c, l)) /\ Replay(b, l).regs = Replay(c, l).regs
       /\ \A r \in Regions : \A a \in 0 .. Size(r) - 1 :
            \/ At(Replay(b, l), r, a) = At(Replay(c, l), r, a)
            \/ /\ At(Replay(b, l), r, a) = At(b, r, a) /\ At(Replay(c, l), r, a) = At(c, r, a)
               /\ ~(l.op = OpOf(r) /\ l.addr \div 4 = a)
  BY <1>14, SameLine
<1>16. \A r, a : SentTo(n + 1, r, a) => SentTo(n, r, a) \/ (l.op = OpOf(r) /\ l.addr \div 4 = a)
  <2>1. \A i \in 1 .. n + 1 : i \in 1 .. n \/ i = n + 1
    BY <1>12
  <2>2. QED
    BY <1>12, <2>1 DEF SentTo
<1>17. Loaded'
  <2> SUFFICES ASSUME NEW r \in Regions, NEW a \in 0 .. Size(r) - 1
               PROVE  \/ At(board', r, a) = At((Boards(stim)[Position])', r, a)
                      \/ ~SentTo(Position, r, a)' /\ Before(r, a)'
    BY DEF Loaded
  <2>1. SentTo(Position, r, a)' <=> SentTo(n + 1, r, a)
    BY <1>3, <1>12 DEF SentTo
  <2>2. CASE At(Replay(b, l), r, a) = At(Replay(c, l), r, a)
    BY <1>13, <2>2
  <2>3. CASE /\ At(Replay(b, l), r, a) = At(b, r, a) /\ At(Replay(c, l), r, a) = At(c, r, a)
             /\ ~(l.op = OpOf(r) /\ l.addr \div 4 = a)
    <3>1. At(b, r, a) = At(c, r, a) \/ (~SentTo(n, r, a) /\ Before(r, a))
      BY <1>2, <1>8, <1>9, <1>11 DEF Loaded
    <3>2. At(board', r, a) = At(board, r, a)
      BY <1>8, <1>13, <2>3
    <3>3. Before(r, a) => Before(r, a)'
      BY <1>1, <1>3, <3>2 DEF Before, At
    <3>4. QED
      BY <1>13, <1>16, <2>1, <2>3, <3>1, <3>3
  <2>4. QED
    BY <1>15, <2>2, <2>3
<1>18. ASSUME tool = "host_runner"
       PROVE  DOMAIN image' = {"smem", "sram"} /\ Remembered'
  <2>1. DOMAIN image = {"smem", "sram"} /\ Remembered
    BY <1>2, <1>18
  <2>2. /\ DOMAIN image' = {"smem", "sram"}
        /\ \A r \in Regions : \A x \in DOMAIN image'[r] :
             x \in DOMAIN image[r] \/ (l.op = OpOf(r) /\ l.addr = x)
    <3>1. CASE l.op = "csr_write"
      <4>1. image' = image
        BY <1>10, <1>18, <3>1 DEF SendLine
      <4>2. QED
        BY <2>1, <4>1
    <3>2. CASE l.op = "sysmem_write"
      <4>1. image' = [image EXCEPT !.smem = Put(@, l.addr, l.data)]
        BY <1>10, <1>18, <3>2 DEF SendLine
      <4>2. QED
        BY <2>1, <3>2, <4>1 DEF Put, OpOf, Regions
    <3>3. CASE l.op = "sram_write"
      <4>1. image' = [image EXCEPT !.sram = Put(@, l.addr, l.data)]
        BY <1>10, <1>18, <3>3 DEF SendLine
      <4>2. QED
        BY <2>1, <3>3, <4>1 DEF Put, OpOf, Regions
    <3>4. QED
      BY <1>14, <3>1, <3>2, <3>3 DEF Lines, LineOps
  <2>3. \A r \in Regions : \A x \in DOMAIN image[r] :
          \E i \in 1 .. n : stim[i].op = OpOf(r) /\ stim[i].addr = x
    BY <1>11, <2>1 DEF Remembered
  <2>4. \A r \in Regions : \A x \in DOMAIN image'[r] :
          \E i \in 1 .. n + 1 : stim[i].op = OpOf(r) /\ stim[i].addr = x
    <3>1. n + 1 \in 1 .. n + 1 /\ \A i \in 1 .. n : i \in 1 .. n + 1
      BY <1>12
    <3>2. QED
      BY <1>12, <2>2, <2>3, <3>1
  <2>5. QED
    BY <1>3, <1>12, <2>2, <2>4 DEF Remembered
<1>19. Loading'
  BY <1>1, <1>3, <1>5, <1>6, <1>7, <1>13, <1>15, <1>17, <1>18 DEF Loading, Shape
<1>20. QED
  BY <1>1, <1>2, <1>3, <1>19 DEF LoadInv

(* A step that sends nothing.                                              *)
LEMMA LoadKeeps ==
  ASSUME Loading, UNCHANGED <<goldenVars, tool, board, todo, image>>
  PROVE  Loading'
<1>1. UNCHANGED <<stim, initial>>
  BY DEF goldenVars, results
<1>2. Position' = Position /\ (Boards(stim)[Position])' = Boards(stim)[Position]
  BY <1>1 DEF Position
<1>3. /\ \A n, r, a : SentTo(n, r, a)' <=> SentTo(n, r, a)
      /\ \A r, a : Before(r, a)' <=> Before(r, a)
  BY <1>1 DEF SentTo, Before, At
<1>4. Loaded'
  <2> SUFFICES ASSUME NEW r \in Regions, NEW a \in 0 .. Size(r) - 1
               PROVE  \/ At(board', r, a) = At((Boards(stim)[Position])', r, a)
                      \/ ~SentTo(Position, r, a)' /\ Before(r, a)'
    BY DEF Loaded
  <2>1. At(board, r, a) = At(Boards(stim)[Position], r, a) \/ (~SentTo(Position, r, a) /\ Before(r, a))
    BY DEF Loading, Loaded
  <2>2. SentTo(Position, r, a)' <=> SentTo(Position, r, a)
    BY <1>1, <1>2 DEF SentTo
  <2>3. QED
    BY <1>2, <1>3, <2>1, <2>2
<1>5. tool = "host_runner" => Remembered'
  BY <1>1, <1>2 DEF Loading, Remembered
<1>6. Shape(board)' /\ Shape(Boards(stim)[Position])'
  BY <1>2 DEF Loading, Shape
<1>7. QED
  BY <1>1, <1>2, <1>4, <1>5, <1>6 DEF Loading

(* Every step keeps what is known of the load.                             *)
LEMMA LoadStep == ModelInv /\ HomeInv /\ LoadInv /\ [vNext]_verifyVars => LoadInv'
<1> SUFFICES ASSUME ModelInv, HomeInv, LoadInv, [vNext]_verifyVars PROVE LoadInv'
  OBVIOUS
<1>1. CASE Start
  BY <1>1, LoadStarts
<1>2. CASE ClearMemories
  <2>1. tool' = tool
    BY <1>2 DEF ClearMemories
  <2>2. QED
    BY <1>2, <2>1, LoadClears DEF LoadInv
<1>3. CASE SendLine
  <2>1. tool' = tool
    BY <1>3 DEF SendLine
  <2>2. QED
    BY <1>3, <2>1, LoadSends DEF LoadInv
<1>4. CASE WalkRing \/ StimSent
  <2>1. /\ phase = "send" /\ phase' = "run" /\ todo = <<>> /\ UNCHANGED <<goldenVars, tool, board, todo, image>>
    BY <1>4 DEF WalkRing, StimSent, boardVars
  <2>2. pc' = pc
    BY <2>1 DEF goldenVars
  <2>3. QED
    BY <2>1, <2>2, LoadKeeps DEF LoadInv
<1>5. CASE RunDma \/ VerifyTransfer \/ Report \/ VerifyCrcs \/ DryRun
  <2>1. phase' \in {"verify", "end"} /\ UNCHANGED <<goldenVars, tool>>
    BY <1>5 DEF RunDma, VerifyTransfer, Report, VerifyCrcs, DryRun
  <2>2. pc' = pc
    BY <2>1 DEF goldenVars
  <2>3. QED
    BY <2>1, <2>2 DEF LoadInv
<1>6. CASE RunGolden
  <2>1. phase = "golden" /\ tool' = tool
    BY <1>6 DEF RunGolden, hostVars
  <2>2. QED
    BY <2>1 DEF LoadInv, HomeInv
<1>7. CASE Display \/ Stop \/ UNCHANGED verifyVars
  <2>1. UNCHANGED <<goldenVars, tool, phase, board, todo, image>>
    BY <1>7 DEF Display, Stop, verifyVars, boardVars, hostVars
  <2>2. pc' = pc /\ stim' = stim
    BY <2>1 DEF goldenVars, results
  <2>3. QED
    BY <2>1, <2>2, LoadKeeps DEF LoadInv, Shape
<1>8. QED
  BY <1>1, <1>2, <1>3, <1>4, <1>5, <1>6, <1>7 DEF vNext, Host

(* The board before its engine runs: the ring holds what was posted; for   *)
(* serial_host.py every word is that of the software model, for            *)
(* host_runner.py every word that was sent.                                *)
LEMMA LoadedBoard ==
  ASSUME ModelInv, SlotsInv, LoadInv, phase = "run", tool \in {"serial_host", "host_runner"},
         RingUntouched, Csr!is_enabled(regs)
  PROVE  /\ board \in Holders /\ BoardDescs = PostedDescs
         /\ tool = "serial_host" => Alike(board, initial)
         /\ tool = "host_runner" => Remembered /\ Position = Len(stim)
         /\ \A r \in Regions : \A a \in 0 .. Size(r) - 1 :
              SentTo(Len(stim), r, a) => At(board, r, a) = At(initial, r, a)
<1>1. /\ pc = "done" /\ todo = <<>> /\ Shape(board) /\ board.regs = Boards(stim)[Position].regs
      /\ Loaded
      /\ tool = "host_runner" => Remembered
  BY DEF LoadInv, Loading
<1>2. Position = Len(stim) /\ Boards(stim)[Position] = Replayed(stim)
  <2>1. Len(stim) \in Nat
    BY DEF ModelInv, ExecutedInv, PostedInv, GoldenInv, RingInv
  <2>2. Position = Len(stim)
    BY <1>1, <2>1 DEF Position
  <2>3. QED
    BY <2>2 DEF Replayed
<1>3. /\ Replayed(stim).regs \in Registers /\ SameRing(Replayed(stim).regs, regs)
      /\ \A r, a : At(Replayed(stim), r, a) = At(initial, r, a)
  BY <1>1 DEF ModelInv, ReplayInv, BoardStates, At
<1>4. \A r \in Regions : \A a \in 0 .. Size(r) - 1 :
        At(board, r, a) = At(initial, r, a) \/ (~SentTo(Len(stim), r, a) /\ Before(r, a))
  <2> SUFFICES ASSUME NEW r \in Regions, NEW a \in 0 .. Size(r) - 1
               PROVE  At(board, r, a) = At(initial, r, a) \/ (~SentTo(Len(stim), r, a) /\ Before(r, a))
    OBVIOUS
  <2>1. \/ At(board, r, a) = At(Boards(stim)[Position], r, a)
        \/ ~SentTo(Position, r, a) /\ Before(r, a)
    BY <1>1 DEF Loaded
  <2>2. At(Boards(stim)[Position], r, a) = At(initial, r, a)
    BY <1>2, <1>3
  <2>3. QED
    BY <1>2, <2>1, <2>2
<1>5. /\ posted \in Seq(Posts) /\ regs.TAIL = Len(posted) /\ initial \in Mems
  BY <1>1, GoldenEnds DEF ModelInv
<1>6. board \in Holders
  <2>1. \A r \in Regions : \A a \in 0 .. Size(r) - 1 : At(initial, r, a) \in Nat
    BY <1>5 DEF Mems, At, Regions, Size
  <2>2. \A r \in Regions : \A a \in 0 .. Size(r) - 1 : At(board, r, a) \in Nat
    BY <1>4, <2>1, HostAssumption DEF Before
  <2>3. /\ \A a \in 0 .. SMEM_WORDS - 1 : board.smem[a] \in Nat
        /\ \A a \in 0 .. BRAM_SIZE - 1 : board.sram[a] \in Nat
    BY <2>2 DEF At, Regions, Size
  <2>4. board.smem \in [0 .. SMEM_WORDS - 1 -> Nat] /\ board.sram \in [0 .. BRAM_SIZE - 1 -> Nat]
    BY <1>1, <2>3 DEF Shape
  <2>5. board.regs \in Registers
    BY <1>1, <1>2, <1>3
  <2>6. board \in BoardStates
    <3>1. board = [smem |-> board.smem, sram |-> board.sram, regs |-> board.regs]
      BY <1>1 DEF Shape
    <3>2. QED
      BY <2>4, <2>5, <3>1 DEF BoardStates
  <2>7. QED
    BY <2>6 DEF Holders
<1>7. tool = "serial_host" => Alike(board, initial)
  BY <1>4 DEF Before, Alike
<1>8. BoardDescs = PostedDescs
  <2> DEFINE n == Len(posted)
             base == regs.BASEADDR
  <2>1. n \in Nat /\ board.regs.TAIL = n /\ board.regs.BASEADDR = base /\ base \in Nat
    <3>1. base \in Nat
      BY DEF ModelInv, ExecutedInv, PostedInv, GoldenInv, DrainInv, Stored, Registers
    <3>2. QED
      BY <1>1, <1>2, <1>3, <1>5, <3>1 DEF SameRing
  <2>2. Ordered
    BY DEF ModelInv, ExecutedInv, PostedInv, GoldenInv, RingInv, RingUntouched
  <2>3. ASSUME NEW k \in 1 .. n
        PROVE  ReadWords(board.smem, (base \div 4) + DESC_WORDS * (k - 1), DESC_WORDS) = posted[k].desc
    <3> DEFINE slot == posted[k].slot
    <3>1. slot \in Nat /\ slot + DESC_WORDS <= SMEM_WORDS /\ SMEM_WORDS \in Nat
      <4>1. posted[k] \in Posts
        BY <1>5
      <4>2. QED
        BY <4>1, GoldenAssumption DEF Posts
    <3>2. slot = (base \div 4) + DESC_WORDS * (k - 1)
      <4>1. slot = (base + (k - 1) * DESCRIPTOR_SIZE_BYTES) \div 4
        BY <2>2 DEF Ordered, SlotOf
      <4>2. \A x \in Nat, y \in Nat : (x + y * 16) \div 4 = (x \div 4) + 4 * y
        OBVIOUS
      <4>3. k - 1 \in Nat
        BY <2>1
      <4> HIDE DEF slot, base
      <4>4. QED
        BY <2>1, <4>1, <4>2, <4>3 DEF DESC_WORDS, DESCRIPTOR_SIZE_BYTES
    <3>3. ReadWords(initial.smem, slot, DESC_WORDS) = posted[k].desc
      BY <1>5 DEF RingUntouched
    <3>4. ASSUME NEW i \in 1 .. DESC_WORDS
          PROVE  board.smem[slot + i - 1] = initial.smem[slot + i - 1]
      <4>1. /\ i - 1 \in 0 .. DESC_WORDS - 1 /\ slot + i - 1 \in 0 .. SMEM_WORDS - 1
            /\ slot + i - 1 = slot + (i - 1)
        BY <3>1 DEF DESC_WORDS
      <4>2. \E j \in 1 .. Len(stim) : stim[j].op = "sysmem_write" /\ stim[j].addr \div 4 = slot + (i - 1)
        BY <4>1 DEF SlotsInv
      <4>3. SentTo(Len(stim), "smem", slot + i - 1)
        BY <4>1, <4>2 DEF SentTo, OpOf
      <4> HIDE DEF slot
      <4>4. At(board, "smem", slot + i - 1) = At(initial, "smem", slot + i - 1)
        BY <1>4, <4>1, <4>3 DEF Regions, Size
      <4>5. QED
        BY <4>4 DEF At
    <3> HIDE DEF slot, base, n
    <3>5. ReadWords(board.smem, slot, DESC_WORDS) = ReadWords(initial.smem, slot, DESC_WORDS)
      BY <3>4 DEF ReadWords
    <3>6. QED
      BY <3>2, <3>3, <3>5
  <2>4. BoardDescs = [k \in 1 .. n |-> ReadWords(board.smem, (base \div 4) + DESC_WORDS * (k - 1), DESC_WORDS)]
    BY <2>1 DEF BoardDescs
  <2>5. PostedDescs = [k \in 1 .. n |-> posted[k].desc]
    BY <1>5 DEF PostedDescs
  <2> HIDE DEF n, base
  <2>6. QED
    BY <2>3, <2>4, <2>5
<1>9. \A r \in Regions : \A a \in 0 .. Size(r) - 1 :
        SentTo(Len(stim), r, a) => At(board, r, a) = At(initial, r, a)
  BY <1>4
<1>10. tool = "host_runner" => Remembered /\ Position = Len(stim)
  BY <1>1, <1>2
<1>11. QED
  BY <1>6, <1>7, <1>8, <1>9, <1>10
-----------------------------------------------------------------------------
(* The tools leave the software model's results alone.                     *)
LEMMA ToolsLeave ==
  ASSUME goldenVars' = goldenVars
  PROVE  /\ UNCHANGED <<pc, stim, regs, posted, initial, sysmem, sram>>
         /\ RingUntouched' = RingUntouched
         /\ (Csr!is_enabled(regs))' = Csr!is_enabled(regs)
         /\ PostedDescs' = PostedDescs
         /\ Memories' = Memories
<1>1. UNCHANGED <<pc, stim, regs, posted, initial, sysmem, sram>>
  BY DEF goldenVars, memories, results
<1>2. RingUntouched' = RingUntouched
  BY <1>1 DEF RingUntouched, Reconfigured, SlotWords
<1>3. (Csr!is_enabled(regs))' = Csr!is_enabled(regs)
  BY <1>1 DEF Csr!is_enabled
<1>4. PostedDescs' = PostedDescs /\ Memories' = Memories
  BY <1>1 DEF PostedDescs, Memories
<1>5. QED
  BY <1>1, <1>2, <1>3, <1>4

(* What the engine leaves on the board of serial_host.py.                  *)
EngineDid ==
  /\ outcome = "right" => Alike(board, Memories)
  /\ outcome = "lost" =>
       /\ lost \in 1 .. Len(posted)
       /\ Alike(board, Runs(initial, RemoveAt(PostedDescs, lost))[Len(posted) - 1])

SerialInv ==
  tool = "serial_host" =>
    /\ pc = "done" /\ phase \in {"clear", "send", "run", "verify", "end"}
    /\ phase \in {"verify", "end"} /\ RingUntouched /\ Csr!is_enabled(regs) => EngineDid
    /\ phase = "end" => outcome = "refused" \/ verdict = (IF SerialPasses THEN "pass" ELSE "fail")

(* What the engine did is what the verdict will judge.                     *)
LEMMA SerialRuns ==
  ASSUME ModelInv, SlotsInv, LoadInv, SerialInv, RunDma, tool = "serial_host"
  PROVE  SerialInv'
<1>1. /\ phase = "run" /\ UNCHANGED <<goldenVars, tool>>
      /\ phase' = "verify" \/ (phase' = "end" /\ outcome' = "refused")
  BY DEF RunDma
<1>2. pc = "done"
  BY DEF SerialInv
<1>3. /\ UNCHANGED <<pc, posted, initial>> /\ PostedDescs' = PostedDescs /\ Memories' = Memories
      /\ RingUntouched' = RingUntouched
      /\ (Csr!is_enabled(regs))' = Csr!is_enabled(regs)
  BY <1>1, ToolsLeave
<1>4. ASSUME RingUntouched, Csr!is_enabled(regs)
      PROVE  EngineDid'
  <2> DEFINE s == PostedDescs
             n == Len(posted)
  <2>1. board \in Holders /\ BoardDescs = s /\ Alike(board, initial)
    BY <1>1, <1>4, LoadedBoard
  <2>2. /\ s \in Seq(LegalDescs) /\ Len(s) = n /\ n \in Nat
        /\ initial \in Holders /\ Memories = Runs(initial, s)[n]
    <3>1. /\ posted \in Seq(Posts) /\ s \in Seq(LegalDescs) /\ Len(s) = n
          /\ initial \in Mems /\ Memories = Runs(initial, s)[n]
      BY <1>2, <1>4, GoldenEnds DEF ModelInv
    <3>2. QED
      BY <3>1 DEF Holders
  <2> HIDE DEF s, n
  <2>3. ASSUME outcome' = "right"
        PROVE  Alike(board', Memories)
    <3>1. board' = Runs(board, s)[Len(s)]
      BY <2>1, <2>3 DEF RunDma, Run
    <3>2. Alike(Runs(board, s)[Len(s)], Runs(initial, s)[Len(s)])
      BY <2>1, <2>2, RunsAlike
    <3>3. QED
      BY <2>2, <3>1, <3>2
  <2>4. ASSUME outcome' = "lost"
        PROVE  /\ lost' \in 1 .. n
               /\ Alike(board', Runs(initial, RemoveAt(s, lost'))[n - 1])
    <3>1. PICK k \in DOMAIN s : lost' = k /\ board' = Runs(board, RemoveAt(s, k))[Len(RemoveAt(s, k))]
      BY <2>1, <2>4 DEF RunDma, Run
    <3>2. k \in 1 .. Len(s)
      BY <2>2
    <3> DEFINE u == RemoveAt(s, k)
    <3>3. u \in Seq(LegalDescs) /\ Len(u) = n - 1
      BY <2>2, <3>2, Removed
    <3> HIDE DEF u
    <3>4. Alike(Runs(board, u)[Len(u)], Runs(initial, u)[Len(u)])
      BY <2>1, <2>2, <3>3, RunsAlike
    <3>5. QED
      BY <2>2, <3>1, <3>2, <3>3, <3>4 DEF u
  <2>5. QED
    BY <1>3, <2>3, <2>4 DEF EngineDid, s, n
<1>5. QED
  BY <1>1, <1>2, <1>3, <1>4 DEF SerialInv

(* Steps that leave board and verdict alone.                               *)
LEMMA SerialKeeps ==
  ASSUME SerialInv, UNCHANGED <<goldenVars, board, outcome, lost, tool, phase, verdict>>
  PROVE  SerialInv'
<1>1. /\ UNCHANGED <<pc, posted, initial, sram>> /\ PostedDescs' = PostedDescs /\ Memories' = Memories
      /\ RingUntouched' = RingUntouched
      /\ (Csr!is_enabled(regs))' = Csr!is_enabled(regs)
  BY ToolsLeave
<1>2. EngineDid' <=> EngineDid
  BY <1>1 DEF EngineDid, Alike, At
<1>3. SerialPasses' <=> SerialPasses
  BY <1>1 DEF SerialPasses, SameOn, Changed, NonZero
<1>4. QED
  BY <1>1, <1>2, <1>3 DEF SerialInv

(* Every step keeps what is known of serial_host.py.                       *)
LEMMA SerialStep ==
  ModelInv /\ SlotsInv /\ HomeInv /\ LoadInv /\ SerialInv /\ [vNext]_verifyVars => SerialInv'
<1> SUFFICES ASSUME ModelInv, SlotsInv, HomeInv, LoadInv, SerialInv, [vNext]_verifyVars PROVE SerialInv'
  OBVIOUS
<1>1. CASE Start
  <2>1. tool' = "serial_host" => pc' = "done" /\ phase' = "clear"
    BY <1>1 DEF Start, goldenVars
  <2>2. QED
    BY <2>1 DEF SerialInv
<1>2. CASE ClearMemories \/ SendLine \/ WalkRing \/ StimSent
  <2>1. phase' \in {"send", "run"} /\ tool' = tool /\ UNCHANGED goldenVars
    BY <1>2 DEF ClearMemories, SendLine, WalkRing, StimSent
  <2>2. pc' = pc
    BY <2>1, ToolsLeave
  <2>3. QED
    BY <2>1, <2>2 DEF SerialInv
<1>3. CASE RunDma
  <2>1. tool' = tool
    BY <1>3 DEF RunDma
  <2>2. QED
    BY <1>3, <2>1, SerialRuns DEF SerialInv
<1>4. CASE VerifyCrcs
  <2>1. /\ phase = "verify" /\ phase' = "end" /\ UNCHANGED <<goldenVars, board, outcome, lost, tool>>
        /\ verdict' = (IF SerialPasses THEN "pass" ELSE "fail")
    BY <1>4 DEF VerifyCrcs, boardVars
  <2>2. /\ UNCHANGED <<pc, posted, initial, sram>> /\ PostedDescs' = PostedDescs /\ Memories' = Memories
        /\ RingUntouched' = RingUntouched
        /\ (Csr!is_enabled(regs))' = Csr!is_enabled(regs)
    BY <2>1, ToolsLeave
  <2>3. EngineDid' <=> EngineDid
    BY <2>1, <2>2 DEF EngineDid, Alike, At
  <2>4. SerialPasses' <=> SerialPasses
    BY <2>1, <2>2 DEF SerialPasses, SameOn, Changed, NonZero
  <2>5. QED
    BY <2>1, <2>2, <2>3, <2>4 DEF SerialInv
<1>5. CASE VerifyTransfer \/ Report \/ DryRun
  <2>1. tool' = tool /\ tool # "serial_host"
    BY <1>5 DEF VerifyTransfer, Report, DryRun
  <2>2. QED
    BY <2>1 DEF SerialInv
<1>6. CASE RunGolden
  <2>1. tool' = tool /\ phase = "golden"
    BY <1>6 DEF RunGolden, hostVars
  <2>2. QED
    BY <2>1 DEF SerialInv, HomeInv
<1>7. CASE Display \/ Stop \/ UNCHANGED verifyVars
  <2>1. UNCHANGED <<goldenVars, board, outcome, lost, tool, phase, verdict>>
    BY <1>7 DEF Display, Stop, verifyVars, boardVars, hostVars
  <2>2. QED
    BY <2>1, SerialKeeps
<1>8. QED
  BY <1>1, <1>2, <1>3, <1>4, <1>5, <1>6, <1>7 DEF vNext, Host
-----------------------------------------------------------------------------
(* The verdict of serial_host.py.                                          *)

(* A range of memory has its ends, and its words lie between them.         *)
LEMMA Between ==
  ASSUME NEW N \in Nat, NEW S \in SUBSET (0 .. N - 1), S # {}
  PROVE  /\ Min(S) .. Max(S) \subseteq 0 .. N - 1
         /\ \A a \in S : a \in Min(S) .. Max(S)
<1>1. Min(S) \in S /\ \A y \in S : Min(S) <= y
  <2>1. \E x \in S : \A y \in S : x <= y
    BY Smallest
  <2>2. QED
    BY <2>1 DEF Min
<1>2. Max(S) \in S /\ \A y \in S : Max(S) >= y
  <2> DEFINE T == {n \in Nat : N - n \in S}
  <2>1. T \in SUBSET Nat /\ T # {}
    <3>1. PICK x \in S : TRUE
      OBVIOUS
    <3>2. N - x \in Nat /\ N - (N - x) \in S
      BY <3>1
    <3>3. QED
      BY <3>2
  <2>2. PICK n \in T : \A k \in T : n <= k
    <3> HIDE DEF T
    <3>1. QED
      BY <2>1, Smallest
  <2>3. ASSUME NEW y \in S PROVE N - n >= y
    <3>1. N - y \in T
      OBVIOUS
    <3>2. n <= N - y
      BY <2>2, <3>1
    <3>3. QED
      BY <3>2
  <2>4. \E x \in S : \A y \in S : x >= y
    BY <2>3
  <2>5. QED
    BY <2>4 DEF Max
<1>3. PICK low : low = Min(S)
  OBVIOUS
<1>4. PICK high : high = Max(S)
  OBVIOUS
<1>5. low \in S /\ high \in S /\ \A a \in S : low <= a /\ high >= a
  BY <1>1, <1>2, <1>3, <1>4
<1>6. low \in 0 .. N - 1 /\ high \in 0 .. N - 1 /\ \A a \in S : a \in Int
  BY <1>5
<1>7. low .. high \subseteq 0 .. N - 1 /\ \A a \in S : a \in low .. high
  BY <1>5, <1>6
<1>8. QED
  BY <1>3, <1>4, <1>7

(* What the software model made of uploads.                                *)
LEMMA GoldenUploads ==
  ASSUME ModelInv, RingUntouched, pc = "done", Csr!is_enabled(regs),
         \A k \in DOMAIN posted : ToSram(posted[k].desc)
  PROVE  /\ initial \in Holders /\ PostedDescs \in Seq(LegalDescs) /\ Len(PostedDescs) = Len(posted)
         /\ \A k \in 1 .. Len(PostedDescs) : ToSram(PostedDescs[k])
         /\ \A k \in 1 .. Len(posted) : PostedDescs[k] = posted[k].desc
         /\ Memories = Runs(initial, PostedDescs)[Len(PostedDescs)]
         /\ Memories \in Holders
         /\ \A b \in 0 .. SMEM_WORDS - 1 : sysmem[b] = initial.smem[b]
<1> DEFINE s == PostedDescs
<1>1. /\ posted \in Seq(Posts) /\ s \in Seq(LegalDescs) /\ Len(s) = Len(posted)
      /\ \A k \in 1 .. Len(posted) : s[k] = posted[k].desc
      /\ initial \in Mems /\ Memories = Runs(initial, s)[Len(posted)]
  BY GoldenEnds DEF ModelInv
<1>2. /\ initial \in Holders /\ Len(s) \in Nat /\ DOMAIN posted = 1 .. Len(s)
      /\ Memories = Runs(initial, s)[Len(s)]
  BY <1>1 DEF Holders
<1>3. \A k \in 1 .. Len(s) : ToSram(s[k])
  <2> HIDE DEF s
  <2>1. QED
    BY <1>1, <1>2
<1> HIDE DEF s
<1>4. Memories \in Holders
  BY <1>1, <1>2, RunsHold
<1>5. \A b \in 0 .. SMEM_WORDS - 1 : At(Runs(initial, s)[Len(s)], "smem", b) = At(initial, "smem", b)
  BY <1>1, <1>2, <1>3, Uploads
<1>6. \A b \in 0 .. SMEM_WORDS - 1 : At(Memories, "smem", b) = sysmem[b] /\ At(initial, "smem", b) = initial.smem[b]
  BY DEF At, Memories
<1>7. QED
  BY <1>1, <1>2, <1>3, <1>4, <1>5, <1>6 DEF s

(* A board with the software model's words passes both CRCs.               *)
LEMMA UploadsPass ==
  ASSUME ModelInv, IdleInv, SerialInv, RingUntouched,
         tool = "serial_host", phase = "end", outcome = "right", Changed # {},
         \A k \in DOMAIN posted : ToSram(posted[k].desc)
  PROVE  verdict = "pass"
<1>1. pc = "done" /\ (Csr!is_enabled(regs) => EngineDid)
      /\ verdict = (IF SerialPasses THEN "pass" ELSE "fail")
  BY DEF SerialInv
<1>2. Csr!is_enabled(regs)
  BY <1>1 DEF IdleInv, Changed, Memories
<1>3. Alike(board, Memories)
  BY <1>1, <1>2 DEF EngineDid
<1>4. \A b \in 0 .. SMEM_WORDS - 1 : sysmem[b] = initial.smem[b]
  BY <1>1, <1>2, GoldenUploads
<1>5. /\ \A b \in 0 .. SMEM_WORDS - 1 : board.smem[b] = initial.smem[b]
      /\ \A a \in 0 .. BRAM_SIZE - 1 : board.sram[a] = sram[a]
  BY <1>3, <1>4 DEF Alike, At, Regions, Size, Memories
<1>6. /\ DOMAIN sram = 0 .. BRAM_SIZE - 1 /\ DOMAIN initial.smem = 0 .. SMEM_WORDS - 1
      /\ BRAM_SIZE \in Nat /\ SMEM_WORDS \in Nat
  <2>1. initial \in Holders /\ Memories \in Holders
    BY <1>1, <1>2, GoldenUploads
  <2>2. QED
    BY <2>1, GoldenAssumption DEF Holders, Mems, BoardStates, Memories
<1>7. SameOn(Changed, board.sram, sram)
  <2>1. Changed \in SUBSET (0 .. BRAM_SIZE - 1)
    BY <1>6 DEF Changed
  <2>2. Min(Changed) .. Max(Changed) \subseteq 0 .. BRAM_SIZE - 1
    BY <1>6, <2>1, Between
  <2>3. QED
    BY <1>5, <2>2 DEF SameOn
<1>8. SameOn(NonZero, board.smem, initial.smem)
  <2> SUFFICES ASSUME NonZero # {} PROVE \A a \in Min(NonZero) .. Max(NonZero) : board.smem[a] = initial.smem[a]
    BY DEF SameOn
  <2>1. NonZero \in SUBSET (0 .. SMEM_WORDS - 1)
    BY <1>6 DEF NonZero
  <2>2. Min(NonZero) .. Max(NonZero) \subseteq 0 .. SMEM_WORDS - 1
    BY <1>6, <2>1, Between
  <2>3. QED
    BY <1>5, <2>2
<1>9. QED
  BY <1>1, <1>7, <1>8 DEF SerialPasses

(* A board that lacks one of them fails, when its SRAM shows it.           *)
LEMMA LostFails ==
  ASSUME ModelInv, SerialInv, RingUntouched,
         tool = "serial_host", phase = "end", outcome = "lost", Csr!is_enabled(regs),
         \A k \in DOMAIN posted : ToSram(posted[k].desc) /\ ~Overwritten(k),
         Runs(initial, RemoveAt(PostedDescs, lost))[Len(posted) - 1].sram # sram
  PROVE  verdict = "fail"
<1> DEFINE s == PostedDescs
           n == Len(s)
<1>1. /\ pc = "done" /\ lost \in 1 .. Len(posted)
      /\ Alike(board, Runs(initial, RemoveAt(PostedDescs, lost))[Len(posted) - 1])
      /\ verdict = (IF SerialPasses THEN "pass" ELSE "fail")
  BY DEF SerialInv, EngineDid
<1>2. /\ initial \in Holders /\ s \in Seq(LegalDescs) /\ n = Len(posted) /\ n \in Nat
      /\ \A k \in 1 .. n : ToSram(s[k]) /\ s[k] = posted[k].desc
      /\ Memories = Runs(initial, s)[n] /\ Memories \in Holders
  BY <1>1, GoldenUploads
<1>3. DOMAIN posted = 1 .. n
  <2>1. posted \in Seq(Posts)
    BY <1>1, GoldenEnds DEF ModelInv
  <2>2. QED
    BY <1>2, <2>1
<1>4. OnceWritten(s)
  <2> SUFFICES ASSUME NEW j \in 1 .. n, NEW k \in 1 .. n, j # k, NEW a, a \in Into(s[j]), a \in Into(s[k])
               PROVE  FALSE
    BY DEF OnceWritten
  <2>1. <<"sram", a>> \in Destination(j) /\ <<"sram", a>> \in Destination(k)
    BY <1>2, Places DEF Writes, DestinationOf
  <2>2. CASE j < k
    BY <1>3, <2>1, <2>2 DEF Overwritten
  <2>3. CASE k < j
    BY <1>3, <2>1, <2>3 DEF Overwritten
  <2>4. QED
    BY <2>2, <2>3
<1> DEFINE u == RemoveAt(s, lost)
           without == Runs(initial, u)[n - 1]
<1>5. without \in Holders
  <2>1. u \in Seq(LegalDescs) /\ Len(u) = n - 1
    BY <1>1, <1>2, Removed
  <2> HIDE DEF u, s
  <2>2. n - 1 \in 0 .. Len(u)
    BY <1>1, <1>2, <2>1
  <2>3. QED
    BY <1>2, <2>1, <2>2, RunsHold
<1>6. without.sram # sram /\ Alike(board, without)
  BY <1>1, <1>2
<1>7. /\ without.sram \in [0 .. BRAM_SIZE - 1 -> Nat] /\ sram \in [0 .. BRAM_SIZE - 1 -> Nat]
  BY <1>2, <1>5 DEF Holders, Mems, BoardStates, Memories
<1> HIDE DEF without
<1>8. PICK a \in 0 .. BRAM_SIZE - 1 : without.sram[a] # sram[a]
  <2> DEFINE f == without.sram
             X == 0 .. BRAM_SIZE - 1
  <2>1. f \in [X -> Nat] /\ sram \in [X -> Nat] /\ f # sram
    BY <1>6, <1>7
  <2> HIDE DEF f, X
  <2>2. \E a \in X : f[a] # sram[a]
    BY <2>1, SamePoints
  <2>3. QED
    BY <2>2 DEF f, X
<1>9. board.sram[a] # sram[a]
  BY <1>6, <1>8 DEF Alike, At, Regions, Size
<1>10. a \in Changed
  <2>1. At(without, "sram", a) # At(Memories, "sram", a)
    BY <1>8 DEF At, Memories
  <2>2. At(Runs(initial, s)[n], "sram", a) # At(initial, "sram", a)
    <3>1. At(Runs(initial, RemoveAt(s, lost))[n - 1], "sram", a) # At(Runs(initial, s)[n], "sram", a)
      BY <1>2, <2>1 DEF without
    <3>2. lost \in 1 .. n /\ \A k \in 1 .. n : ToSram(s[k])
      BY <1>1, <1>2
    <3> HIDE DEF s
    <3>3. QED
      BY <1>2, <1>4, <3>1, <3>2, LostShows
  <2>3. At(Memories, "sram", a) # At(initial, "sram", a)
    BY <1>2, <2>2
  <2>4. QED
    BY <1>7, <2>3 DEF At, Memories, Changed
<1>11. a \in Min(Changed) .. Max(Changed)
  <2>1. Changed \in SUBSET (0 .. BRAM_SIZE - 1) /\ Changed # {} /\ BRAM_SIZE \in Nat
    BY <1>7, <1>10, GoldenAssumption DEF Changed
  <2>2. QED
    BY <1>10, <2>1, Between
<1>12. QED
  BY <1>1, <1>9, <1>10, <1>11 DEF SerialPasses, SameOn

(* All that is known of serial_host.py, and of loading a board.            *)
LEMMA SerialInit == vInit => SlotsInv /\ IdleInv /\ LoadInv /\ SerialInv
<1> SUFFICES ASSUME vInit PROVE SlotsInv /\ IdleInv /\ LoadInv /\ SerialInv
  OBVIOUS
<1>1. tool = "none" /\ pc = "setup" /\ posted = <<>>
  BY DEF vInit, Init
<1>2. QED
  BY <1>1 DEF SlotsInv, IdleInv, LoadInv, SerialInv

(* The tools post nothing and start no loop.                               *)
LEMMA WatchedStep ==
  ModelInv /\ SlotsInv /\ IdleInv /\ [vNext]_verifyVars => SlotsInv' /\ IdleInv'
BY ToolsWatch, SlotsStep, IdleStep DEF ModelInv, ExecutedInv, PostedInv

(* serial_host.py accepts every board that works when all transfers go to  *)
(* SRAM and change something, whatever an earlier test left in the         *)
(* memories, as long as only enqueue writes the ring: the board is loaded  *)
(* with the initial images and with stim.txt, and its engine reads the     *)
(* descriptors that were posted.                                           *)
THEOREM SerialIsComplete == vSpec => [](RingUntouched => SerialAcceptsUploads)
<1>1. ModelInv /\ IdleInv /\ SerialInv => (RingUntouched => SerialAcceptsUploads)
  BY UploadsPass DEF SerialAcceptsUploads
<1>2. vInit => HomeInv
  BY RunnerInit
<1>3. QED
  BY <1>1, <1>2, ModelInit, ModelStep, HomeStep, SerialInit, WatchedStep, LoadStep, SerialStep, PTL DEF vSpec

(* serial_host.py looks at one range of SRAM only, and still fails every   *)
(* board that lost a transfer when SRAM shows it: with all transfers to    *)
(* SRAM and none overwritten later, a word that shows the loss is one that *)
(* the software model changed.                                             *)
THEOREM SerialIsSound == vSpec => [](RingUntouched => SerialCatchesLost)
<1>1. ModelInv /\ SerialInv => (RingUntouched => SerialCatchesLost)
  BY LostFails DEF SerialCatchesLost
<1>2. vInit => HomeInv
  BY RunnerInit
<1>3. QED
  BY <1>1, <1>2, ModelInit, ModelStep, HomeStep, SerialInit, WatchedStep, LoadStep, SerialStep, PTL DEF vSpec
-----------------------------------------------------------------------------
(* PASS of host_runner.py on a board that works.                           *)

(* What Agreed says, of memories m.                                        *)
AgreedOn(m, d) ==
  \A a \in Into(d) :
    /\ At(m, DestinationOf(d), a) = At(initial, SourceOf(d), Origin(d, a))
    /\ At(m, SourceOf(d), Origin(d, a)) = At(initial, SourceOf(d), Origin(d, a))

(* Then the words that are read are those that are expected.               *)
LEMMA AgreedReads ==
  ASSUME NEW m, NEW d \in LegalDescs, AgreedOn(m, d)
  PROVE  /\ ReadWords(m[DestinationOf(d)], Dst(d) \div 4, Beats(d)) = Expectation(d).words
         /\ ReadWords(m[SourceOf(d)], Src(d) \div 4, Beats(d)) = Expectation(d).words
<1> DEFINE s == Src(d) \div 4
           e == Dst(d) \div 4
           n == Beats(d)
           p == m[DestinationOf(d)]
           q == m[SourceOf(d)]
           w(j) == At(initial, SourceOf(d), s + j - 1)
<1>1. s \in Nat /\ e \in Nat /\ n \in Nat
  BY Ranges
<1>2. Into(d) = e .. e + n - 1 /\ \A a : Origin(d, a) = s + (a - e)
  BY DEF Into, Origin
<1>3. \A a : At(m, DestinationOf(d), a) = p[a] /\ At(m, SourceOf(d), a) = q[a]
  BY DEF At, DestinationOf, SourceOf
<1>4. ASSUME NEW j \in 1 .. n
      PROVE  p[e + j - 1] = w(j) /\ q[s + j - 1] = w(j)
  <2> DEFINE a == e + j - 1
             b == s + j - 1
             o == Origin(d, a)
  <2>1. a \in Into(d) /\ o = b
    <3> HIDE DEF e, s, n
    <3>1. a \in e .. e + n - 1 /\ s + (a - e) = b
      BY <1>1
    <3>2. QED
      BY <1>2, <3>1
  <2>2. /\ At(m, DestinationOf(d), a) = At(initial, SourceOf(d), o)
        /\ At(m, SourceOf(d), o) = At(initial, SourceOf(d), o)
    BY <2>1 DEF AgreedOn
  <2>3. w(j) = At(initial, SourceOf(d), b)
    OBVIOUS
  <2> HIDE DEF w, o, p, q
  <2>4. QED
    BY <1>3, <2>1, <2>2, <2>3
<1>5. /\ ReadWords(p, e, n) = [j \in 1 .. n |-> p[e + j - 1]]
      /\ ReadWords(q, s, n) = [j \in 1 .. n |-> q[s + j - 1]]
  BY DEF ReadWords
<1>6. Expectation(d).words = [j \in 1 .. n |-> w(j)]
  BY DEF Expectation
<1> HIDE DEF w, p, q, e, s, n
<1>7. /\ [j \in 1 .. n |-> p[e + j - 1]] = [j \in 1 .. n |-> w(j)]
      /\ [j \in 1 .. n |-> q[s + j - 1]] = [j \in 1 .. n |-> w(j)]
  BY <1>4
<1>8. ReadWords(p, e, n) = Expectation(d).words /\ ReadWords(q, s, n) = Expectation(d).words
  BY <1>5, <1>6, <1>7
<1>9. QED
  BY <1>8 DEF p, q, e, s, n

(* The transfers that the tool can judge by the words it has sent.         *)
Independent ==
  /\ RingUntouched /\ Csr!is_enabled(regs)
  /\ \A k \in DOMAIN posted : ~Overwritten(k) /\ ~Chained(k) /\ Preloaded(k)

(* Executed on a board that holds the words that were sent, descriptor k   *)
(* finds the words its source held in the software model, and nothing      *)
(* writes source or destination before or after it.                        *)
LEMMA IndependentRuns ==
  ASSUME ModelInv, Independent, pc = "done", NEW m \in Holders, NEW k \in 1 .. Len(posted),
         \A x \in OutOf(posted[k].desc) :
           At(m, SourceOf(posted[k].desc), x) = At(initial, SourceOf(posted[k].desc), x)
  PROVE  AgreedOn(Runs(m, PostedDescs)[Len(PostedDescs)], posted[k].desc)
<1> DEFINE s == PostedDescs
           n == Len(s)
           d == posted[k].desc
           final == Runs(m, s)[n]
<1>1. /\ s \in Seq(LegalDescs) /\ n = Len(posted) /\ n \in Nat /\ DOMAIN posted = 1 .. n
      /\ \A j \in 1 .. n : s[j] = posted[j].desc
  <2>1. posted \in Seq(Posts) /\ s \in Seq(LegalDescs) /\ n = Len(posted)
        /\ \A j \in 1 .. Len(posted) : s[j] = posted[j].desc
    BY GoldenEnds DEF Independent, ModelInv
  <2>2. QED
    BY <2>1
<1>2. k \in 1 .. n /\ s[k] = d /\ d \in LegalDescs
  <2>1. k \in 1 .. n /\ s[k] = d
    BY <1>1
  <2> HIDE DEF s, d
  <2>2. QED
    BY <1>1, <2>1
<1>3. ASSUME NEW j \in 1 .. n, NEW x \in OutOf(d)
      PROVE  ~Writes(s[j], SourceOf(d), x)
  <2>1. <<SourceOf(d), x>> \in Source(k)
    BY Places
  <2>2. Writes(s[j], SourceOf(d), x) <=> <<SourceOf(d), x>> \in Destination(j)
    BY <1>1, Places
  <2>3. CASE j > k
    BY <1>1, <1>2, <2>1, <2>2, <2>3 DEF Independent, Overwritten
  <2>4. CASE j < k
    BY <1>1, <1>2, <2>1, <2>2, <2>4 DEF Independent, Chained
  <2>5. CASE j = k
    BY <1>2, <2>5, Ranges DEF Writes
  <2>6. QED
    BY <2>3, <2>4, <2>5
<1>4. ASSUME NEW j \in k + 1 .. n, NEW a \in Into(d)
      PROVE  ~Writes(s[j], DestinationOf(d), a)
  <2>1. <<DestinationOf(d), a>> \in Destination(k)
    BY Places DEF Writes
  <2>2. j \in 1 .. n /\ j > k
    BY <1>1, <1>2
  <2>3. Writes(s[j], DestinationOf(d), a) <=> <<DestinationOf(d), a>> \in Destination(j)
    BY <1>1, <2>2, Places
  <2>4. QED
    BY <1>1, <1>2, <2>1, <2>2, <2>3 DEF Independent, Overwritten
<1> HIDE DEF s, d
<1>5. ASSUME NEW x \in OutOf(d)
      PROVE  At(final, SourceOf(d), x) = At(initial, SourceOf(d), x)
  <2>1. /\ 0 \in 0 .. Len(s) /\ Len(s) \in 0 .. Len(s) /\ SourceOf(d) \in Regions
        /\ x \in 0 .. Size(SourceOf(d)) - 1 /\ \A j \in 0 + 1 .. Len(s) : ~Writes(s[j], SourceOf(d), x)
    BY <1>1, <1>2, <1>3, Ranges
  <2>2. At(Runs(m, s)[Len(s)], SourceOf(d), x) = At(Runs(m, s)[0], SourceOf(d), x)
    BY <1>1, <2>1, Stays
  <2>3. Runs(m, s)[0] = m
    BY <1>1, RunsAre
  <2>4. At(m, SourceOf(d), x) = At(initial, SourceOf(d), x)
    BY DEF d
  <2>5. QED
    BY <2>2, <2>3, <2>4
<1>6. ASSUME NEW a \in Into(d)
      PROVE  At(final, DestinationOf(d), a) = At(initial, SourceOf(d), Origin(d, a))
  <2>1. Origin(d, a) \in OutOf(d)
    BY <1>2, Ranges
  <2>2. \A j \in 1 .. k - 1 : ~Writes(s[j], SourceOf(d), Origin(d, a))
    BY <1>1, <1>2, <1>3, <2>1
  <2>3. (\A j \in 1 .. k - 1 : ~Writes(s[j], SourceOf(s[k]), Origin(s[k], a))) =>
          At(Runs(m, s)[Len(s)], DestinationOf(s[k]), a) = At(m, SourceOf(s[k]), Origin(s[k], a))
    BY <1>1, <1>2, <1>4, Moves
  <2>4. At(m, SourceOf(d), Origin(d, a)) = At(initial, SourceOf(d), Origin(d, a))
    BY <2>1 DEF d
  <2>5. QED
    BY <1>2, <2>2, <2>3, <2>4
<1>7. \A a \in Into(d) : Origin(d, a) \in OutOf(d)
  BY <1>2, Ranges
<1>8. AgreedOn(final, d)
  BY <1>5, <1>6, <1>7 DEF AgreedOn
<1>9. QED
  BY <1>8 DEF s, d

(* A board that works has every transfer intact, before and after the      *)
(* verdict.                                                                *)
RightInv ==
  tool = "host_runner" /\ phase \in {"verify", "end"} /\ outcome = "right" /\ Independent =>
    /\ Judged(Len(transfers))
    /\ phase = "verify" => verdict = "none"
    /\ phase = "end" => verdict = "pass"

(* Independence is a matter of what the model posted and the tool sent.    *)
LEMMA IndependentStays ==
  ASSUME goldenVars' = goldenVars, image' = image
  PROVE  Independent' = Independent
<1>1. /\ UNCHANGED <<posted, initial>> /\ RingUntouched' = RingUntouched
      /\ (Csr!is_enabled(regs))' = Csr!is_enabled(regs)
  BY ToolsLeave
<1>2. \A k : /\ Source(k)' = Source(k) /\ Destination(k)' = Destination(k)
  BY <1>1 DEF Source, Destination
<1>3. \A k : /\ Overwritten(k)' = Overwritten(k) /\ Chained(k)' = Chained(k)
             /\ Preloaded(k)' = Preloaded(k)
  BY <1>1, <1>2 DEF Overwritten, Chained, Preloaded
<1>4. QED
  BY <1>1, <1>3 DEF Independent

(* The source words of an independent transfer are on the board.           *)
LEMMA SourcesLoaded ==
  ASSUME ModelInv, SlotsInv, LoadInv, phase = "run", tool = "host_runner", Independent,
         NEW k \in 1 .. Len(posted), NEW x \in OutOf(posted[k].desc)
  PROVE  At(board, SourceOf(posted[k].desc), x) = At(initial, SourceOf(posted[k].desc), x)
<1> DEFINE d == posted[k].desc
           r == SourceOf(d)
<1>1. pc = "done"
  BY DEF LoadInv
<1>2. d \in LegalDescs /\ k \in DOMAIN posted
  <2>1. /\ posted \in Seq(Posts) /\ PostedDescs \in Seq(LegalDescs) /\ Len(PostedDescs) = Len(posted)
        /\ PostedDescs[k] = posted[k].desc
    BY <1>1, GoldenEnds DEF Independent, ModelInv
  <2>2. QED
    BY <2>1
<1>3. r \in Regions /\ x \in 0 .. Size(r) - 1
  BY <1>2, Ranges
<1>4. 4 * x \in DOMAIN image[r]
  <2>1. <<r, x>> \in Source(k)
    BY Places
  <2> HIDE DEF r, d
  <2>2. QED
    BY <1>2, <2>1 DEF Independent, Preloaded
<1>5. /\ Remembered /\ Position = Len(stim)
      /\ \A q \in Regions : \A a \in 0 .. Size(q) - 1 :
           SentTo(Len(stim), q, a) => At(board, q, a) = At(initial, q, a)
  BY LoadedBoard DEF Independent
<1> HIDE DEF r, d
<1>6. \E i \in 1 .. Len(stim) : stim[i].op = OpOf(r) /\ stim[i].addr = 4 * x
  BY <1>3, <1>4, <1>5 DEF Remembered
<1>7. x \in Int /\ (4 * x) \div 4 = x
  BY <1>3, GoldenAssumption DEF Size
<1>8. SentTo(Len(stim), r, x)
  BY <1>6, <1>7 DEF SentTo
<1>9. QED
  BY <1>3, <1>5, <1>8 DEF r, d

(* So a run without mistakes leaves every transfer intact.                 *)
LEMMA RightRuns ==
  ASSUME ModelInv, SlotsInv, LoadInv, RunnerInv, RunDma, tool = "host_runner"
  PROVE  RightInv'
<1> SUFFICES ASSUME phase' \in {"verify", "end"}, outcome' = "right", Independent'
             PROVE  Judged(Len(transfers))' /\ phase' = "verify" /\ verdict' = "none"
  BY DEF RightInv
<1>1. /\ phase = "run" /\ UNCHANGED <<goldenVars, image, transfers>>
      /\ phase' = "verify" /\ verdict' = verdict /\ board' = Run(BoardDescs)
  BY DEF RunDma
<1>2. Independent
  BY <1>1, IndependentStays
<1>3. pc = "done" /\ verdict = "none" /\ Walked
  BY <1>1 DEF RunnerInv
<1>4. board \in Holders /\ BoardDescs = PostedDescs
  BY <1>1, <1>2, LoadedBoard DEF Independent
<1>5. Len(transfers) = Len(posted) /\ \A k \in 1 .. Len(posted) : transfers[k] = Expectation(posted[k].desc)
  BY <1>2, <1>3 DEF Walked, Independent
<1>6. PICK m : m = board'
  OBVIOUS
<1>7. ASSUME NEW k \in 1 .. Len(posted)
      PROVE  /\ transfers'[k].desc = posted[k].desc
             /\ ReadWords(m[DestinationOf(posted[k].desc)], Dst(posted[k].desc) \div 4, Beats(posted[k].desc))
                  = transfers'[k].words
             /\ ReadWords(m[SourceOf(posted[k].desc)], Src(posted[k].desc) \div 4, Beats(posted[k].desc))
                  = transfers'[k].words
  <2> DEFINE d == posted[k].desc
  <2>1. d \in LegalDescs
    <3>1. /\ PostedDescs \in Seq(LegalDescs) /\ Len(PostedDescs) = Len(posted)
          /\ PostedDescs[k] = posted[k].desc
      BY <1>2, <1>3, GoldenEnds DEF Independent, ModelInv
    <3>2. QED
      BY <3>1
  <2>2. \A x \in OutOf(d) : At(board, SourceOf(d), x) = At(initial, SourceOf(d), x)
    BY <1>1, <1>2, SourcesLoaded
  <2>3. m = Runs(board, PostedDescs)[Len(PostedDescs)]
    BY <1>1, <1>4, <1>6 DEF Run
  <2>4. AgreedOn(m, d)
    BY <1>2, <1>3, <1>4, <2>2, <2>3, IndependentRuns
  <2>5. /\ ReadWords(m[DestinationOf(d)], Dst(d) \div 4, Beats(d)) = Expectation(d).words
        /\ ReadWords(m[SourceOf(d)], Src(d) \div 4, Beats(d)) = Expectation(d).words
    BY <2>1, <2>4, AgreedReads
  <2>6. transfers'[k] = Expectation(d) /\ Expectation(d).desc = d
    BY <1>1, <1>5 DEF Expectation
  <2>7. QED
    BY <2>5, <2>6
<1>8. Judged(Len(transfers))'
  BY <1>1, <1>5, <1>6, <1>7 DEF Judged, Intact, Words
<1>9. QED
  BY <1>1, <1>3, <1>8

(* A step that judges or moves nothing.                                    *)
LEMMA RightKeeps ==
  ASSUME RightInv, UNCHANGED <<goldenVars, board, outcome, tool, phase, verdict, image, transfers>>
  PROVE  RightInv'
<1>1. Independent' = Independent
  BY IndependentStays
<1>2. PICK n : n = Len(transfers)
  OBVIOUS
<1>3. Judged(n) => \A k \in 1 .. n : (Beats(transfers[k].desc) = 0 \/ Intact(transfers[k]))'
  BY JudgedStays
<1>4. Judged(Len(transfers)) => Judged(Len(transfers))'
  BY <1>2, <1>3 DEF Judged
<1>5. QED
  BY <1>1, <1>4 DEF RightInv

(* Every step keeps the transfers intact until the verdict.                *)
LEMMA RightStep ==
  /\ ModelInv /\ SlotsInv /\ LoadInv /\ HomeInv /\ RunnerInv /\ RightInv
  /\ [vNext]_verifyVars
  => RightInv'
<1> SUFFICES ASSUME ModelInv, SlotsInv, LoadInv, HomeInv, RunnerInv, RightInv, [vNext]_verifyVars
             PROVE  RightInv'
  OBVIOUS
<1>1. CASE Start \/ ClearMemories \/ SendLine \/ WalkRing \/ StimSent
  <2>1. phase' \in {"clear", "send", "run"} \/ tool' # "host_runner"
    BY <1>1 DEF Start, ClearMemories, SendLine, WalkRing, StimSent
  <2>2. QED
    BY <2>1 DEF RightInv
<1>2. CASE RunDma
  <2>1. tool' = tool
    BY <1>2 DEF RunDma
  <2>2. QED
    BY <1>2, <2>1, RightRuns DEF RightInv
<1>3. CASE VerifyTransfer \/ Report
  <2>1. /\ phase = "verify" /\ UNCHANGED <<goldenVars, board, outcome, tool, image, transfers>>
        /\ tool = "host_runner"
    BY <1>3 DEF VerifyTransfer, Report, boardVars
  <2>2. Independent' = Independent
    BY <2>1, IndependentStays
  <2>3. PICK n : n = Len(transfers)
    OBVIOUS
  <2>4. Judged(n) => \A k \in 1 .. n : (Beats(transfers[k].desc) = 0 \/ Intact(transfers[k]))'
    BY <2>1, JudgedStays
  <2>5. Judged(Len(transfers)) => Judged(Len(transfers))'
    BY <2>1, <2>3, <2>4 DEF Judged
  <2>6. CASE VerifyTransfer
    <3>1. /\ phase' = "verify" /\ checked < Len(transfers)
          /\ verdict' = (IF \/ Beats(transfers[checked + 1].desc) = 0
                            \/ Intact(transfers[checked + 1]) THEN verdict ELSE "fail")
      BY <2>6 DEF VerifyTransfer
    <3>2. checked + 1 \in 1 .. Len(transfers)
      BY <2>1, <3>1 DEF RunnerInv
    <3>3. Judged(Len(transfers)) => verdict' = verdict
      BY <3>1, <3>2 DEF Judged
    <3>4. QED
      BY <2>1, <2>2, <2>5, <3>1, <3>3 DEF RightInv
  <2>7. CASE Report
    <3>1. phase' = "end" /\ verdict' = (IF verdict = "none" THEN "pass" ELSE "fail")
      BY <2>7 DEF Report
    <3>2. QED
      BY <2>1, <2>2, <2>5, <3>1 DEF RightInv
  <2>8. QED
    BY <1>3, <2>6, <2>7
<1>4. CASE VerifyCrcs \/ DryRun
  <2>1. tool' = tool /\ tool # "host_runner"
    BY <1>4 DEF VerifyCrcs, DryRun
  <2>2. QED
    BY <2>1 DEF RightInv
<1>5. CASE RunGolden
  <2>1. tool' = tool /\ phase = "golden"
    BY <1>5 DEF RunGolden, hostVars
  <2>2. QED
    BY <2>1 DEF RightInv, HomeInv
<1>6. CASE Display \/ Stop \/ UNCHANGED verifyVars
  <2>1. UNCHANGED <<goldenVars, board, outcome, tool, phase, verdict, image, transfers>>
    BY <1>6 DEF Display, Stop, verifyVars, boardVars, hostVars
  <2>2. QED
    BY <2>1, RightKeeps
<1>7. QED
  BY <1>1, <1>2, <1>3, <1>4, <1>5, <1>6 DEF vNext, Host

(* host_runner.py accepts every board that works when no transfer touches  *)
(* what another reads or writes and the stimulus has every source word,    *)
(* whatever an earlier test left in the memories.  As in RunnerPassIsSound *)
(* only enqueue may have written the ring and addresses are aligned; and   *)
(* the scenario enables the ring, because a model that does not run it     *)
(* says nothing of the descriptors.                                        *)
THEOREM RunnerIsComplete ==
  ASSUME AlignedRows
  PROVE  vSpec => [](RingUntouched /\ Csr!is_enabled(regs) => RunnerAcceptsIndependent)
<1>1. ModelInv /\ AlignInv /\ [vNext]_verifyVars => AlignInv'
  BY ToolsWatch, AlignStep DEF ModelInv, ExecutedInv, PostedInv
<1>2. RightInv => (RingUntouched /\ Csr!is_enabled(regs) => RunnerAcceptsIndependent)
  BY DEF RightInv, RunnerAcceptsIndependent, Independent
<1>3. vInit => RightInv
  BY DEF vInit, RightInv
<1>4. QED
  BY <1>1, <1>2, <1>3, ModelInit, ModelStep, HomeStep, RunnerInit, RunnerStep, SerialInit, WatchedStep,
     LoadStep, RightStep, PTL DEF vSpec
-----------------------------------------------------------------------------
(* The live display.  Each judged transfer sends one block of events: the  *)
(* expected cells of destination and source, each word as it is read, and  *)
(* a tick for each cell.                                                   *)

(* The cells of one memory in the course of a block: the first f are       *)
(* filled, the first m have their tick.                                    *)
CellRow(addr, got, n, f, m, tick) ==
  [j \in 1 .. n |-> [addr |-> addr + 4 * (j - 1), value |-> IF j <= f THEN got[j] ELSE 0,
                     status |-> IF j <= m THEN tick ELSE IF j <= f THEN "filled" ELSE "pending"]]

(* No two cells have the same address.                                     *)
LEMMA CellFound ==
  ASSUME NEW addr \in Nat, NEW n \in Nat, NEW cells, NEW i \in 1 .. n, NEW a, a = addr + 4 * (i - 1),
         DOMAIN cells = 1 .. n, \A j \in 1 .. n : cells[j].addr = addr + 4 * (j - 1)
  PROVE  V!Has(cells, a) /\ V!First(cells, a) = i
<1>1. DOMAIN cells = 1 .. n /\ \A j \in 1 .. n : cells[j].addr = addr + 4 * (j - 1)
  OBVIOUS
<1>2. cells[i].addr = a /\ \A j \in 1 .. n : cells[j].addr = a => j = i
  BY <1>1
<1>3. V!Has(cells, a)
  BY <1>1, <1>2 DEF V!Has
<1> DEFINE P(x) == cells[x].addr = a /\ \A j \in 1 .. x - 1 : cells[j].addr # a
<1>4. P(i)
  BY <1>1, <1>2
<1>5. \A x \in 1 .. n : P(x) => x = i
  BY <1>2
<1>6. V!First(cells, a) = CHOOSE x \in 1 .. n : P(x)
  BY <1>1 DEF V!First
<1> HIDE DEF P
<1>7. V!First(cells, a) = i
  BY <1>4, <1>5, <1>6
<1>8. QED
  BY <1>3, <1>7

Filled(cells, addr, value) == [cells EXCEPT ![V!First(cells, addr)] = V!Cell(addr, value, "filled")]

(* One more word is shown.                                                 *)
LEMMA CellFills ==
  ASSUME NEW addr \in Nat, NEW got, NEW n \in Nat, NEW tick, NEW f \in 0 .. n - 1
  PROVE  LET cells == CellRow(addr, got, n, f, 0, tick)  a == addr + 4 * f
         IN  /\ V!Has(cells, a)
             /\ Filled(cells, a, got[f + 1]) = CellRow(addr, got, n, f + 1, 0, tick)
<1> DEFINE cells == CellRow(addr, got, n, f, 0, tick)
           a == addr + 4 * f
<1>1. f + 1 \in 1 .. n /\ addr + 4 * ((f + 1) - 1) = a
  OBVIOUS
<1>2. V!Has(cells, a) /\ V!First(cells, a) = f + 1
  <2> DEFINE i == f + 1
  <2>1. i \in 1 .. n /\ a = addr + 4 * (i - 1)
    BY <1>1
  <2> HIDE DEF i
  <2>2. DOMAIN cells = 1 .. n /\ \A j \in 1 .. n : cells[j].addr = addr + 4 * (j - 1)
    BY DEF CellRow
  <2> HIDE DEF a, cells
  <2>3. V!Has(cells, a) /\ V!First(cells, a) = i
    BY <2>1, <2>2, CellFound
  <2>4. QED
    BY <2>3 DEF i
<1>3. [cells EXCEPT ![f + 1] = V!Cell(a, got[f + 1], "filled")] = CellRow(addr, got, n, f + 1, 0, tick)
  <2> DEFINE c == V!Cell(a, got[f + 1], "filled")
             after == CellRow(addr, got, n, f + 1, 0, tick)
  <2>1. cells = [j \in 1 .. n |-> cells[j]] /\ after = [j \in 1 .. n |-> after[j]]
    BY DEF CellRow
  <2>2. \A j \in 1 .. n : after[j] = IF j = f + 1 THEN c ELSE cells[j]
    <3> SUFFICES ASSUME NEW j \in 1 .. n PROVE after[j] = IF j = f + 1 THEN c ELSE cells[j]
      OBVIOUS
    <3>1. CASE j = f + 1
      BY <1>1, <3>1 DEF CellRow, V!Cell
    <3>2. CASE j # f + 1
      <4>1. ~(j <= 0) /\ (j <= f + 1 <=> j <= f)
        BY <3>2
      <4>2. QED
        BY <3>2, <4>1 DEF CellRow
    <3>3. QED
      BY <3>1, <3>2
  <2> HIDE DEF cells, c, after
  <2>3. [cells EXCEPT ![f + 1] = c] = after
    BY <1>1, <2>1, <2>2
  <2>4. QED
    BY <2>3 DEF c, after
<1>4. QED
  BY <1>2, <1>3 DEF Filled

Ticked(cells, addr, tick) == [cells EXCEPT ![V!First(cells, addr)].status = tick]

(* One more cell has its tick.                                             *)
LEMMA CellTicks ==
  ASSUME NEW addr \in Nat, NEW got, NEW n \in Nat, NEW tick, NEW m \in 0 .. n - 1
  PROVE  LET cells == CellRow(addr, got, n, n, m, tick)  a == addr + 4 * m
         IN  /\ V!Has(cells, a)
             /\ Ticked(cells, a, tick) = CellRow(addr, got, n, n, m + 1, tick)
<1> DEFINE cells == CellRow(addr, got, n, n, m, tick)
           a == addr + 4 * m
<1>1. m + 1 \in 1 .. n /\ addr + 4 * ((m + 1) - 1) = a
  OBVIOUS
<1>2. V!Has(cells, a) /\ V!First(cells, a) = m + 1
  <2> DEFINE i == m + 1
  <2>1. i \in 1 .. n /\ a = addr + 4 * (i - 1)
    BY <1>1
  <2> HIDE DEF i
  <2>2. DOMAIN cells = 1 .. n /\ \A j \in 1 .. n : cells[j].addr = addr + 4 * (j - 1)
    BY DEF CellRow
  <2> HIDE DEF a, cells
  <2>3. V!Has(cells, a) /\ V!First(cells, a) = i
    BY <2>1, <2>2, CellFound
  <2>4. QED
    BY <2>3 DEF i
<1>3. [cells EXCEPT ![m + 1].status = tick] = CellRow(addr, got, n, n, m + 1, tick)
  <2> DEFINE after == CellRow(addr, got, n, n, m + 1, tick)
  <2>1. cells = [j \in 1 .. n |-> cells[j]] /\ after = [j \in 1 .. n |-> after[j]]
    BY DEF CellRow
  <2>2. \A j \in 1 .. n : after[j] = IF j = m + 1 THEN [cells[j] EXCEPT !.status = tick] ELSE cells[j]
    <3> SUFFICES ASSUME NEW j \in 1 .. n
                 PROVE  after[j] = IF j = m + 1 THEN [cells[j] EXCEPT !.status = tick] ELSE cells[j]
      OBVIOUS
    <3>1. CASE j = m + 1
      BY <1>1, <3>1 DEF CellRow
    <3>2. CASE j # m + 1
      <4>1. j <= m + 1 <=> j <= m
        BY <3>2
      <4>2. QED
        BY <3>2, <4>1 DEF CellRow
    <3>3. QED
      BY <3>1, <3>2
  <2> HIDE DEF cells, after
  <2>3. [cells EXCEPT ![m + 1] = [cells[m + 1] EXCEPT !.status = tick]] = after
    BY <1>1, <2>1, <2>2
  <2>4. QED
    BY <2>3 DEF after
<1>4. QED
  BY <1>2, <1>3 DEF Ticked

(* A new table of pending cells.                                           *)
LEMMA CellsPend ==
  ASSUME NEW addr \in Nat, NEW words, NEW n \in Nat, DOMAIN words = 1 .. n, NEW got, NEW tick
  PROVE  LET cells == Cells(addr, words)
         IN  [i \in DOMAIN cells |-> V!Cell(cells[i].addr, 0, "pending")] = CellRow(addr, got, n, 0, 0, tick)
<1>1. DOMAIN Cells(addr, words) = 1 .. n /\ \A i \in 1 .. n : Cells(addr, words)[i].addr = addr + 4 * (i - 1)
  BY DEF Cells, V!Cell
<1>2. QED
  BY <1>1 DEF CellRow, V!Cell

(* The tables of the display, and what one event makes of them.            *)
Tables == [expected |-> expected, actual |-> actual]

HasBoth(t) ==
  /\ t.expected = [r \in V!Regions |-> t.expected[r]]
  /\ t.actual = [r \in V!Regions |-> t.actual[r]]

EventTypes == {"expected", "actual", "match", "fail"}

Handled(t, ev) ==
  LET cells == t.actual[ev.region]
      filled == V!Cell(ev.addr, ev.value, "filled")
  IN  CASE ev.type = "expected" ->
             [expected |-> [t.expected EXCEPT ![ev.region] = ev.cells],
              actual |-> [t.actual EXCEPT ![ev.region] =
                            [i \in DOMAIN ev.cells |-> V!Cell(ev.cells[i].addr, 0, "pending")]]]
        [] ev.type = "actual" ->
             [expected |-> t.expected,
              actual |-> [t.actual EXCEPT ![ev.region] =
                            IF V!Has(cells, ev.addr) THEN [cells EXCEPT ![V!First(cells, ev.addr)] = filled]
                            ELSE Append(cells, filled)]]
        [] ev.type \in {"match", "fail"} ->
             [expected |-> t.expected,
              actual |-> [t.actual EXCEPT ![ev.region] =
                            IF V!Has(cells, ev.addr)
                            THEN [cells EXCEPT ![V!First(cells, ev.addr)].status = ev.type] ELSE cells]]

(* That is what the reader does.                                           *)
LEMMA ReaderHandles ==
  ASSUME V!stdin_reader, HasBoth(Tables), Head(pipe).type \in EventTypes, Head(pipe).region \in V!Regions
  PROVE  /\ Tables' = Handled(Tables, Head(pipe)) /\ pipe # <<>> /\ pipe' = Tail(pipe)
         /\ viewing' = viewing
<1> DEFINE ev == Head(pipe)
           r == ev.region
           cells == actual[r]
<1>1. pipe # <<>> /\ pipe' = Tail(pipe) /\ viewing' = viewing
  BY DEF V!stdin_reader
<1>2. CASE ev.type = "expected"
  <2>1. /\ expected' = [expected EXCEPT ![ev.region] = ev.cells]
        /\ actual' = [actual EXCEPT ![ev.region] =
                        [i \in DOMAIN ev.cells |-> V!Cell(ev.cells[i].addr, 0, "pending")]]
    BY <1>2 DEF V!stdin_reader, V!on_expected
  <2>2. QED
    BY <1>1, <1>2, <2>1 DEF Tables, Handled
<1>3. CASE ev.type = "actual"
  <2>1. /\ expected' = expected
        /\ actual' = [actual EXCEPT ![r] =
                        IF V!Has(cells, ev.addr)
                        THEN [cells EXCEPT ![V!First(cells, ev.addr)] = V!Cell(ev.addr, ev.value, "filled")]
                        ELSE Append(cells, V!Cell(ev.addr, ev.value, "filled"))]
    BY <1>3 DEF V!stdin_reader, V!on_actual, HasBoth, Tables
  <2>2. QED
    BY <1>1, <1>3, <2>1 DEF Tables, Handled
<1>4. CASE ev.type \in {"match", "fail"}
  <2>1. /\ expected' = expected
        /\ actual' = [actual EXCEPT ![r] =
                        IF V!Has(cells, ev.addr)
                        THEN [cells EXCEPT ![V!First(cells, ev.addr)].status = ev.type] ELSE cells]
    BY <1>4 DEF V!stdin_reader, V!on_terminal, HasBoth, Tables
  <2>2. QED
    BY <1>1, <1>4, <2>1 DEF Tables, Handled
<1>5. QED
  BY <1>2, <1>3, <1>4 DEF EventTypes

(* Both memories stay in the tables.                                       *)
LEMMA HandledBoth ==
  ASSUME NEW t, HasBoth(t), NEW ev, ev.type \in EventTypes, ev.region \in V!Regions
  PROVE  HasBoth(Handled(t, ev))
BY DEF HasBoth, Handled, EventTypes

(* No tick where the cell shows another word than expected; a tick on      *)
(* every cell.                                                             *)
TrueTicks(t) ==
  \A r \in V!Regions : \A i \in DOMAIN t.actual[r] :
    t.actual[r][i].status = "match" =>
      \E j \in DOMAIN t.expected[r] :
        t.expected[r][j].addr = t.actual[r][i].addr /\ t.expected[r][j].value = t.actual[r][i].value

AllTicked(t) == \A r \in V!Regions : \A i \in DOMAIN t.actual[r] : t.actual[r][i].status = "match"

(* The events of one transfer, by their place.                             *)
EventAt(t, k) ==
  LET d == t.desc  n == Beats(d)  w == t.words
      into == DestinationOf(d)  from == SourceOf(d)
      there == Words(into, Dst(d), n)  here == Words(from, Src(d), n)
  IN  IF k = 1 THEN [type |-> "expected", region |-> into, cells |-> Cells(Dst(d), w)]
      ELSE IF k = 2 THEN [type |-> "expected", region |-> from, cells |-> Cells(Src(d), w)]
      ELSE IF k - 2 <= n
      THEN [type |-> "actual", region |-> into, addr |-> Dst(d) + 4 * (k - 2 - 1), value |-> there[k - 2]]
      ELSE IF k - 2 - n <= n
      THEN [type |-> "actual", region |-> from, addr |-> Src(d) + 4 * (k - 2 - n - 1), value |-> here[k - 2 - n]]
      ELSE IF k - 2 - n - n <= n
      THEN [type |-> IF there = w THEN "match" ELSE "fail", region |-> into,
            addr |-> Dst(d) + 4 * (k - 2 - n - n - 1)]
      ELSE [type |-> IF here = w THEN "match" ELSE "fail", region |-> from,
            addr |-> Src(d) + 4 * (k - 2 - n - n - n - 1)]

Events(t) == Announce(t) \o Verdicts(t)

WellSent(t) ==
  /\ t.desc \in Descriptors
  /\ t.words = [j \in 1 .. Beats(t.desc) |-> t.words[j]]

(* Their order.                                                            *)
LEMMA EventsAre ==
  ASSUME NEW t, WellSent(t)
  PROVE  LET n == Beats(t.desc)
         IN  /\ n \in Nat /\ Src(t.desc) \in Nat /\ Dst(t.desc) \in Nat
             /\ \E S : Events(t) \in Seq(S)
             /\ Len(Events(t)) = 2 + n + n + n + n
             /\ \A k \in 1 .. 2 + n + n + n + n : Events(t)[k] = EventAt(t, k)
<1> DEFINE d == t.desc
           n == Beats(d)
           into == DestinationOf(d)
           from == SourceOf(d)
           there == Words(into, Dst(d), n)
           here == Words(from, Src(d), n)
           e1 == [type |-> "expected", region |-> into, cells |-> Cells(Dst(d), t.words)]
           e2 == [type |-> "expected", region |-> from, cells |-> Cells(Src(d), t.words)]
           head == <<e1, e2>>
           s1(j) == [type |-> "actual", region |-> into, addr |-> Dst(d) + 4 * (j - 1), value |-> there[j]]
           s2(j) == [type |-> "actual", region |-> from, addr |-> Src(d) + 4 * (j - 1), value |-> here[j]]
           t1(j) == [type |-> IF there = t.words THEN "match" ELSE "fail", region |-> into,
                     addr |-> Dst(d) + 4 * (j - 1)]
           t2(j) == [type |-> IF here = t.words THEN "match" ELSE "fail", region |-> from,
                     addr |-> Src(d) + 4 * (j - 1)]
           b1 == [j \in 1 .. n |-> s1(j)]
           b2 == [j \in 1 .. n |-> s2(j)]
           b3 == [j \in 1 .. n |-> t1(j)]
           b4 == [j \in 1 .. n |-> t2(j)]
           S == {e1, e2} \cup {s1(j) : j \in 1 .. n} \cup {s2(j) : j \in 1 .. n}
                \cup {t1(j) : j \in 1 .. n} \cup {t2(j) : j \in 1 .. n}
<1>1. n \in Nat /\ Src(d) \in Nat /\ Dst(d) \in Nat
  BY Fields DEF WellSent
<1>2. DOMAIN there = 1 .. n /\ DOMAIN here = 1 .. n
  BY DEF Words, ReadWords
<1>3. Events(t) = ((head \o b1) \o b2) \o (b3 \o b4)
  BY <1>2 DEF Events, Announce, Verdicts, ShownWords, Ticks
<1>4. \A k \in 1 .. 2 + n + n + n + n :
        EventAt(t, k) = IF k = 1 THEN e1 ELSE IF k = 2 THEN e2
                        ELSE IF k - 2 <= n THEN s1(k - 2)
                        ELSE IF k - 2 - n <= n THEN s2(k - 2 - n)
                        ELSE IF k - 2 - n - n <= n THEN t1(k - 2 - n - n)
                        ELSE t2(k - 2 - n - n - n)
  BY DEF EventAt
<1>5. /\ head[1] = e1 /\ head[2] = e2 /\ Len(head) = 2 /\ e1 \in S /\ e2 \in S
      /\ \A j \in 1 .. n : s1(j) \in S /\ s2(j) \in S /\ t1(j) \in S /\ t2(j) \in S
  OBVIOUS
<1> HIDE DEF e1, e2, s1, s2, t1, t2, S
<1>6. head \in Seq(S)
  BY <1>5
<1> HIDE DEF head, n
<1>7. /\ b1 \in Seq(S) /\ b2 \in Seq(S) /\ b3 \in Seq(S) /\ b4 \in Seq(S)
      /\ Len(b1) = n /\ Len(b2) = n /\ Len(b3) = n /\ Len(b4) = n
      /\ \A j \in 1 .. n : b1[j] = s1(j) /\ b2[j] = s2(j) /\ b3[j] = t1(j) /\ b4[j] = t2(j)
  BY <1>1, <1>5
<1> HIDE DEF b1, b2, b3, b4
<1> DEFINE c1 == head \o b1
           c2 == c1 \o b2
           c3 == b3 \o b4
<1>8. /\ c1 \in Seq(S) /\ Len(c1) = 2 + n
      /\ \A k \in 1 .. 2 + n : c1[k] = IF k <= 2 THEN head[k] ELSE b1[k - 2]
  <2> DEFINE x == head
             y == b1
  <2>1. x \in Seq(S) /\ y \in Seq(S)
    BY <1>6, <1>7
  <2> HIDE DEF x, y
  <2>2. /\ x \o y \in Seq(S) /\ Len(x \o y) = Len(x) + Len(y)
        /\ \A k \in 1 .. Len(x) + Len(y) : (x \o y)[k] = IF k <= Len(x) THEN x[k] ELSE y[k - Len(x)]
    BY <2>1, ConcatProperties
  <2>3. c1 = x \o y
    BY DEF x, y
  <2>4. Len(x) = Len(head) /\ Len(y) = Len(b1) /\ x = head /\ y = b1
    BY DEF x, y
  <2> HIDE DEF c1
  <2>5. QED
    BY <1>1, <1>5, <1>7, <2>2, <2>3, <2>4
<1> HIDE DEF c1
<1>9. /\ c2 \in Seq(S) /\ Len(c2) = 2 + n + n
      /\ \A k \in 1 .. 2 + n + n : c2[k] = IF k <= 2 + n THEN c1[k] ELSE b2[k - (2 + n)]
  <2> DEFINE x == c1
             y == b2
  <2>1. x \in Seq(S) /\ y \in Seq(S)
    BY <1>7, <1>8
  <2> HIDE DEF x, y
  <2>2. /\ x \o y \in Seq(S) /\ Len(x \o y) = Len(x) + Len(y)
        /\ \A k \in 1 .. Len(x) + Len(y) : (x \o y)[k] = IF k <= Len(x) THEN x[k] ELSE y[k - Len(x)]
    BY <2>1, ConcatProperties
  <2>3. c2 = x \o y
    BY DEF x, y
  <2>4. Len(x) = Len(c1) /\ Len(y) = Len(b2) /\ x = c1 /\ y = b2
    BY DEF x, y
  <2> HIDE DEF c2
  <2>5. QED
    BY <1>1, <1>7, <1>8, <2>2, <2>3, <2>4
<1>10. /\ c3 \in Seq(S) /\ Len(c3) = n + n
       /\ \A k \in 1 .. n + n : c3[k] = IF k <= n THEN b3[k] ELSE b4[k - n]
  <2> DEFINE x == b3
             y == b4
  <2>1. x \in Seq(S) /\ y \in Seq(S)
    BY <1>7
  <2> HIDE DEF x, y
  <2>2. /\ x \o y \in Seq(S) /\ Len(x \o y) = Len(x) + Len(y)
        /\ \A k \in 1 .. Len(x) + Len(y) : (x \o y)[k] = IF k <= Len(x) THEN x[k] ELSE y[k - Len(x)]
    BY <2>1, ConcatProperties
  <2>3. c3 = x \o y
    BY DEF x, y
  <2>4. Len(x) = Len(b3) /\ Len(y) = Len(b4) /\ x = b3 /\ y = b4
    BY DEF x, y
  <2> HIDE DEF c3
  <2>5. QED
    BY <1>1, <1>7, <2>2, <2>3, <2>4
<1> HIDE DEF c2, c3
<1>11. /\ c2 \o c3 \in Seq(S) /\ Len(c2 \o c3) = (2 + n + n) + (n + n)
       /\ \A k \in 1 .. (2 + n + n) + (n + n) :
            (c2 \o c3)[k] = IF k <= 2 + n + n THEN c2[k] ELSE c3[k - (2 + n + n)]
  <2>1. /\ c2 \o c3 \in Seq(S) /\ Len(c2 \o c3) = Len(c2) + Len(c3)
        /\ \A k \in 1 .. Len(c2) + Len(c3) :
             (c2 \o c3)[k] = IF k <= Len(c2) THEN c2[k] ELSE c3[k - Len(c2)]
    <3>1. c2 \in Seq(S) /\ c3 \in Seq(S)
      BY <1>9, <1>10
    <3>2. QED
      BY <3>1, ConcatProperties
  <2> DEFINE c4 == c2 \o c3
             l2 == Len(c2)
             l3 == Len(c3)
  <2>2. l2 = 2 + n + n /\ l3 = n + n
    BY <1>9, <1>10
  <2>3. /\ c4 \in Seq(S) /\ Len(c4) = l2 + l3
        /\ \A k \in 1 .. l2 + l3 : c4[k] = IF k <= l2 THEN c2[k] ELSE c3[k - l2]
    BY <2>1
  <2> HIDE DEF c4, l2, l3
  <2>4. /\ c4 \in Seq(S) /\ Len(c4) = (2 + n + n) + (n + n)
        /\ \A k \in 1 .. (2 + n + n) + (n + n) :
             c4[k] = IF k <= 2 + n + n THEN c2[k] ELSE c3[k - (2 + n + n)]
    BY <2>2, <2>3
  <2>5. QED
    BY <2>4 DEF c4
<1>12. Events(t) = c2 \o c3
  BY <1>3 DEF c1, c2, c3
<1>13. ASSUME NEW k \in 1 .. 2 + n + n + n + n
       PROVE  Events(t)[k] = EventAt(t, k)
  <2> DEFINE x == (c2 \o c3)[k]
  <2>1. k \in 1 .. (2 + n + n) + (n + n) /\ x = IF k <= 2 + n + n THEN c2[k] ELSE c3[k - (2 + n + n)]
    <3>1. k \in 1 .. (2 + n + n) + (n + n)
      BY <1>1
    <3>2. QED
      BY <1>11, <3>1
  <2> HIDE DEF x
  <2>2. CASE k <= 2
    BY <1>1, <1>4, <1>5, <1>8, <1>9, <2>1, <2>2, <1>12 DEF x
  <2>3. CASE k > 2 /\ k <= 2 + n
    <3>1. x = b1[k - 2] /\ k - 2 \in 1 .. n
      BY <1>1, <1>8, <1>9, <2>1, <2>3
    <3>2. EventAt(t, k) = s1(k - 2)
      BY <1>1, <1>4, <2>3
    <3>3. QED
      BY <1>7, <1>12, <3>1, <3>2 DEF x
  <2>4. CASE k > 2 + n /\ k <= 2 + n + n
    <3>1. x = b2[k - 2 - n] /\ k - 2 - n \in 1 .. n
      <4>1. k - (2 + n) = k - 2 - n
        BY <1>1
      <4>2. QED
        BY <1>1, <1>9, <2>1, <2>4, <4>1
    <3>2. EventAt(t, k) = s2(k - 2 - n)
      BY <1>1, <1>4, <2>4
    <3>3. QED
      BY <1>7, <1>12, <3>1, <3>2 DEF x
  <2>5. CASE k > 2 + n + n /\ k <= 2 + n + n + n
    <3>1. x = b3[k - 2 - n - n] /\ k - 2 - n - n \in 1 .. n
      <4>1. k - (2 + n + n) = k - 2 - n - n /\ k - 2 - n - n \in 1 .. n
        BY <1>1, <2>5
      <4>2. QED
        BY <1>1, <1>10, <2>1, <2>5, <4>1
    <3>2. EventAt(t, k) = t1(k - 2 - n - n)
      BY <1>1, <1>4, <2>5
    <3>3. QED
      BY <1>7, <1>12, <3>1, <3>2 DEF x
  <2>6. CASE k > 2 + n + n + n
    <3>1. x = b4[k - 2 - n - n - n] /\ k - 2 - n - n - n \in 1 .. n
      <4>1. k - (2 + n + n) \in 1 .. n + n /\ ~(k - (2 + n + n) <= n)
            /\ k - (2 + n + n) - n = k - 2 - n - n - n /\ k - 2 - n - n - n \in 1 .. n
        BY <1>1, <2>6
      <4>2. QED
        BY <1>1, <1>10, <2>1, <2>6, <4>1
    <3>2. EventAt(t, k) = t2(k - 2 - n - n - n)
      BY <1>1, <1>4, <2>6
    <3>3. QED
      BY <1>7, <1>12, <3>1, <3>2 DEF x
  <2>7. QED
    BY <1>1, <2>2, <2>3, <2>4, <2>5, <2>6
<1>14. Len(Events(t)) = 2 + n + n + n + n /\ Events(t) \in Seq(S)
  BY <1>1, <1>11, <1>12
<1>15. QED
  BY <1>1, <1>13, <1>14 DEF n

(* The tables in the course of a block, when both memories have their      *)
(* expected cells: f1 cells of the destination and f2 of the source are    *)
(* filled, m1 and m2 have their tick.                                      *)
Tab(t, f1, f2, m1, m2) ==
  LET d == t.desc  n == Beats(d)
      into == DestinationOf(d)  from == SourceOf(d)
      there == Words(into, Dst(d), n)  here == Words(from, Src(d), n)
  IN  [expected |-> [r \in V!Regions |-> IF r = into THEN Cells(Dst(d), t.words) ELSE Cells(Src(d), t.words)],
       actual |-> [r \in V!Regions |->
                     IF r = into THEN CellRow(Dst(d), there, n, f1, m1, IF there = t.words THEN "match" ELSE "fail")
                     ELSE CellRow(Src(d), here, n, f2, m2, IF here = t.words THEN "match" ELSE "fail")]]

(* The two memories of a transfer.                                         *)
LEMMA TwoEnds ==
  ASSUME NEW d
  PROVE  /\ DestinationOf(d) \in V!Regions /\ SourceOf(d) \in V!Regions /\ SourceOf(d) # DestinationOf(d)
         /\ V!Regions = {DestinationOf(d), SourceOf(d)}
BY DEF DestinationOf, SourceOf, V!Regions

(* All events can be handled.                                              *)
LEMMA EventsKnown ==
  ASSUME NEW t, NEW k
  PROVE  EventAt(t, k).type \in EventTypes /\ EventAt(t, k).region \in V!Regions
<1>1. DestinationOf(t.desc) \in V!Regions /\ SourceOf(t.desc) \in V!Regions
  BY TwoEnds
<1>2. QED
  BY <1>1 DEF EventAt, EventTypes

(* The first two events.                                                   *)
LEMMA TabStarts ==
  ASSUME NEW t, WellSent(t), NEW t0, HasBoth(t0)
  PROVE  Handled(Handled(t0, EventAt(t, 1)), EventAt(t, 2)) = Tab(t, 0, 0, 0, 0)
<1> DEFINE d == t.desc
           n == Beats(d)
           w == t.words
           into == DestinationOf(d)
           from == SourceOf(d)
           ce == Cells(Dst(d), w)
           cs == Cells(Src(d), w)
           pe == [i \in DOMAIN ce |-> V!Cell(ce[i].addr, 0, "pending")]
           ps == [i \in DOMAIN cs |-> V!Cell(cs[i].addr, 0, "pending")]
           there == Words(into, Dst(d), n)
           here == Words(from, Src(d), n)
           re == CellRow(Dst(d), there, n, 0, 0, IF there = w THEN "match" ELSE "fail")
           rs == CellRow(Src(d), here, n, 0, 0, IF here = w THEN "match" ELSE "fail")
           E == t0.expected
           A == t0.actual
<1>1. n \in Nat /\ Src(d) \in Nat /\ Dst(d) \in Nat /\ DOMAIN w = 1 .. n
  BY EventsAre DEF WellSent
<1>2. pe = re /\ ps = rs
  <2> HIDE DEF n, w, there, here, d
  <2>1. QED
    BY <1>1, CellsPend
<1>3. into # from /\ V!Regions = {into, from}
  BY TwoEnds
<1>4. E = [r \in V!Regions |-> E[r]] /\ A = [r \in V!Regions |-> A[r]]
  BY DEF HasBoth
<1>5. /\ EventAt(t, 1).type = "expected" /\ EventAt(t, 1).region = into /\ EventAt(t, 1).cells = ce
      /\ EventAt(t, 2).type = "expected" /\ EventAt(t, 2).region = from /\ EventAt(t, 2).cells = cs
  BY DEF EventAt
<1>6. Tab(t, 0, 0, 0, 0) = [expected |-> [r \in V!Regions |-> IF r = into THEN ce ELSE cs],
                            actual |-> [r \in V!Regions |-> IF r = into THEN re ELSE rs]]
  BY DEF Tab
<1>7. Handled(Handled(t0, EventAt(t, 1)), EventAt(t, 2))
        = [expected |-> [[E EXCEPT ![into] = ce] EXCEPT ![from] = cs],
           actual |-> [[A EXCEPT ![into] = pe] EXCEPT ![from] = ps]]
  BY <1>5 DEF Handled
<1> HIDE DEF into, from, ce, cs, pe, ps, re, rs, E, A
<1>8. /\ [[E EXCEPT ![into] = ce] EXCEPT ![from] = cs] = [r \in V!Regions |-> IF r = into THEN ce ELSE cs]
      /\ [[A EXCEPT ![into] = pe] EXCEPT ![from] = ps] = [r \in V!Regions |-> IF r = into THEN pe ELSE ps]
  <2> DEFINE R == V!Regions
             g == [E EXCEPT ![into] = ce]
             h == [r \in R |-> IF r = into THEN ce ELSE cs]
             k == [A EXCEPT ![into] = pe]
             l == [r \in R |-> IF r = into THEN pe ELSE ps]
  <2>1. /\ g = [r \in R |-> g[r]] /\ g[into] = ce
        /\ h = [r \in R |-> h[r]] /\ h[into] = ce /\ h[from] = cs
        /\ k = [r \in R |-> k[r]] /\ k[into] = pe
        /\ l = [r \in R |-> l[r]] /\ l[into] = pe /\ l[from] = ps
    BY <1>3, <1>4
  <2> HIDE DEF R, g, h, k, l
  <2>2. into # from /\ R = {into, from}
    BY <1>3 DEF R
  <2> DEFINE g1 == [g EXCEPT ![from] = cs]
             k1 == [k EXCEPT ![from] = ps]
  <2>3. g1 = h /\ k1 = l
    <3>1. /\ g1 = [r \in R |-> g1[r]] /\ g1[into] = ce /\ g1[from] = cs
          /\ k1 = [r \in R |-> k1[r]] /\ k1[into] = pe /\ k1[from] = ps
      BY <2>1, <2>2
    <3> HIDE DEF g1, k1
    <3>2. \A r \in R : g1[r] = h[r] /\ k1[r] = l[r]
      BY <2>1, <2>2, <3>1
    <3>3. QED
      BY <2>1, <3>1, <3>2
  <2>4. QED
    BY <2>3 DEF R, g, h, k, l
<1>9. QED
  BY <1>2, <1>6, <1>7, <1>8

(* A word of the destination, a word of the source.                        *)
LEMMA TabFills ==
  ASSUME NEW t, WellSent(t), NEW f \in 0 .. Beats(t.desc) - 1
  PROVE  LET n == Beats(t.desc)
         IN  /\ Handled(Tab(t, f, 0, 0, 0), EventAt(t, 3 + f)) = Tab(t, f + 1, 0, 0, 0)
             /\ Handled(Tab(t, n, f, 0, 0), EventAt(t, 3 + n + f)) = Tab(t, n, f + 1, 0, 0)
<1> DEFINE d == t.desc
           n == Beats(d)
           w == t.words
           into == DestinationOf(d)
           from == SourceOf(d)
           ex == [r \in V!Regions |-> IF r = into THEN Cells(Dst(d), w) ELSE Cells(Src(d), w)]
           there == Words(into, Dst(d), n)
           here == Words(from, Src(d), n)
           te == IF there = w THEN "match" ELSE "fail"
           ts == IF here = w THEN "match" ELSE "fail"
           re(x) == CellRow(Dst(d), there, n, x, 0, te)
           rs(x) == CellRow(Src(d), here, n, x, 0, ts)
           ac(x, y) == [r \in V!Regions |-> IF r = into THEN re(x) ELSE rs(y)]
           ae == Dst(d) + 4 * f
           as == Src(d) + 4 * f
           ve == V!Cell(ae, there[f + 1], "filled")
           vs == V!Cell(as, here[f + 1], "filled")
<1>1. n \in Nat /\ Src(d) \in Nat /\ Dst(d) \in Nat /\ f \in 0 .. n - 1
  BY EventsAre
<1>2. into # from /\ V!Regions = {into, from}
  BY TwoEnds
<1>3. \A x, y : Tab(t, x, y, 0, 0) = [expected |-> ex, actual |-> ac(x, y)]
  BY DEF Tab
<1>4. /\ V!Has(re(f), ae) /\ [re(f) EXCEPT ![V!First(re(f), ae)] = ve] = re(f + 1)
      /\ V!Has(rs(f), as) /\ [rs(f) EXCEPT ![V!First(rs(f), as)] = vs] = rs(f + 1)
  <2> DEFINE x == Dst(d)
             y == Src(d)
  <2> HIDE DEF x, y, n, there, here, te, ts
  <2>1. /\ V!Has(CellRow(x, there, n, f, 0, te), x + 4 * f)
        /\ Filled(CellRow(x, there, n, f, 0, te), x + 4 * f, there[f + 1]) = CellRow(x, there, n, f + 1, 0, te)
    BY <1>1, CellFills DEF x
  <2>2. /\ V!Has(CellRow(y, here, n, f, 0, ts), y + 4 * f)
        /\ Filled(CellRow(y, here, n, f, 0, ts), y + 4 * f, here[f + 1]) = CellRow(y, here, n, f + 1, 0, ts)
    BY <1>1, CellFills DEF y
  <2>3. QED
    BY <2>1, <2>2 DEF x, y, Filled
<1>5. /\ EventAt(t, 3 + f).type = "actual" /\ EventAt(t, 3 + f).region = into
      /\ EventAt(t, 3 + f).addr = ae /\ EventAt(t, 3 + f).value = there[f + 1]
  <2>1. 3 + f # 1 /\ 3 + f # 2 /\ (3 + f) - 2 <= n /\ (3 + f) - 2 = f + 1 /\ (3 + f) - 2 - 1 = f
    BY <1>1
  <2>2. EventAt(t, 3 + f) = [type |-> "actual", region |-> into, addr |-> Dst(d) + 4 * ((3 + f) - 2 - 1),
                             value |-> there[(3 + f) - 2]]
    BY <2>1 DEF EventAt
  <2>3. QED
    BY <2>1, <2>2
<1>6. /\ EventAt(t, 3 + n + f).type = "actual" /\ EventAt(t, 3 + n + f).region = from
      /\ EventAt(t, 3 + n + f).addr = as /\ EventAt(t, 3 + n + f).value = here[f + 1]
  <2> DEFINE k == 3 + n + f
  <2>1. k # 1 /\ k # 2 /\ ~(k - 2 <= n) /\ k - 2 - n <= n /\ k - 2 - n = f + 1 /\ k - 2 - n - 1 = f
    BY <1>1
  <2>2. EventAt(t, k) = [type |-> "actual", region |-> from, addr |-> Src(d) + 4 * (k - 2 - n - 1),
                         value |-> here[k - 2 - n]]
    <3> HIDE DEF k
    <3>1. QED
      BY <2>1 DEF EventAt
  <2>3. QED
    BY <2>1, <2>2
<1>7. /\ ac(f, 0)[into] = re(f) /\ ac(n, f)[from] = rs(f)
      /\ [ac(f, 0) EXCEPT ![into] = re(f + 1)] = ac(f + 1, 0)
      /\ [ac(n, f) EXCEPT ![from] = rs(f + 1)] = ac(n, f + 1)
  <2> DEFINE R == V!Regions
             g(x, y) == [r \in R |-> IF r = into THEN x ELSE y]
  <2>1. \A x, y : ac(x, y) = g(re(x), rs(y))
    OBVIOUS
  <2> HIDE DEF into, from, re, rs, R, ac
  <2>2. into # from /\ R = {into, from}
    BY <1>2 DEF R
  <2>3. \A x, y : g(x, y) = [r \in R |-> g(x, y)[r]] /\ g(x, y)[into] = x /\ g(x, y)[from] = y
    BY <2>2
  <2> HIDE DEF g
  <2> DEFINE g1 == g(re(f), rs(0))
             g2 == g(re(f + 1), rs(0))
             g3 == g(re(n), rs(f))
             g4 == g(re(n), rs(f + 1))
  <2>4. /\ g1 = [r \in R |-> g1[r]] /\ g1[into] = re(f) /\ g1[from] = rs(0)
        /\ g2 = [r \in R |-> g2[r]] /\ g2[into] = re(f + 1) /\ g2[from] = rs(0)
        /\ g3 = [r \in R |-> g3[r]] /\ g3[into] = re(n) /\ g3[from] = rs(f)
        /\ g4 = [r \in R |-> g4[r]] /\ g4[into] = re(n) /\ g4[from] = rs(f + 1)
    BY <2>3
  <2>5. g1 = ac(f, 0) /\ g2 = ac(f + 1, 0) /\ g3 = ac(n, f) /\ g4 = ac(n, f + 1)
    BY <2>1
  <2> HIDE DEF g1, g2, g3, g4
  <2> DEFINE h2 == [g1 EXCEPT ![into] = re(f + 1)]
             h4 == [g3 EXCEPT ![from] = rs(f + 1)]
  <2>6. h2 = g2 /\ h4 = g4
    <3>1. /\ h2 = [r \in R |-> h2[r]] /\ h2[into] = re(f + 1) /\ h2[from] = rs(0)
          /\ h4 = [r \in R |-> h4[r]] /\ h4[into] = re(n) /\ h4[from] = rs(f + 1)
      BY <2>2, <2>4
    <3> HIDE DEF h2, h4
    <3>2. \A r \in R : h2[r] = g2[r] /\ h4[r] = g4[r]
      BY <2>2, <2>4, <3>1
    <3>3. QED
      BY <2>4, <3>1, <3>2
  <2>7. QED
    BY <2>4, <2>5, <2>6
<1>8. Handled(Tab(t, f, 0, 0, 0), EventAt(t, 3 + f)) = Tab(t, f + 1, 0, 0, 0)
  <2> DEFINE ev == EventAt(t, 3 + f)
             a == ac(f, 0)
             b == [expected |-> ex, actual |-> a]
  <2>1. ev.type = "actual" /\ ev.region = into /\ ev.addr = ae /\ V!Cell(ev.addr, ev.value, "filled") = ve
    BY <1>5
  <2> HIDE DEF ev, a, ve
  <2>2. Handled(b, ev) =
          [expected |-> ex,
           actual |-> [a EXCEPT ![ev.region] =
             IF V!Has(a[ev.region], ev.addr)
             THEN [a[ev.region] EXCEPT ![V!First(a[ev.region], ev.addr)] = V!Cell(ev.addr, ev.value, "filled")]
             ELSE Append(a[ev.region], V!Cell(ev.addr, ev.value, "filled"))]]
    BY <2>1 DEF Handled
  <2> HIDE DEF ex, ac, re, ae, into
  <2>3. a[into] = re(f) /\ [a EXCEPT ![into] = re(f + 1)] = ac(f + 1, 0)
    BY <1>7 DEF a
  <2>4. Handled(b, ev) = [expected |-> ex, actual |-> ac(f + 1, 0)]
    BY <1>4, <2>1, <2>2, <2>3
  <2>5. b = Tab(t, f, 0, 0, 0)
    BY <1>3 DEF a
  <2>6. QED
    BY <1>3, <2>4, <2>5 DEF ev
<1>9. Handled(Tab(t, n, f, 0, 0), EventAt(t, 3 + n + f)) = Tab(t, n, f + 1, 0, 0)
  <2> DEFINE ev == EventAt(t, 3 + n + f)
             a == ac(n, f)
             b == [expected |-> ex, actual |-> a]
  <2>1. ev.type = "actual" /\ ev.region = from /\ ev.addr = as /\ V!Cell(ev.addr, ev.value, "filled") = vs
    BY <1>6
  <2> HIDE DEF ev, a, vs
  <2>2. Handled(b, ev) =
          [expected |-> ex,
           actual |-> [a EXCEPT ![ev.region] =
             IF V!Has(a[ev.region], ev.addr)
             THEN [a[ev.region] EXCEPT ![V!First(a[ev.region], ev.addr)] = V!Cell(ev.addr, ev.value, "filled")]
             ELSE Append(a[ev.region], V!Cell(ev.addr, ev.value, "filled"))]]
    BY <2>1 DEF Handled
  <2> HIDE DEF ex, ac, rs, as, from
  <2>3. a[from] = rs(f) /\ [a EXCEPT ![from] = rs(f + 1)] = ac(n, f + 1)
    BY <1>7 DEF a
  <2>4. Handled(b, ev) = [expected |-> ex, actual |-> ac(n, f + 1)]
    BY <1>4, <2>1, <2>2, <2>3
  <2>5. b = Tab(t, n, f, 0, 0)
    BY <1>3 DEF a
  <2>6. QED
    BY <1>3, <2>4, <2>5 DEF ev
<1>10. QED
  BY <1>8, <1>9

(* A tick of the destination, a tick of the source.                        *)
LEMMA TabTicks ==
  ASSUME NEW t, WellSent(t), NEW m \in 0 .. Beats(t.desc) - 1
  PROVE  LET n == Beats(t.desc)
         IN  /\ Handled(Tab(t, n, n, m, 0), EventAt(t, 3 + n + n + m)) = Tab(t, n, n, m + 1, 0)
             /\ Handled(Tab(t, n, n, n, m), EventAt(t, 3 + n + n + n + m)) = Tab(t, n, n, n, m + 1)
<1> DEFINE d == t.desc
           n == Beats(d)
           w == t.words
           into == DestinationOf(d)
           from == SourceOf(d)
           ex == [r \in V!Regions |-> IF r = into THEN Cells(Dst(d), w) ELSE Cells(Src(d), w)]
           there == Words(into, Dst(d), n)
           here == Words(from, Src(d), n)
           te == IF there = w THEN "match" ELSE "fail"
           ts == IF here = w THEN "match" ELSE "fail"
           re(x) == CellRow(Dst(d), there, n, n, x, te)
           rs(x) == CellRow(Src(d), here, n, n, x, ts)
           ac(x, y) == [r \in V!Regions |-> IF r = into THEN re(x) ELSE rs(y)]
           ae == Dst(d) + 4 * m
           as == Src(d) + 4 * m
<1>1. n \in Nat /\ Src(d) \in Nat /\ Dst(d) \in Nat /\ m \in 0 .. n - 1
  BY EventsAre
<1>2. into # from /\ V!Regions = {into, from}
  BY TwoEnds
<1>3. \A x, y : Tab(t, n, n, x, y) = [expected |-> ex, actual |-> ac(x, y)]
  BY DEF Tab
<1>4. /\ V!Has(re(m), ae) /\ [re(m) EXCEPT ![V!First(re(m), ae)].status = te] = re(m + 1)
      /\ V!Has(rs(m), as) /\ [rs(m) EXCEPT ![V!First(rs(m), as)].status = ts] = rs(m + 1)
  <2> DEFINE x == Dst(d)
             y == Src(d)
  <2> HIDE DEF x, y, n, there, here, te, ts
  <2>1. /\ V!Has(CellRow(x, there, n, n, m, te), x + 4 * m)
        /\ Ticked(CellRow(x, there, n, n, m, te), x + 4 * m, te) = CellRow(x, there, n, n, m + 1, te)
    BY <1>1, CellTicks DEF x
  <2>2. /\ V!Has(CellRow(y, here, n, n, m, ts), y + 4 * m)
        /\ Ticked(CellRow(y, here, n, n, m, ts), y + 4 * m, ts) = CellRow(y, here, n, n, m + 1, ts)
    BY <1>1, CellTicks DEF y
  <2>3. QED
    BY <2>1, <2>2 DEF x, y, Ticked
<1>5. /\ EventAt(t, 3 + n + n + m).type = te /\ EventAt(t, 3 + n + n + m).region = into
      /\ EventAt(t, 3 + n + n + m).addr = ae
  <2> DEFINE k == 3 + n + n + m
  <2>1. /\ k # 1 /\ k # 2 /\ ~(k - 2 <= n) /\ ~(k - 2 - n <= n) /\ k - 2 - n - n <= n
        /\ k - 2 - n - n - 1 = m
    BY <1>1
  <2>2. EventAt(t, k) = [type |-> te, region |-> into, addr |-> Dst(d) + 4 * (k - 2 - n - n - 1)]
    <3> HIDE DEF k
    <3>1. QED
      BY <2>1 DEF EventAt
  <2>3. QED
    BY <2>1, <2>2
<1>6. /\ EventAt(t, 3 + n + n + n + m).type = ts /\ EventAt(t, 3 + n + n + n + m).region = from
      /\ EventAt(t, 3 + n + n + n + m).addr = as
  <2> DEFINE k == 3 + n + n + n + m
  <2>1. /\ k # 1 /\ k # 2 /\ ~(k - 2 <= n) /\ ~(k - 2 - n <= n) /\ ~(k - 2 - n - n <= n)
        /\ k - 2 - n - n - n - 1 = m
    BY <1>1
  <2>2. EventAt(t, k) = [type |-> ts, region |-> from, addr |-> Src(d) + 4 * (k - 2 - n - n - n - 1)]
    <3> HIDE DEF k
    <3>1. QED
      BY <2>1 DEF EventAt
  <2>3. QED
    BY <2>1, <2>2
<1>7. /\ ac(m, 0)[into] = re(m) /\ ac(n, m)[from] = rs(m)
      /\ [ac(m, 0) EXCEPT ![into] = re(m + 1)] = ac(m + 1, 0)
      /\ [ac(n, m) EXCEPT ![from] = rs(m + 1)] = ac(n, m + 1)
  <2> DEFINE R == V!Regions
             g(x, y) == [r \in R |-> IF r = into THEN x ELSE y]
  <2>1. \A x, y : ac(x, y) = g(re(x), rs(y))
    OBVIOUS
  <2> HIDE DEF into, from, re, rs, R, ac
  <2>2. into # from /\ R = {into, from}
    BY <1>2 DEF R
  <2>3. \A x, y : g(x, y) = [r \in R |-> g(x, y)[r]] /\ g(x, y)[into] = x /\ g(x, y)[from] = y
    BY <2>2
  <2> HIDE DEF g
  <2> DEFINE g1 == g(re(m), rs(0))
             g2 == g(re(m + 1), rs(0))
             g3 == g(re(n), rs(m))
             g4 == g(re(n), rs(m + 1))
  <2>4. /\ g1 = [r \in R |-> g1[r]] /\ g1[into] = re(m) /\ g1[from] = rs(0)
        /\ g2 = [r \in R |-> g2[r]] /\ g2[into] = re(m + 1) /\ g2[from] = rs(0)
        /\ g3 = [r \in R |-> g3[r]] /\ g3[into] = re(n) /\ g3[from] = rs(m)
        /\ g4 = [r \in R |-> g4[r]] /\ g4[into] = re(n) /\ g4[from] = rs(m + 1)
    BY <2>3
  <2>5. g1 = ac(m, 0) /\ g2 = ac(m + 1, 0) /\ g3 = ac(n, m) /\ g4 = ac(n, m + 1)
    BY <2>1
  <2> HIDE DEF g1, g2, g3, g4
  <2> DEFINE h2 == [g1 EXCEPT ![into] = re(m + 1)]
             h4 == [g3 EXCEPT ![from] = rs(m + 1)]
  <2>6. h2 = g2 /\ h4 = g4
    <3>1. /\ h2 = [r \in R |-> h2[r]] /\ h2[into] = re(m + 1) /\ h2[from] = rs(0)
          /\ h4 = [r \in R |-> h4[r]] /\ h4[into] = re(n) /\ h4[from] = rs(m + 1)
      BY <2>2, <2>4
    <3> HIDE DEF h2, h4
    <3>2. \A r \in R : h2[r] = g2[r] /\ h4[r] = g4[r]
      BY <2>2, <2>4, <3>1
    <3>3. QED
      BY <2>4, <3>1, <3>2
  <2>7. QED
    BY <2>4, <2>5, <2>6
<1>8. te \in {"match", "fail"} /\ ts \in {"match", "fail"}
  OBVIOUS
<1>9. Handled(Tab(t, n, n, m, 0), EventAt(t, 3 + n + n + m)) = Tab(t, n, n, m + 1, 0)
  <2> DEFINE ev == EventAt(t, 3 + n + n + m)
             a == ac(m, 0)
             b == [expected |-> ex, actual |-> a]
  <2>1. ev.type = te /\ ev.region = into /\ ev.addr = ae /\ ev.type \in {"match", "fail"}
    BY <1>5, <1>8
  <2> HIDE DEF ev, a
  <2>2. Handled(b, ev) =
          [expected |-> ex,
           actual |-> [a EXCEPT ![ev.region] =
             IF V!Has(a[ev.region], ev.addr)
             THEN [a[ev.region] EXCEPT ![V!First(a[ev.region], ev.addr)].status = ev.type] ELSE a[ev.region]]]
    BY <2>1 DEF Handled
  <2> HIDE DEF ex, ac, re, ae, into, te
  <2>3. a[into] = re(m) /\ [a EXCEPT ![into] = re(m + 1)] = ac(m + 1, 0)
    BY <1>7 DEF a
  <2>4. Handled(b, ev) = [expected |-> ex, actual |-> ac(m + 1, 0)]
    BY <1>4, <2>1, <2>2, <2>3
  <2>5. b = Tab(t, n, n, m, 0)
    BY <1>3 DEF a
  <2>6. QED
    BY <1>3, <2>4, <2>5 DEF ev
<1>10. Handled(Tab(t, n, n, n, m), EventAt(t, 3 + n + n + n + m)) = Tab(t, n, n, n, m + 1)
  <2> DEFINE ev == EventAt(t, 3 + n + n + n + m)
             a == ac(n, m)
             b == [expected |-> ex, actual |-> a]
  <2>1. ev.type = ts /\ ev.region = from /\ ev.addr = as /\ ev.type \in {"match", "fail"}
    BY <1>6, <1>8
  <2> HIDE DEF ev, a
  <2>2. Handled(b, ev) =
          [expected |-> ex,
           actual |-> [a EXCEPT ![ev.region] =
             IF V!Has(a[ev.region], ev.addr)
             THEN [a[ev.region] EXCEPT ![V!First(a[ev.region], ev.addr)].status = ev.type] ELSE a[ev.region]]]
    BY <2>1 DEF Handled
  <2> HIDE DEF ex, ac, rs, as, from, ts
  <2>3. a[from] = rs(m) /\ [a EXCEPT ![from] = rs(m + 1)] = ac(n, m + 1)
    BY <1>7 DEF a
  <2>4. Handled(b, ev) = [expected |-> ex, actual |-> ac(n, m + 1)]
    BY <1>4, <2>1, <2>2, <2>3
  <2>5. b = Tab(t, n, n, n, m)
    BY <1>3 DEF a
  <2>6. QED
    BY <1>3, <2>4, <2>5 DEF ev
<1>11. QED
  BY <1>9, <1>10

(* A ticked cell shows the word expected there.                            *)
RowOk(addr, w, row) ==
  \A i \in DOMAIN row : row[i].status = "match" =>
    i \in DOMAIN Cells(addr, w) /\ Cells(addr, w)[i].addr = row[i].addr /\ Cells(addr, w)[i].value = row[i].value

(* A tick stands where all words agreed.                                   *)
LEMMA RowTrue ==
  ASSUME NEW addr, NEW got, NEW n \in Nat, NEW f \in 0 .. n, NEW m \in 0 .. f, NEW w,
         w = [j \in 1 .. n |-> w[j]], NEW tick, tick = "match" => got = w
  PROVE  RowOk(addr, w, CellRow(addr, got, n, f, m, tick))
<1> DEFINE row == CellRow(addr, got, n, f, m, tick)
<1>1. DOMAIN row = 1 .. n
  BY DEF CellRow
<1>2. ASSUME NEW i \in 1 .. n, row[i].status = "match"
      PROVE  i \in DOMAIN Cells(addr, w) /\ Cells(addr, w)[i].addr = row[i].addr /\ Cells(addr, w)[i].value = row[i].value
  <2> DEFINE c == row[i]
  <2>1. c = [addr |-> addr + 4 * (i - 1), value |-> IF i <= f THEN got[i] ELSE 0,
             status |-> IF i <= m THEN tick ELSE IF i <= f THEN "filled" ELSE "pending"]
    BY DEF CellRow
  <2>2. i <= m /\ got = w
    BY <1>2, <2>1
  <2>3. c.value = w[i] /\ c.addr = addr + 4 * (i - 1)
    BY <2>1, <2>2
  <2>4. DOMAIN w = 1 .. n
    OBVIOUS
  <2> HIDE DEF c
  <2>5. i \in DOMAIN Cells(addr, w) /\ Cells(addr, w)[i] = V!Cell(addr + 4 * (i - 1), w[i], "shown")
    BY <2>4 DEF Cells
  <2>6. QED
    BY <2>3, <2>5 DEF V!Cell, c
<1> HIDE DEF row
<1>3. RowOk(addr, w, row)
  BY <1>1, <1>2 DEF RowOk
<1>4. QED
  BY <1>3 DEF row

(* So the tables are true in the course of a block.                        *)
LEMMA TabTrue ==
  ASSUME NEW t, WellSent(t),
         NEW f1 \in 0 .. Beats(t.desc), NEW f2 \in 0 .. Beats(t.desc), NEW m1 \in 0 .. f1, NEW m2 \in 0 .. f2
  PROVE  HasBoth(Tab(t, f1, f2, m1, m2)) /\ TrueTicks(Tab(t, f1, f2, m1, m2))
<1> DEFINE d == t.desc
           n == Beats(d)
           w == t.words
           into == DestinationOf(d)
           from == SourceOf(d)
           ce == Cells(Dst(d), w)
           cs == Cells(Src(d), w)
           there == Words(into, Dst(d), n)
           here == Words(from, Src(d), n)
           te == IF there = w THEN "match" ELSE "fail"
           ts == IF here = w THEN "match" ELSE "fail"
           re == CellRow(Dst(d), there, n, f1, m1, te)
           rs == CellRow(Src(d), here, n, f2, m2, ts)
           tab == Tab(t, f1, f2, m1, m2)
<1>1. n \in Nat /\ w = [j \in 1 .. n |-> w[j]] /\ f1 \in 0 .. n /\ f2 \in 0 .. n
  BY EventsAre DEF WellSent
<1>2. into # from /\ V!Regions = {into, from}
  BY TwoEnds
<1>3. /\ tab.expected = [r \in V!Regions |-> IF r = into THEN ce ELSE cs]
      /\ tab.actual = [r \in V!Regions |-> IF r = into THEN re ELSE rs]
  BY DEF Tab
<1>4. RowOk(Dst(d), w, re)
  <2> DEFINE a == Dst(d)
  <2>1. te = "match" => there = w
    OBVIOUS
  <2> HIDE DEF n, w, there, d, a, te
  <2>2. RowOk(a, w, CellRow(a, there, n, f1, m1, te))
    BY <1>1, <2>1, RowTrue
  <2>3. QED
    BY <2>2 DEF a
<1>5. RowOk(Src(d), w, rs)
  <2> DEFINE a == Src(d)
  <2>1. ts = "match" => here = w
    OBVIOUS
  <2> HIDE DEF n, w, here, d, a, ts
  <2>2. RowOk(a, w, CellRow(a, here, n, f2, m2, ts))
    BY <1>1, <2>1, RowTrue
  <2>3. QED
    BY <2>2 DEF a
<1>6. /\ \A i \in DOMAIN re : re[i].status = "match" =>
           i \in DOMAIN ce /\ ce[i].addr = re[i].addr /\ ce[i].value = re[i].value
      /\ \A i \in DOMAIN rs : rs[i].status = "match" =>
           i \in DOMAIN cs /\ cs[i].addr = rs[i].addr /\ cs[i].value = rs[i].value
  BY <1>4, <1>5 DEF RowOk
<1> HIDE DEF n, ce, cs, re, rs, into, from, tab
<1>7. HasBoth(tab)
  BY <1>3 DEF HasBoth
<1>8. tab.actual[into] = re /\ tab.actual[from] = rs /\ tab.expected[into] = ce /\ tab.expected[from] = cs
  BY <1>2, <1>3
<1>9. TrueTicks(tab)
  <2> SUFFICES ASSUME NEW r \in V!Regions, NEW i \in DOMAIN tab.actual[r], tab.actual[r][i].status = "match"
               PROVE  \E j \in DOMAIN tab.expected[r] :
                        /\ tab.expected[r][j].addr = tab.actual[r][i].addr
                        /\ tab.expected[r][j].value = tab.actual[r][i].value
    BY DEF TrueTicks
  <2>1. CASE r = into
    BY <1>6, <1>8, <2>1
  <2>2. CASE r = from
    BY <1>6, <1>8, <2>2
  <2>3. QED
    BY <1>2, <2>1, <2>2
<1>10. QED
  BY <1>7, <1>9 DEF tab

(* At the end of the block every cell has its tick, if the board holds the *)
(* words at both ends.                                                     *)
LEMMA TabFull ==
  ASSUME NEW t, WellSent(t), Intact(t)
  PROVE  LET n == Beats(t.desc) IN AllTicked(Tab(t, n, n, n, n))
<1> DEFINE d == t.desc
           n == Beats(d)
           w == t.words
           into == DestinationOf(d)
           from == SourceOf(d)
           there == Words(into, Dst(d), n)
           here == Words(from, Src(d), n)
           tab == Tab(t, n, n, n, n)
           re == CellRow(Dst(d), there, n, n, n, "match")
           rs == CellRow(Src(d), here, n, n, n, "match")
<1>1. n \in Nat
  BY EventsAre
<1>2. there = w /\ here = w
  BY DEF Intact
<1>3. tab.actual = [r \in V!Regions |-> IF r = into THEN re ELSE rs]
  BY <1>2 DEF Tab
<1>4. /\ DOMAIN re = 1 .. n /\ \A i \in 1 .. n : re[i].status = "match"
      /\ DOMAIN rs = 1 .. n /\ \A i \in 1 .. n : rs[i].status = "match"
  BY <1>1 DEF CellRow
<1> HIDE DEF tab, n, re, rs, into
<1>5. \A r \in V!Regions : tab.actual[r] = re \/ tab.actual[r] = rs
  BY <1>3
<1>6. AllTicked(tab)
  BY <1>4, <1>5 DEF AllTicked
<1>7. QED
  BY <1>6 DEF tab, n

Clip(x, n) == IF x < 0 THEN 0 ELSE IF x > n THEN n ELSE x

(* The tables after the first k events of a block.                         *)
Shown(t, t0, k) ==
  LET n == Beats(t.desc)
  IN  IF k = 0 THEN t0 ELSE IF k = 1 THEN Handled(t0, EventAt(t, 1))
      ELSE Tab(t, Clip(k - 2, n), Clip(k - 2 - n, n), Clip(k - 2 - n - n, n), Clip(k - 2 - n - n - n, n))

(* A table of pending cells for one memory leaves the display true.        *)
LEMMA PendingTrue ==
  ASSUME NEW t, NEW t0, HasBoth(t0), TrueTicks(t0)
  PROVE  HasBoth(Handled(t0, EventAt(t, 1))) /\ TrueTicks(Handled(t0, EventAt(t, 1)))
<1> DEFINE into == DestinationOf(t.desc)
           ev == EventAt(t, 1)
           E == t0.expected
           A == t0.actual
           pend == [i \in DOMAIN ev.cells |-> V!Cell(ev.cells[i].addr, 0, "pending")]
           t1 == Handled(t0, ev)
<1>1. ev.type = "expected" /\ ev.region = into /\ into \in V!Regions
  BY TwoEnds DEF EventAt
<1>2. E = [r \in V!Regions |-> E[r]] /\ A = [r \in V!Regions |-> A[r]]
  BY DEF HasBoth
<1>3. \A i \in DOMAIN pend : pend[i].status # "match"
  BY DEF V!Cell
<1>4. t1.expected = [E EXCEPT ![into] = ev.cells] /\ t1.actual = [A EXCEPT ![into] = pend]
  BY <1>1 DEF Handled
<1>5. HasBoth(t1)
  BY <1>1, EventsKnown, HandledBoth
<1> HIDE DEF t1, pend, ev, into
<1>6. TrueTicks(t1)
  <2> SUFFICES ASSUME NEW r \in V!Regions, NEW i \in DOMAIN t1.actual[r], t1.actual[r][i].status = "match"
               PROVE  \E j \in DOMAIN t1.expected[r] :
                        /\ t1.expected[r][j].addr = t1.actual[r][i].addr
                        /\ t1.expected[r][j].value = t1.actual[r][i].value
    BY DEF TrueTicks
  <2>1. r # into
    BY <1>1, <1>2, <1>3, <1>4
  <2>2. t1.actual[r] = A[r] /\ t1.expected[r] = E[r]
    BY <1>1, <1>2, <1>4, <2>1
  <2>3. QED
    BY <2>2 DEF TrueTicks
<1>7. QED
  BY <1>5, <1>6 DEF t1, ev

(* A block takes true tables to true tables, event by event, and leaves a  *)
(* tick on every cell if the transfer is intact.                           *)
LEMMA BlockShown ==
  ASSUME NEW t, WellSent(t), NEW t0, HasBoth(t0), TrueTicks(t0)
  PROVE  LET last == Len(Events(t))
         IN  /\ Shown(t, t0, 0) = t0
             /\ \A k \in 1 .. last : Shown(t, t0, k) = Handled(Shown(t, t0, k - 1), Events(t)[k])
             /\ \A k \in 0 .. last : HasBoth(Shown(t, t0, k)) /\ TrueTicks(Shown(t, t0, k))
             /\ Intact(t) => AllTicked(Shown(t, t0, last))
<1> DEFINE n == Beats(t.desc)
           last == Len(Events(t))
           S(k) == Shown(t, t0, k)
           e(k) == EventAt(t, k)
           C(x) == Clip(x, n)
           T(a, b, c, d) == Tab(t, a, b, c, d)
<1>1. n \in Nat /\ last = 2 + n + n + n + n /\ \A k \in 1 .. last : Events(t)[k] = e(k)
  BY EventsAre
<1>2. S(0) = t0 /\ S(1) = Handled(t0, e(1))
  BY DEF Shown
<1>3. \A k \in 2 .. last : S(k) = T(C(k - 2), C(k - 2 - n), C(k - 2 - n - n), C(k - 2 - n - n - n))
  BY DEF Shown
<1>4. \A x \in Int : /\ C(x) \in 0 .. n /\ (x <= 0 => C(x) = 0) /\ (x >= n => C(x) = n)
                     /\ (x \in 0 .. n => C(x) = x)
  <2> HIDE DEF n
  <2>1. QED
    BY <1>1 DEF Clip
<1>5. Handled(Handled(t0, e(1)), e(2)) = T(0, 0, 0, 0)
  BY TabStarts
<1>6. \A f \in 0 .. n - 1 :
        /\ Handled(T(f, 0, 0, 0), e(3 + f)) = T(f + 1, 0, 0, 0)
        /\ Handled(T(n, f, 0, 0), e(3 + n + f)) = T(n, f + 1, 0, 0)
        /\ Handled(T(n, n, f, 0), e(3 + n + n + f)) = T(n, n, f + 1, 0)
        /\ Handled(T(n, n, n, f), e(3 + n + n + n + f)) = T(n, n, n, f + 1)
  BY TabFills, TabTicks
<1>7. \A f1, f2 \in 0 .. n : \A m1 \in 0 .. f1, m2 \in 0 .. f2 :
        HasBoth(T(f1, f2, m1, m2)) /\ TrueTicks(T(f1, f2, m1, m2))
  BY TabTrue
<1>8. HasBoth(S(1)) /\ TrueTicks(S(1))
  BY <1>2, PendingTrue
<1>9. Intact(t) => AllTicked(T(n, n, n, n))
  BY TabFull
<1>10. Events(t)[1] = e(1) /\ 1 \in 1 .. last
  BY <1>1
<1> HIDE DEF n, last, S, e, C, T
<1>11. ASSUME NEW k \in 1 .. last
       PROVE  S(k) = Handled(S(k - 1), Events(t)[k])
  <2> DEFINE s == S(k - 1)
  <2>1. CASE k = 1
    BY <1>1, <1>2, <2>1
  <2>2. CASE k = 2
    <3>1. S(2) = T(0, 0, 0, 0)
      <4>1. C(2 - 2) = 0 /\ C(2 - 2 - n) = 0 /\ C(2 - 2 - n - n) = 0 /\ C(2 - 2 - n - n - n) = 0
        BY <1>1, <1>4
      <4>2. QED
        BY <1>1, <1>3, <4>1
    <3>2. S(k - 1) = S(1)
      BY <2>2
    <3>3. QED
      BY <1>1, <1>2, <1>5, <2>2, <3>1, <3>2
  <2>3. CASE k > 2 /\ k <= 2 + n
    <3> DEFINE f == k - 3
    <3>1. f \in 0 .. n - 1 /\ k = 3 + f /\ k - 1 \in 2 .. last /\ k \in 2 .. last
      BY <1>1, <2>3
    <3>2. /\ C(k - 2) = f + 1 /\ C(k - 2 - n) = 0 /\ C(k - 2 - n - n) = 0 /\ C(k - 2 - n - n - n) = 0
          /\ C(k - 1 - 2) = f /\ C(k - 1 - 2 - n) = 0 /\ C(k - 1 - 2 - n - n) = 0
          /\ C(k - 1 - 2 - n - n - n) = 0
      BY <1>1, <1>4, <2>3
    <3> HIDE DEF f
    <3>3. S(k) = T(f + 1, 0, 0, 0) /\ S(k - 1) = T(f, 0, 0, 0)
      BY <1>3, <3>1, <3>2
    <3>4. QED
      BY <1>1, <1>6, <3>1, <3>3
  <2>4. CASE k > 2 + n /\ k <= 2 + n + n
    <3> DEFINE f == k - 3 - n
    <3>1. f \in 0 .. n - 1 /\ k = 3 + n + f /\ k - 1 \in 2 .. last /\ k \in 2 .. last
      BY <1>1, <2>4
    <3>2. /\ C(k - 2) = n /\ C(k - 2 - n) = f + 1 /\ C(k - 2 - n - n) = 0 /\ C(k - 2 - n - n - n) = 0
          /\ C(k - 1 - 2) = n /\ C(k - 1 - 2 - n) = f /\ C(k - 1 - 2 - n - n) = 0
          /\ C(k - 1 - 2 - n - n - n) = 0
      BY <1>1, <1>4, <2>4
    <3> HIDE DEF f
    <3>3. S(k) = T(n, f + 1, 0, 0) /\ S(k - 1) = T(n, f, 0, 0)
      BY <1>3, <3>1, <3>2
    <3>4. QED
      BY <1>1, <1>6, <3>1, <3>3
  <2>5. CASE k > 2 + n + n /\ k <= 2 + n + n + n
    <3> DEFINE f == k - 3 - n - n
    <3>1. f \in 0 .. n - 1 /\ k = 3 + n + n + f /\ k - 1 \in 2 .. last /\ k \in 2 .. last
      BY <1>1, <2>5
    <3>2. /\ C(k - 2) = n /\ C(k - 2 - n) = n /\ C(k - 2 - n - n) = f + 1 /\ C(k - 2 - n - n - n) = 0
          /\ C(k - 1 - 2) = n /\ C(k - 1 - 2 - n) = n /\ C(k - 1 - 2 - n - n) = f
          /\ C(k - 1 - 2 - n - n - n) = 0
      BY <1>1, <1>4, <2>5
    <3> HIDE DEF f
    <3>3. S(k) = T(n, n, f + 1, 0) /\ S(k - 1) = T(n, n, f, 0)
      BY <1>3, <3>1, <3>2
    <3>4. QED
      BY <1>1, <1>6, <3>1, <3>3
  <2>6. CASE k > 2 + n + n + n
    <3> DEFINE f == k - 3 - n - n - n
    <3>1. f \in 0 .. n - 1 /\ k = 3 + n + n + n + f /\ k - 1 \in 2 .. last /\ k \in 2 .. last
      BY <1>1, <2>6
    <3>2. /\ C(k - 2) = n /\ C(k - 2 - n) = n /\ C(k - 2 - n - n) = n /\ C(k - 2 - n - n - n) = f + 1
          /\ C(k - 1 - 2) = n /\ C(k - 1 - 2 - n) = n /\ C(k - 1 - 2 - n - n) = n
          /\ C(k - 1 - 2 - n - n - n) = f
      BY <1>1, <1>4, <2>6
    <3> HIDE DEF f
    <3>3. S(k) = T(n, n, n, f + 1) /\ S(k - 1) = T(n, n, n, f)
      BY <1>3, <3>1, <3>2
    <3>4. QED
      BY <1>1, <1>6, <3>1, <3>3
  <2>7. QED
    BY <1>1, <2>1, <2>2, <2>3, <2>4, <2>5, <2>6
<1>12. ASSUME NEW k \in 0 .. last
       PROVE  HasBoth(S(k)) /\ TrueTicks(S(k))
  <2>1. CASE k \in 2 .. last
    <3> DEFINE f1 == C(k - 2)
               f2 == C(k - 2 - n)
               m1 == C(k - 2 - n - n)
               m2 == C(k - 2 - n - n - n)
    <3>1. f1 \in 0 .. n /\ f2 \in 0 .. n /\ m1 \in 0 .. f1 /\ m2 \in 0 .. f2
      <4>1. \A x, y \in Int : x <= y => C(x) <= C(y)
        BY <1>1 DEF Clip, C
      <4>2. \A x \in Int : C(x) \in 0 .. n
        BY <1>4
      <4>3. k \in Int /\ n \in Nat
        BY <1>1
      <4>4. m1 <= f1 /\ m2 <= f2
        BY <4>1, <4>3
      <4>5. f1 \in 0 .. n /\ f2 \in 0 .. n /\ m1 \in 0 .. n /\ m2 \in 0 .. n
        BY <4>2, <4>3
      <4> HIDE DEF f1, f2, m1, m2
      <4>6. QED
        BY <1>1, <4>4, <4>5
    <3>2. S(k) = T(f1, f2, m1, m2)
      BY <1>3, <2>1
    <3> HIDE DEF f1, f2, m1, m2
    <3>3. QED
      BY <1>7, <3>1, <3>2
  <2>2. QED
    BY <1>1, <1>2, <1>8, <2>1
<1>13. S(last) = T(n, n, n, n)
  <2>1. C(last - 2) = n /\ C(last - 2 - n) = n /\ C(last - 2 - n - n) = n /\ C(last - 2 - n - n - n) = n
    BY <1>1, <1>4
  <2>2. QED
    BY <1>1, <1>3, <2>1
<1>14. QED
  BY <1>2, <1>9, <1>11, <1>12, <1>13 DEF last, S
-----------------------------------------------------------------------------
(* What the host expects, as far as the display needs it: words.           *)
SentInv ==
  /\ DOMAIN image = {"smem", "sram"}
  /\ \A r \in {"smem", "sram"} : \A x \in DOMAIN image[r] : image[r][x] \in Nat
  /\ "TAIL" \in DOMAIN csr_writes /\ csr_writes.TAIL \in Nat
  /\ checked \in Nat /\ Len(transfers) \in Nat
  /\ \A i \in 1 .. Len(transfers) : WellSent(transfers[i])

(* The line sent carries a number.                                         *)
LEMMA SentSends ==
  ASSUME LoadInv, SentInv, SendLine
  PROVE  SentInv'
<1>1. phase = "send" /\ todo # <<>> /\ UNCHANGED <<transfers, checked>>
  BY DEF SendLine
<1>2. CASE tool # "host_runner"
  <2>1. UNCHANGED <<image, csr_writes>>
    BY <1>2 DEF SendLine
  <2>2. QED
    BY <1>1, <2>1 DEF SentInv
<1>3. CASE tool = "host_runner"
  <2>1. todo \in Seq(Lines)
    BY <1>1, <1>3 DEF LoadInv, Loading
  <2>2. PICK l : l = Head(todo)
    OBVIOUS
  <2>3. l \in Lines
    BY <1>1, <2>1, <2>2
  <2>4. l.data \in Nat
    BY <2>3 DEF Lines
  <2>5. CASE l.op = "csr_write"
    <3>1. csr_writes' = Put(csr_writes, l.addr, l.data) /\ image' = image
      BY <1>3, <2>2, <2>5 DEF SendLine
    <3>2. "TAIL" \in DOMAIN csr_writes' /\ csr_writes'.TAIL \in Nat
      BY <2>4, <3>1 DEF SentInv, Put
    <3>3. QED
      BY <1>1, <3>1, <3>2 DEF SentInv
  <2>6. CASE l.op = "sysmem_write"
    <3>1. image' = [image EXCEPT !.smem = Put(@, l.addr, l.data)] /\ csr_writes' = csr_writes
      BY <1>3, <2>2, <2>6 DEF SendLine
    <3>2. /\ DOMAIN image' = {"smem", "sram"} /\ image'["sram"] = image["sram"]
          /\ image'["smem"] = Put(image["smem"], l.addr, l.data)
      BY <3>1 DEF SentInv
    <3>3. \A x \in DOMAIN image'["smem"] : image'["smem"][x] \in Nat
      BY <2>4, <3>2 DEF SentInv, Put
    <3>4. QED
      BY <1>1, <3>1, <3>2, <3>3 DEF SentInv
  <2>7. CASE l.op = "sram_write"
    <3>1. image' = [image EXCEPT !.sram = Put(@, l.addr, l.data)] /\ csr_writes' = csr_writes
      BY <1>3, <2>2, <2>7 DEF SendLine
    <3>2. /\ DOMAIN image' = {"smem", "sram"} /\ image'["smem"] = image["smem"]
          /\ image'["sram"] = Put(image["sram"], l.addr, l.data)
      BY <3>1 DEF SentInv
    <3>3. \A x \in DOMAIN image'["sram"] : image'["sram"][x] \in Nat
      BY <2>4, <3>2 DEF SentInv, Put
    <3>4. QED
      BY <1>1, <3>1, <3>2, <3>3 DEF SentInv
  <2>8. QED
    BY <2>3, <2>5, <2>6, <2>7 DEF Lines, LineOps
<1>4. QED
  BY <1>2, <1>3

(* The ring walk makes transfers of words.                                 *)
LEMMA SentWalks ==
  ASSUME SentInv, WalkRing
  PROVE  SentInv'
<1> DEFINE n == csr_writes.TAIL
           T(i) == Transfer(i)
<1>1. transfers' = [i \in 1 .. n |-> T(i)] /\ UNCHANGED <<image, csr_writes, checked>>
  BY DEF WalkRing
<1>2. n \in Nat
  BY DEF SentInv
<1>3. ASSUME NEW i \in 1 .. n
      PROVE  WellSent(T(i))
  <2> DEFINE d == T(i).desc
             at(k) == Sent(image.smem, csr_writes.BASEADDR + 16 * (i - 1) + 4 * (k - 1))
             source == IF ToSram(d) THEN image.smem ELSE image.sram
  <2>1. d = [k \in 1 .. DESC_WORDS |-> at(k)]
    BY DEF Transfer
  <2>2. \A x : Sent(image.smem, x) \in Nat
    BY DEF SentInv, Sent
  <2>3. d \in Descriptors
    BY <2>1, <2>2 DEF Descriptors
  <2>4. T(i).words = [j \in 1 .. Beats(d) |-> SourceWord(source, Src(d), j)]
    BY DEF Transfer
  <2>5. T(i).words = [j \in 1 .. Beats(d) |-> T(i).words[j]]
    <3> DEFINE w == T(i).words
               g(j) == SourceWord(source, Src(d), j)
    <3>1. w = [j \in 1 .. Beats(d) |-> g(j)]
      BY <2>4
    <3> HIDE DEF w, g, d
    <3>2. w = [j \in 1 .. Beats(d) |-> w[j]]
      BY <3>1
    <3>3. QED
      BY <3>2 DEF w
  <2>6. QED
    BY <2>3, <2>5 DEF WellSent
<1> HIDE DEF n, T
<1>4. Len(transfers') = n /\ \A i \in 1 .. n : transfers'[i] = T(i)
  BY <1>1, <1>2
<1>5. \A i \in 1 .. Len(transfers') : WellSent(transfers'[i])
  BY <1>3, <1>4
<1>6. QED
  BY <1>1, <1>2, <1>4, <1>5 DEF SentInv

(* No other step sends or walks.                                           *)
LEMMA SentStep == LoadInv /\ SentInv /\ [vNext]_verifyVars => SentInv'
<1> SUFFICES ASSUME LoadInv, SentInv, [vNext]_verifyVars PROVE SentInv'
  OBVIOUS
<1>1. CASE SendLine
  BY <1>1, SentSends
<1>2. CASE WalkRing
  BY <1>2, SentWalks
<1>3. CASE VerifyTransfer
  <2>1. UNCHANGED <<image, csr_writes, transfers>> /\ checked' = checked + 1
    BY <1>3 DEF VerifyTransfer
  <2>2. QED
    BY <2>1 DEF SentInv
<1>4. CASE ~SendLine /\ ~WalkRing /\ ~VerifyTransfer
  <2>1. UNCHANGED <<image, csr_writes, transfers, checked>>
    BY <1>4 DEF vNext, Host, Display, Stop, RunGolden, Start, ClearMemories, StimSent, RunDma, Report,
           VerifyCrcs, DryRun, verifyVars, hostVars
  <2>2. QED
    BY <2>1 DEF SentInv
<1>5. QED
  BY <1>1, <1>2, <1>3, <1>4
-----------------------------------------------------------------------------
(* What the display will show: the tables now, then after each event in    *)
(* the pipe.                                                               *)
Follows(T, events) ==
  /\ \A k \in 1 .. Len(events) : T[k] = Handled(T[k - 1], events[k])
  /\ \A k \in 0 .. Len(events) : HasBoth(T[k]) /\ TrueTicks(T[k])

Known(events) ==
  /\ \E S : events \in Seq(S)
  /\ \A k \in 1 .. Len(events) : events[k].type \in EventTypes /\ events[k].region \in V!Regions

Unspoilt == viewing /\ verdict \in {"none", "pass"}

(* The tables stay true to the end of the pipe, and unless the host has    *)
(* failed a transfer every cell has its tick there.                        *)
DisplayInv ==
  /\ Known(pipe)
  /\ \E T : T[0] = Tables /\ Follows(T, pipe) /\ (Unspoilt => AllTicked(T[Len(pipe)]))
  /\ viewing => tool = "host_runner"
  /\ phase = "golden" => pipe = <<>> /\ ~viewing /\ AllTicked(Tables)

(* That is what the property asks.                                         *)
LEMMA DisplayTrue == DisplayInv => TicksAreTrue
<1> SUFFICES ASSUME DisplayInv PROVE TicksAreTrue
  OBVIOUS
<1>1. PICK T : T[0] = Tables /\ Follows(T, pipe) /\ (Unspoilt => AllTicked(T[Len(pipe)]))
  BY DEF DisplayInv
<1>2. Len(pipe) \in Nat
  BY DEF DisplayInv, Known
<1>3. TrueTicks(Tables)
  BY <1>1, <1>2 DEF Follows
<1>4. ASSUME viewing, pipe = <<>>, phase = "end", verdict = "pass"
      PROVE  AllTicked(Tables)
  BY <1>1, <1>4 DEF Unspoilt
<1>5. QED
  BY <1>3, <1>4 DEF TicksAreTrue, TrueTicks, AllTicked, Tables

(* The reader handles the first event.                                     *)
LEMMA DisplayReads ==
  ASSUME DisplayInv, V!stdin_reader, UNCHANGED <<tool, verdict, phase>>
  PROVE  DisplayInv'
<1>1. PICK T : T[0] = Tables /\ Follows(T, pipe) /\ (Unspoilt => AllTicked(T[Len(pipe)]))
  BY DEF DisplayInv
<1>2. PICK p : p = pipe
  OBVIOUS
<1>3. PICK S : p \in Seq(S)
  BY <1>2 DEF DisplayInv, Known
<1>4. p # <<>> /\ pipe' = Tail(p)
  BY <1>2 DEF V!stdin_reader
<1>5. /\ Len(p) \in Nat /\ Len(p) > 0 /\ Head(p) = p[1] /\ Tail(p) \in Seq(S) /\ Len(Tail(p)) = Len(p) - 1
      /\ \A k \in 1 .. Len(p) - 1 : Tail(p)[k] = p[k + 1]
  BY <1>3, <1>4
<1>6. Head(pipe).type \in EventTypes /\ Head(pipe).region \in V!Regions
  BY <1>2, <1>5 DEF DisplayInv, Known
<1>7. HasBoth(Tables)
  BY <1>1, <1>2, <1>5 DEF Follows
<1>8. Tables' = Handled(Tables, Head(pipe)) /\ viewing' = viewing
  BY <1>6, <1>7, ReaderHandles
<1> DEFINE U == [k \in 0 .. Len(p) - 1 |-> T[k + 1]]
<1>9. U[0] = Tables'
  <2>1. T[1] = Handled(T[1 - 1], p[1])
    BY <1>1, <1>2, <1>5 DEF Follows
  <2>2. 0 + 1 = 1 /\ 1 - 1 = 0 /\ 0 \in 0 .. Len(p) - 1
    BY <1>5
  <2>3. U[0] = T[1]
    BY <2>2
  <2>4. QED
    BY <1>1, <1>2, <1>5, <1>8, <2>1, <2>2, <2>3
<1>10. Follows(U, Tail(p))
  <2>1. \A k \in 0 .. Len(p) - 1 : U[k] = T[k + 1]
    OBVIOUS
  <2> HIDE DEF U
  <2>2. ASSUME NEW k \in 1 .. Len(p) - 1
        PROVE  U[k] = Handled(U[k - 1], Tail(p)[k])
    <3>1. k + 1 \in 1 .. Len(p) /\ (k + 1) - 1 = k /\ k - 1 \in 0 .. Len(p) - 1 /\ (k - 1) + 1 = k
          /\ k \in 0 .. Len(p) - 1
      BY <1>5
    <3>2. T[k + 1] = Handled(T[(k + 1) - 1], p[k + 1])
      BY <1>1, <1>2, <3>1 DEF Follows
    <3>3. QED
      BY <1>5, <2>1, <3>1, <3>2
  <2>3. ASSUME NEW k \in 0 .. Len(p) - 1
        PROVE  HasBoth(U[k]) /\ TrueTicks(U[k])
    <3>1. k + 1 \in 0 .. Len(p)
      BY <1>5
    <3>2. QED
      BY <1>1, <1>2, <2>1, <3>1 DEF Follows
  <2>4. QED
    BY <1>5, <2>2, <2>3 DEF Follows
<1>11. Unspoilt' => AllTicked(U[Len(p) - 1])
  <2>1. Unspoilt' <=> Unspoilt
    BY <1>8 DEF Unspoilt
  <2>2. U[Len(p) - 1] = T[Len(p)]
    <3>1. Len(p) - 1 \in 0 .. Len(p) - 1 /\ (Len(p) - 1) + 1 = Len(p)
      BY <1>5
    <3>2. QED
      BY <3>1
  <2>3. QED
    BY <1>1, <1>2, <2>1, <2>2
<1> HIDE DEF U
<1>12. Known(Tail(p))
  <2>1. \A k \in 1 .. Len(p) - 1 : k + 1 \in 1 .. Len(p)
    BY <1>5
  <2>2. QED
    BY <1>2, <1>5, <2>1 DEF DisplayInv, Known
<1>13. phase' # "golden"
  BY <1>2, <1>4 DEF DisplayInv
<1>14. Known(pipe)' /\ Follows(U, pipe') /\ (Unspoilt' => AllTicked(U[Len(pipe')]))
  BY <1>4, <1>5, <1>10, <1>11, <1>12 DEF Known
<1>15. \E X : X[0] = Tables' /\ Follows(X, pipe') /\ (Unspoilt' => AllTicked(X[Len(pipe')]))
  BY <1>9, <1>14
<1>16. viewing' => tool' = "host_runner"
  BY <1>8 DEF DisplayInv
<1>17. QED
  BY <1>13, <1>14, <1>15, <1>16 DEF DisplayInv, Known

(* A judged transfer puts its block into the pipe.                         *)
LEMMA DisplaySends ==
  ASSUME DisplayInv, NEW t, WellSent(t), V!Send(Events(t)), UNCHANGED <<viewing, expected, actual, tool>>,
         phase' # "golden", verdict' = IF Intact(t) THEN verdict ELSE "fail"
  PROVE  DisplayInv'
<1>1. PICK T : T[0] = Tables /\ Follows(T, pipe) /\ (Unspoilt => AllTicked(T[Len(pipe)]))
  BY DEF DisplayInv
<1>2. PICK p : p = pipe
  OBVIOUS
<1>3. Tables' = Tables
  BY DEF Tables
<1>4. viewing' => tool' = "host_runner"
  BY DEF DisplayInv
<1>5. CASE ~viewing
  <2>1. pipe' = p /\ ~viewing'
    BY <1>2, <1>5 DEF V!Send
  <2>2. Known(pipe')
    BY <1>2, <2>1 DEF DisplayInv
  <2>3. \E X : X[0] = Tables' /\ Follows(X, pipe') /\ (Unspoilt' => AllTicked(X[Len(pipe')]))
    BY <1>1, <1>2, <1>3, <2>1 DEF Unspoilt
  <2>4. QED
    BY <1>4, <2>2, <2>3 DEF DisplayInv, Known
<1>6. CASE viewing
  <2>1. PICK e : e = Events(t)
    OBVIOUS
  <2>2. /\ Len(e) \in Nat /\ \E S : e \in Seq(S)
        /\ \A k \in 1 .. Len(e) : e[k] = EventAt(t, k)
    BY <2>1, EventsAre
  <2>3. Len(p) \in Nat /\ \E S : p \in Seq(S)
    BY <1>2 DEF DisplayInv, Known
  <2>4. pipe' = p \o e
    BY <1>2, <1>6, <2>1 DEF V!Send
  <2> DEFINE l == Len(p)
             m == Len(e)
             t0 == T[l]
             W(k) == Shown(t, t0, k)
             U == [k \in 0 .. l + m |-> IF k <= l THEN T[k] ELSE W(k - l)]
             q == p \o e
  <2>5. /\ \E S : q \in Seq(S)
        /\ Len(q) = l + m
        /\ \A k \in 1 .. l : q[k] = p[k]
        /\ \A k \in 1 .. m : q[l + k] = e[k]
    <3>1. PICK A : p \in Seq(A)
      BY <2>3
    <3>2. PICK B : e \in Seq(B)
      BY <2>2
    <3>3. PICK S : S = A \cup B
      OBVIOUS
    <3>4. p \in Seq(S) /\ e \in Seq(S)
      BY <3>1, <3>2, <3>3
    <3>5. /\ p \o e \in Seq(S) /\ Len(p \o e) = Len(p) + Len(e)
          /\ \A k \in 1 .. Len(p) + Len(e) : (p \o e)[k] = IF k <= Len(p) THEN p[k] ELSE e[k - Len(p)]
      BY <3>4, ConcatProperties
    <3> HIDE DEF q
    <3>6. /\ q \in Seq(S) /\ Len(q) = l + m
          /\ \A k \in 1 .. l + m : q[k] = IF k <= l THEN p[k] ELSE e[k - l]
      BY <3>5 DEF q
    <3> HIDE DEF l, m
    <3>7. l \in Nat /\ m \in Nat
      BY <2>2, <2>3 DEF l, m
    <3>8. /\ \A k \in 1 .. l : k \in 1 .. l + m /\ k <= l
          /\ \A k \in 1 .. m : l + k \in 1 .. l + m /\ ~(l + k <= l) /\ (l + k) - l = k
      BY <3>7
    <3>9. QED
      BY <3>6, <3>8
  <2>6. HasBoth(t0) /\ TrueTicks(t0)
    BY <1>1, <1>2, <2>3 DEF Follows
  <2>7. /\ W(0) = t0
        /\ \A k \in 1 .. m : W(k) = Handled(W(k - 1), e[k])
        /\ \A k \in 0 .. m : HasBoth(W(k)) /\ TrueTicks(W(k))
        /\ Intact(t) => AllTicked(W(m))
    <3> HIDE DEF t0
    <3>1. QED
      BY <2>1, <2>6, BlockShown
  <2>8. l \in Nat /\ m \in Nat
    BY <2>2, <2>3
  <2>9. /\ \A k \in 1 .. l : T[k] = Handled(T[k - 1], p[k])
        /\ \A k \in 0 .. l : HasBoth(T[k]) /\ TrueTicks(T[k])
    BY <1>1, <1>2 DEF Follows
  <2>10. \A k \in 0 .. l + m : U[k] = IF k <= l THEN T[k] ELSE W(k - l)
    OBVIOUS
  <2>11. t0 = T[l]
    OBVIOUS
  <2> HIDE DEF l, m, t0, W, U, q
  <2>12. ASSUME NEW k \in 1 .. l + m
         PROVE  U[k] = Handled(U[k - 1], q[k])
    <3>1. CASE k <= l
      <4>1. k \in 1 .. l /\ k - 1 <= l /\ k - 1 \in 0 .. l + m /\ k \in 0 .. l + m
        BY <2>8, <3>1
      <4>2. QED
        BY <2>5, <2>9, <2>10, <3>1, <4>1
    <3>2. CASE k > l
      <4> DEFINE j == k - l
      <4>1. j \in 1 .. m /\ l + j = k /\ ~(k <= l) /\ k \in 0 .. l + m /\ k - 1 \in 0 .. l + m
            /\ (k - 1) - l = j - 1
        BY <2>8, <3>2
      <4>2. U[k] = W(j)
        BY <2>10, <4>1
      <4>3. q[k] = e[j]
        BY <2>5, <4>1
      <4> HIDE DEF j
      <4>4. W(j) = Handled(W(j - 1), e[j])
        BY <2>7, <4>1
      <4>5. U[k - 1] = W(j - 1)
        <5>1. CASE j = 1
          <6>1. k - 1 = l /\ j - 1 = 0 /\ k - 1 <= l
            BY <2>8, <4>1, <5>1
          <6>2. U[k - 1] = T[l]
            BY <2>10, <4>1, <6>1
          <6>3. QED
            BY <2>7, <2>11, <6>1, <6>2
        <5>2. CASE j # 1
          <6>1. ~(k - 1 <= l)
            BY <2>8, <4>1, <5>2
          <6>2. QED
            BY <2>10, <4>1, <6>1
        <5>3. QED
          BY <5>1, <5>2
      <4>6. QED
        BY <4>2, <4>3, <4>4, <4>5
    <3>3. QED
      BY <2>8, <3>1, <3>2
  <2>13. ASSUME NEW k \in 0 .. l + m
         PROVE  HasBoth(U[k]) /\ TrueTicks(U[k])
    <3>1. CASE k <= l
      <4>1. k \in 0 .. l
        BY <2>8, <3>1
      <4>2. QED
        BY <2>9, <2>10, <3>1, <4>1
    <3>2. CASE k > l
      <4>1. k - l \in 0 .. m /\ ~(k <= l)
        BY <2>8, <3>2
      <4>2. QED
        BY <2>7, <2>10, <4>1
    <3>3. QED
      BY <2>8, <3>1, <3>2
  <2>14. Follows(U, q)
    BY <2>5, <2>12, <2>13 DEF Follows
  <2>15. U[0] = Tables
    <3>1. 0 \in 0 .. l + m /\ 0 <= l
      BY <2>8
    <3>2. QED
      BY <1>1, <2>10, <3>1
  <2>16. Unspoilt' => AllTicked(U[Len(q)])
    <3> SUFFICES ASSUME Unspoilt' PROVE AllTicked(U[Len(q)])
      OBVIOUS
    <3>1. Intact(t) /\ Unspoilt
      BY DEF Unspoilt
    <3>2. CASE m = 0
      <4>1. U[l + m] = W(m)
        BY <2>7, <2>8, <2>10, <2>11, <3>2
      <4>2. QED
        BY <2>5, <2>7, <3>1, <4>1
    <3>3. CASE m # 0
      <4>1. l + m \in 0 .. l + m /\ ~(l + m <= l) /\ (l + m) - l = m
        BY <2>8, <3>3
      <4>2. U[l + m] = W(m)
        BY <2>10, <4>1
      <4>3. QED
        BY <2>5, <2>7, <3>1, <4>2
    <3>4. QED
      BY <3>2, <3>3
  <2>17. Known(q)
    <3>1. \A k \in 1 .. Len(p) : p[k].type \in EventTypes /\ p[k].region \in V!Regions
      BY <1>2 DEF DisplayInv, Known
    <3>2. \A k \in 1 .. m : e[k].type \in EventTypes /\ e[k].region \in V!Regions
      BY <2>2, EventsKnown DEF m
    <3>3. ASSUME NEW k \in 1 .. l + m
          PROVE  q[k].type \in EventTypes /\ q[k].region \in V!Regions
      <4>1. CASE k <= l
        <5>1. k \in 1 .. l
          BY <2>8, <4>1
        <5>2. QED
          BY <2>5, <3>1, <5>1 DEF l
      <4>2. CASE k > l
        <5> DEFINE j == k - l
        <5>1. j \in 1 .. m /\ l + j = k
          BY <2>8, <4>2
        <5> HIDE DEF j
        <5>2. q[k] = e[j]
          BY <2>5, <5>1
        <5>3. QED
          BY <3>2, <5>1, <5>2
      <4>3. QED
        BY <2>8, <4>1, <4>2
    <3>4. QED
      BY <2>5, <3>3 DEF Known
  <2>18. pipe' = q
    BY <2>4 DEF q
  <2>19. Known(pipe') /\ Follows(U, pipe') /\ (Unspoilt' => AllTicked(U[Len(pipe')]))
    BY <2>14, <2>16, <2>17, <2>18
  <2>20. \E X : X[0] = Tables' /\ Follows(X, pipe') /\ (Unspoilt' => AllTicked(X[Len(pipe')]))
    BY <1>3, <2>15, <2>19
  <2>21. QED
    BY <1>4, <2>19, <2>20 DEF DisplayInv, Known
<1>7. QED
  BY <1>5, <1>6

(* Steps that touch no table and no pipe.                                  *)
LEMMA DisplayKeeps ==
  ASSUME DisplayInv, UNCHANGED <<pipe, expected, actual>>,
         viewing' => tool' = "host_runner",
         Unspoilt' => Unspoilt \/ phase = "golden",
         phase' = "golden" => phase = "golden" /\ viewing' = viewing
  PROVE  DisplayInv'
<1>1. PICK T : T[0] = Tables /\ Follows(T, pipe) /\ (Unspoilt => AllTicked(T[Len(pipe)]))
  BY DEF DisplayInv
<1>2. PICK p : p = pipe
  OBVIOUS
<1>3. Tables' = Tables /\ pipe' = p
  BY <1>2 DEF Tables
<1>4. phase = "golden" => AllTicked(T[Len(p)])
  BY <1>1, <1>2 DEF DisplayInv
<1>5. Known(pipe')
  BY <1>2, <1>3 DEF DisplayInv
<1>6. \E X : X[0] = Tables' /\ Follows(X, pipe') /\ (Unspoilt' => AllTicked(X[Len(pipe')]))
  BY <1>1, <1>2, <1>3, <1>4
<1>7. phase' = "golden" => pipe' = <<>> /\ ~viewing' /\ AllTicked(Tables')
  BY <1>3 DEF DisplayInv
<1>8. QED
  BY <1>5, <1>6, <1>7 DEF DisplayInv, Known, AllTicked

(* One transfer is judged, or skipped when it has no words.                *)
LEMMA DisplayJudges ==
  ASSUME SentInv, DisplayInv, VerifyTransfer
  PROVE  DisplayInv'
<1>1. PICK t : t = transfers[checked + 1]
  OBVIOUS
<1>2. /\ phase = "verify" /\ checked < Len(transfers) /\ UNCHANGED <<tool, phase>>
      /\ verdict' = IF Beats(t.desc) = 0 \/ Intact(t) THEN verdict ELSE "fail"
  BY <1>1 DEF VerifyTransfer
<1>3. WellSent(t)
  <2>1. checked + 1 \in 1 .. Len(transfers)
    BY <1>2 DEF SentInv
  <2>2. QED
    BY <1>1, <2>1 DEF SentInv
<1>4. CASE Beats(t.desc) = 0
  <2>1. UNCHANGED <<pipe, viewing, expected, actual, verdict>>
    BY <1>1, <1>2, <1>4 DEF VerifyTransfer, displayVars
  <2>2. viewing' => tool' = "host_runner"
    BY <1>2, <2>1 DEF DisplayInv
  <2>3. Unspoilt' => Unspoilt
    BY <2>1 DEF Unspoilt
  <2>4. QED
    BY <1>2, <2>1, <2>2, <2>3, DisplayKeeps
<1>5. CASE Beats(t.desc) # 0
  <2>1. V!Send(Events(t)) /\ UNCHANGED <<viewing, expected, actual>>
    BY <1>1, <1>5 DEF VerifyTransfer, Events
  <2>2. verdict' = IF Intact(t) THEN verdict ELSE "fail"
    BY <1>2, <1>5
  <2>3. QED
    BY <1>2, <1>3, <2>1, <2>2, DisplaySends
<1>6. QED
  BY <1>4, <1>5

(* The display is gone: what its tables show stays.                        *)
LEMMA DisplayStops ==
  ASSUME DisplayInv, V!Interrupt, UNCHANGED <<tool, verdict, phase>>
  PROVE  DisplayInv'
<1>1. PICK T : T[0] = Tables /\ Follows(T, pipe) /\ (Unspoilt => AllTicked(T[Len(pipe)]))
  BY DEF DisplayInv
<1>2. viewing /\ ~viewing' /\ pipe' = <<>> /\ Tables' = Tables
  BY DEF V!Interrupt, Tables
<1>3. Len(pipe) \in Nat
  BY DEF DisplayInv, Known
<1>4. PICK e : e = <<>>
  OBVIOUS
<1>5. Len(e) = 0 /\ \E S : e \in Seq(S)
  <2>1. <<>> \in Seq({})
    OBVIOUS
  <2>2. QED
    BY <1>4, <2>1
<1>6. HasBoth(T[0]) /\ TrueTicks(T[0])
  BY <1>1, <1>3 DEF Follows
<1>7. Known(e) /\ Follows(T, e)
  BY <1>5, <1>6 DEF Known, Follows
<1>8. \E X : X[0] = Tables' /\ Follows(X, e) /\ (Unspoilt' => AllTicked(X[Len(e)]))
  BY <1>1, <1>2, <1>7 DEF Unspoilt
<1>9. phase' # "golden"
  BY <1>2 DEF DisplayInv
<1>10. pipe' = e
  BY <1>2, <1>4
<1>11. QED
  BY <1>2, <1>7, <1>8, <1>9, <1>10 DEF DisplayInv, Known

(* Every step keeps the display true.                                      *)
LEMMA DisplayStep == SentInv /\ DisplayInv /\ [vNext]_verifyVars => DisplayInv'
<1> SUFFICES ASSUME SentInv, DisplayInv, [vNext]_verifyVars PROVE DisplayInv'
  OBVIOUS
<1>1. CASE VerifyTransfer
  BY <1>1, DisplayJudges
<1>2. CASE Display
  <2>1. UNCHANGED <<tool, verdict, phase>>
    BY <1>2 DEF Display, hostVars
  <2>2. QED
    BY <1>2, <2>1, DisplayReads, DisplayStops DEF Display
<1>3. CASE Start
  <2>1. /\ UNCHANGED <<pipe, expected, actual>> /\ phase = "golden" /\ phase' # "golden"
        /\ viewing' => tool' = "host_runner"
    BY <1>3 DEF Start
  <2>2. QED
    BY <2>1, DisplayKeeps
<1>4. CASE RunGolden \/ Stop \/ UNCHANGED verifyVars
  <2>1. UNCHANGED <<pipe, viewing, expected, actual, tool, verdict, phase>>
    BY <1>4 DEF RunGolden, Stop, verifyVars, hostVars, displayVars
  <2>2. viewing' => tool' = "host_runner"
    BY <2>1 DEF DisplayInv
  <2>3. QED
    BY <2>1, <2>2, DisplayKeeps DEF Unspoilt
<1>5. CASE ClearMemories \/ SendLine \/ WalkRing \/ StimSent \/ RunDma \/ Report
  <2>1. /\ UNCHANGED <<pipe, viewing, expected, actual, tool>> /\ phase' # "golden"
        /\ verdict' = verdict \/ verdict' = "fail" \/ verdict = "none"
    BY <1>5 DEF ClearMemories, SendLine, WalkRing, StimSent, RunDma, Report, displayVars
  <2>2. viewing' => tool' = "host_runner"
    BY <2>1 DEF DisplayInv
  <2>3. QED
    BY <2>1, <2>2, DisplayKeeps DEF Unspoilt
<1>6. CASE VerifyCrcs \/ DryRun
  <2>1. /\ UNCHANGED <<pipe, viewing, expected, actual>> /\ phase' # "golden" /\ tool # "host_runner"
    BY <1>6 DEF VerifyCrcs, DryRun, displayVars
  <2>2. ~viewing'
    BY <2>1 DEF DisplayInv
  <2>3. QED
    BY <2>1, <2>2, DisplayKeeps DEF Unspoilt
<1>7. QED
  BY <1>1, <1>2, <1>3, <1>4, <1>5, <1>6 DEF vNext, Host

(* The pipe is empty and so are the tables.                                *)
LEMMA DisplayInit == vInit => SentInv /\ DisplayInv
<1> SUFFICES ASSUME vInit PROVE SentInv /\ DisplayInv
  OBVIOUS
<1>1. SentInv
  BY DEF vInit, SentInv
<1>2. /\ pipe = <<>> /\ ~viewing
      /\ expected = [r \in V!Regions |-> <<>>] /\ actual = [r \in V!Regions |-> <<>>]
  BY DEF vInit, V!vizInit
<1>3. HasBoth(Tables) /\ TrueTicks(Tables) /\ AllTicked(Tables)
  <2>1. \A r \in V!Regions : DOMAIN actual[r] = {}
    BY <1>2
  <2>2. Tables.actual = actual /\ Tables.expected = expected
    BY DEF Tables
  <2>3. QED
    BY <1>2, <2>1, <2>2 DEF HasBoth, TrueTicks, AllTicked
<1>4. PICK e : e = <<>>
  OBVIOUS
<1>5. Len(e) = 0 /\ \E S : e \in Seq(S)
  <2>1. <<>> \in Seq({})
    OBVIOUS
  <2>2. QED
    BY <1>4, <2>1
<1> DEFINE T == [k \in {0} |-> Tables]
<1>6. T[0] = Tables
  OBVIOUS
<1> HIDE DEF T
<1>7. Known(e) /\ Follows(T, e)
  BY <1>3, <1>5, <1>6 DEF Known, Follows
<1>8. \E X : X[0] = Tables /\ Follows(X, e) /\ (Unspoilt => AllTicked(X[Len(e)]))
  BY <1>3, <1>5, <1>6, <1>7
<1>9. DisplayInv
  BY <1>2, <1>3, <1>4, <1>7, <1>8 DEF DisplayInv
<1>10. QED
  BY <1>1, <1>9

(* The live display never ticks a cell that shows another word than        *)
(* expected, and after PASS every cell has its tick: for every scenario,   *)
(* board and pace of the reader, and whether or not it is interrupted.     *)
(* The pipe keeps the order of the events, so the tables of one transfer   *)
(* never get the words or the ticks of another.                            *)
THEOREM DisplayIsTrue == vSpec => []TicksAreTrue
<1>1. vInit => HomeInv
  BY RunnerInit
<1>2. QED
  BY <1>1, ModelInit, ModelStep, HomeStep, SerialInit, LoadStep, DisplayInit, SentStep, DisplayStep,
     DisplayTrue, PTL DEF vSpec
=============================================================================
