----------------------------- MODULE FifoProofs ------------------------------
(***************************************************************************)
(* The FIFO implements the show-ahead queue, for every depth and every set *)
(* of words.  The pointers are compared modulo twice the depth: Dist is    *)
(* how far the write pointer is ahead, SlotAt the entry of the k-th word.  *)
(***************************************************************************)
EXTENDS Fifo, SequenceTheorems, TLAPS

Size == FIFO_BUFFER_SIZE

Dist(w, r) == IF w >= r THEN w - r ELSE 2 * Size - r + w

SlotAt(r, k) == Index(IF r + k - 1 < 2 * Size THEN r + k - 1 ELSE r + k - 1 - 2 * Size)

FifoInv == TypeOK /\ LookAhead
-----------------------------------------------------------------------------
(* Pointer arithmetic.                                                     *)

(* The distance of the pointers when one of them moves.                    *)
LEMMA DistBump ==
  ASSUME NEW w \in Pointers, NEW r \in Pointers
  PROVE  /\ Bump(w) \in Pointers
         /\ Dist(w, r) \in 0 .. 2 * Size - 1
         /\ Dist(w, r) = 0 <=> w = r
         /\ Dist(w, r) < 2 * Size - 1 => Dist(Bump(w), r) = Dist(w, r) + 1
         /\ w # r => Dist(w, Bump(r)) = Dist(w, r) - 1
BY FifoAssumption DEF Pointers, Bump, Dist, Size

(* Full is a distance of Size.                                             *)
LEMMA FullDist ==
  ASSUME NEW w \in Pointers, NEW r \in Pointers
  PROVE  (Index(w) = Index(r) /\ (WrapBit(w) # WrapBit(r))) <=> Dist(w, r) = Size
BY FifoAssumption DEF Pointers, Index, WrapBit, Dist, Size

(* A pointer indexes the buffer.                                           *)
LEMMA IndexInBuffer ==
  ASSUME NEW p \in Pointers
  PROVE  Index(p) \in 0 .. Size - 1
BY FifoAssumption DEF Pointers, Index, Size

(* The slots seen from the read pointer, before and after it moves.        *)
LEMMA SlotMoves ==
  ASSUME NEW r \in Pointers, NEW k \in 1 .. Size
  PROVE  /\ SlotAt(r, k) \in 0 .. Size - 1
         /\ SlotAt(Bump(r), k) = SlotAt(r, k + 1)
         /\ SlotAt(r, 1) = Index(r)
BY FifoAssumption DEF Pointers, Bump, SlotAt, Index, Size

(* The entry behind the last word is the one written next, and no waiting  *)
(* word is in it unless the buffer is full.                                *)
LEMMA SlotOfWrite ==
  ASSUME NEW w \in Pointers, NEW r \in Pointers, Dist(w, r) < Size
  PROVE  /\ SlotAt(r, Dist(w, r) + 1) = Index(w)
         /\ \A k \in 1 .. Dist(w, r) : SlotAt(r, k) # Index(w)
BY FifoAssumption DEF Pointers, SlotAt, Dist, Index, Size

(* What the type invariant says of the pointers.                           *)
LEMMA Shapes ==
  ASSUME TypeOK
  PROVE  /\ wr_addr \in Pointers /\ rd_addr \in Pointers /\ Size \in Nat \ {0}
         /\ Count = Dist(wr_addr, rd_addr) /\ Count \in 0 .. Size
         /\ Count = 0 <=> wr_addr = rd_addr
         /\ \A k \in Nat : Slot(k) = SlotAt(rd_addr, k)
<1>1. /\ Count = Dist(wr_addr, rd_addr) /\ Count \in 0 .. Size
      /\ Count = 0 <=> wr_addr = rd_addr
  BY FifoAssumption DEF TypeOK, Pointers, Count, Dist, Size
<1>2. \A k \in Nat : Slot(k) = SlotAt(rd_addr, k)
  BY FifoAssumption DEF TypeOK, Pointers, Size, Slot, SlotAt, Index
<1>3. QED
  BY <1>1, <1>2, FifoAssumption DEF TypeOK, Size
-----------------------------------------------------------------------------
(* One edge on the pointers.                                               *)
LEMMA EdgePointers ==
  ASSUME TypeOK, NEW wr_en \in BOOLEAN, NEW rd_en \in BOOLEAN, NEW din \in Values,
         Edge(wr_en, din, rd_en)
  PROVE  LET took == IF rd_en /\ wr_addr # rd_addr THEN 1 ELSE 0
             put  == IF wr_en /\ ~full THEN 1 ELSE 0
         IN  /\ wr_addr' \in Pointers /\ rd_addr' \in Pointers
             /\ full <=> Count = Size
             /\ Count' = Count - took + put
             /\ Count' \in 0 .. Size
             /\ Dist(wr_addr, rd_addr') = Count - took
<1> DEFINE c == Dist(wr_addr, rd_addr)
<1>1. wr_addr \in Pointers /\ rd_addr \in Pointers /\ Count = c /\ c \in 0 .. Size
  BY Shapes
<1>2. Size \in Nat \ {0}
  BY FifoAssumption DEF Size
<1>3. full <=> c = Size
  BY <1>1, FullDist DEF full
<1>4. Count' = Dist(wr_addr', rd_addr')
  BY DEF Count, Dist, Size
<1>5. /\ rd_addr' = IF rd_en /\ wr_addr # rd_addr THEN Bump(rd_addr) ELSE rd_addr
      /\ wr_addr' = IF wr_en /\ ~full THEN Bump(wr_addr) ELSE wr_addr
  BY DEF Edge, rd_addr_t, wr_addr_t, empty_t
<1>6. wr_addr' \in Pointers /\ rd_addr' \in Pointers
  BY <1>1, <1>5, DistBump
<1>7. Dist(wr_addr, rd_addr') = IF rd_en /\ wr_addr # rd_addr THEN c - 1 ELSE c
  BY <1>1, <1>5, DistBump
<1>8. CASE wr_en /\ ~full
  <2>1. Dist(wr_addr, rd_addr') \in 0 .. Size - 1
    BY <1>1, <1>2, <1>3, <1>7, <1>8, DistBump
  <2>2. Dist(wr_addr, rd_addr') < 2 * Size - 1
    BY <1>2, <2>1
  <2>3. Dist(wr_addr', rd_addr') = Dist(wr_addr, rd_addr') + 1
    BY <1>1, <1>5, <1>6, <1>8, <2>2, DistBump
  <2>4. QED
    BY <1>1, <1>2, <1>3, <1>4, <1>6, <1>7, <1>8, <2>1, <2>3
<1>9. CASE ~(wr_en /\ ~full)
  <2>1. Dist(wr_addr', rd_addr') = Dist(wr_addr, rd_addr')
    BY <1>5, <1>9
  <2>2. Dist(wr_addr, rd_addr') \in 0 .. Size
    <3>1. wr_addr # rd_addr => c # 0
      BY <1>1, DistBump
    <3> HIDE DEF c
    <3>2. QED
      BY <1>1, <1>2, <1>7, <3>1
  <2>3. QED
    BY <1>1, <1>2, <1>3, <1>4, <1>6, <1>7, <1>9, <2>1, <2>2
<1>10. QED
  BY <1>8, <1>9

(* One edge, whether or not the reader looked at the flag.                 *)
LEMMA InvEdge ==
  ASSUME FifoInv, NEW wr_en \in BOOLEAN, NEW rd_en \in BOOLEAN, NEW din \in Values,
         Edge(wr_en, din, rd_en)
  PROVE  FifoInv'
<1>1. /\ wr_addr' \in Pointers /\ rd_addr' \in Pointers
      /\ full <=> Count = Size
      /\ Count' \in 0 .. Size /\ Size \in Nat
      /\ Dist(wr_addr, rd_addr') \in 0 .. Size
      /\ Count' = Dist(wr_addr, rd_addr') + (IF wr_en /\ ~full THEN 1 ELSE 0)
  <2>1. TypeOK
    BY DEF FifoInv
  <2>2. Count \in 0 .. Size /\ Size \in Nat \ {0} /\ (Count = 0 <=> wr_addr = rd_addr)
    BY <2>1, Shapes
  <2>3. QED
    BY <2>1, <2>2, EdgePointers
<1>2. fifo_buf' \in [0 .. FIFO_BUFFER_SIZE - 1 -> Values]
  BY IndexInBuffer DEF Edge, FifoInv, TypeOK, Size
<1>3. dout' = fifo_buf[Index(rd_addr')] /\ empty' = (wr_addr = rd_addr')
  BY DEF Edge
<1>4. dout' \in Values /\ empty' \in BOOLEAN
  BY <1>1, <1>3, IndexInBuffer DEF FifoInv, TypeOK, Size
<1>5. ASSUME ~empty' PROVE Count' > 0 /\ dout' = (fifo_buf[Index(rd_addr)])'
  <2>1. Dist(wr_addr, rd_addr') > 0 /\ wr_addr # rd_addr'
    <3>1. wr_addr \in Pointers /\ wr_addr # rd_addr'
      BY <1>3, <1>5 DEF FifoInv, TypeOK
    <3>2. Dist(wr_addr, rd_addr') # 0
      BY <1>1, <3>1, DistBump
    <3>3. QED
      BY <1>1, <3>1, <3>2
  <2>2. CASE wr_en /\ ~full
    <3>1. Index(wr_addr) # Index(rd_addr')
      <4>1. Dist(wr_addr, rd_addr') < Size
        BY <1>1, <2>2
      <4>2. SlotAt(rd_addr', 1) # Index(wr_addr)
        BY <1>1, <2>1, <4>1, SlotOfWrite DEF FifoInv, TypeOK
      <4>3. QED
        BY <1>1, <4>2, SlotMoves, FifoAssumption DEF Size
    <3>2. fifo_buf'[Index(rd_addr')] = fifo_buf[Index(rd_addr')]
      BY <1>1, <2>2, <3>1, IndexInBuffer DEF Edge, FifoInv, TypeOK, Size
    <3>3. QED
      BY <1>1, <1>3, <2>1, <3>2 DEF Index
  <2>3. CASE ~(wr_en /\ ~full)
    BY <1>1, <1>3, <2>1, <2>3 DEF Edge, Index
  <2>4. QED
    BY <2>2, <2>3
<1>6. QED
  <2>1. TypeOK'
    BY <1>1, <1>2, <1>4 DEF TypeOK, Pointers, Size
  <2>2. LookAhead'
    BY <1>5 DEF LookAhead
  <2>3. QED
    BY <2>1, <2>2 DEF FifoInv

(* Every edge keeps the invariant.                                         *)
LEMMA InvStep == FifoInv /\ [Next]_vars => FifoInv'
<1> SUFFICES ASSUME FifoInv, [Next]_vars PROVE FifoInv'
  OBVIOUS
<1>1. CASE UNCHANGED vars
  BY <1>1 DEF vars, FifoInv, TypeOK, LookAhead, Count, Pointers, Index
<1>2. CASE Reset
  BY <1>2, FifoAssumption DEF Reset, FifoInv, TypeOK, LookAhead, Count, Pointers
<1>3. QED
  BY <1>1, <1>2, InvEdge DEF Next

(* After reset the FIFO is empty.                                          *)
LEMMA InvInit == Init => FifoInv
BY FifoAssumption DEF Init, FifoInv, TypeOK, LookAhead, Count, Pointers

(* The pointers stay within the depth of each other, and the read port     *)
(* shows the oldest word whenever the late flag is down, for every depth.  *)
THEOREM FifoSound == Spec => [](TypeOK /\ LookAhead)
BY InvInit, InvStep, PTL DEF Spec, FifoInv

(* Pointers stay inside their extra-bit range and the occupancy they give  *)
(* inside the buffer, whatever pushes and pops coincide.                   *)
THEOREM FifoTypes == Spec => []TypeOK
BY FifoSound, PTL
-----------------------------------------------------------------------------
(* The words between the pointers, as a sequence.                          *)
WordsAt(buf, r, n) == [k \in 1 .. n |-> buf[SlotAt(r, k)]]

(* They are words, as many as the distance says.                           *)
LEMMA WordsAre ==
  ASSUME NEW buf \in [0 .. Size - 1 -> Values], NEW r \in Pointers, NEW n \in 0 .. Size
  PROVE  /\ WordsAt(buf, r, n) \in Seq(Values) /\ Len(WordsAt(buf, r, n)) = n
         /\ \A k \in 1 .. n : WordsAt(buf, r, n)[k] = buf[SlotAt(r, k)]
<1>1. n \in Nat /\ \A k \in 1 .. n : k \in 1 .. Size
  BY FifoAssumption DEF Size
<1>2. \A k \in 1 .. n : buf[SlotAt(r, k)] \in Values
  BY <1>1, SlotMoves
<1>3. QED
  BY <1>1, <1>2 DEF WordsAt

ContentsHere == TypeOK => Contents = WordsAt(fifo_buf, rd_addr, Count)

(* It holds of every typed state ...                                       *)
LEMMA ContentsNow == ContentsHere
<1> SUFFICES ASSUME TypeOK PROVE Contents = WordsAt(fifo_buf, rd_addr, Count)
  BY DEF ContentsHere
<1>1. \A k \in 1 .. Count : Slot(k) = SlotAt(rd_addr, k)
  BY Shapes
<1>2. QED
  BY <1>1 DEF Contents, WordsAt

(* ... and of the next.                                                    *)
LEMMA ContentsNext == ContentsHere'
BY ContentsNow, PTL

(* The contents, element by element.                                       *)
LEMMA ContentsAre ==
  /\ TypeOK => Contents = WordsAt(fifo_buf, rd_addr, Count)
  /\ TypeOK' => Contents' = WordsAt(fifo_buf', rd_addr', Count')
<1>1. ContentsHere /\ ContentsHere'
  BY ContentsNow, ContentsNext
<1>2. QED
  BY <1>1 DEF ContentsHere, WordsAt, SlotAt, Index, Size

(* One edge does to them what it does to the abstract queue.               *)
LEMMA EdgeContents ==
  ASSUME FifoInv, NEW wr_en \in BOOLEAN, NEW rd_en \in BOOLEAN, NEW din \in Values,
         Edge(wr_en, din, rd_en)
  PROVE  LET rest == IF rd_en /\ Contents # <<>> THEN Tail(Contents) ELSE Contents
         IN  /\ Contents \in Seq(Values) /\ Len(Contents) <= Size
             /\ full <=> Len(Contents) = Size
             /\ Contents' = IF wr_en /\ ~full THEN Append(rest, din) ELSE rest
             /\ empty' = (rest = <<>>)
<1> DEFINE rest == IF rd_en /\ Contents # <<>> THEN Tail(Contents) ELSE Contents
           took == IF rd_en /\ wr_addr # rd_addr THEN 1 ELSE 0
           n == Dist(wr_addr, rd_addr')
<1>1. TypeOK /\ TypeOK'
  BY InvEdge DEF FifoInv
<1>2. /\ wr_addr \in Pointers /\ rd_addr \in Pointers /\ rd_addr' \in Pointers
      /\ fifo_buf \in [0 .. Size - 1 -> Values] /\ fifo_buf' \in [0 .. Size - 1 -> Values]
      /\ Size \in Nat \ {0} /\ Count \in 0 .. Size /\ (Count = 0 <=> wr_addr = rd_addr)
  BY <1>1, Shapes DEF TypeOK, Size
<1>3. /\ full <=> Count = Size
      /\ n = Count - took
      /\ Count' = n + (IF wr_en /\ ~full THEN 1 ELSE 0) /\ Count' \in 0 .. Size
  BY <1>1, EdgePointers
<1>4. n \in 0 .. Size
  BY <1>2, <1>3
<1>5. /\ Contents \in Seq(Values) /\ Len(Contents) = Count
      /\ \A k \in 1 .. Count : Contents[k] = fifo_buf[SlotAt(rd_addr, k)]
  <2>1. Contents = WordsAt(fifo_buf, rd_addr, Count)
    BY <1>1, ContentsAre
  <2>2. QED
    BY <1>2, <2>1, WordsAre
<1>6. /\ Contents' \in Seq(Values) /\ Len(Contents') = Count'
      /\ \A k \in 1 .. Count' : Contents'[k] = fifo_buf'[SlotAt(rd_addr', k)]
  <2> HIDE DEF rest, took, n
  <2>1. Contents' = WordsAt(fifo_buf', rd_addr', Count')
    BY <1>1, ContentsAre
  <2>2. /\ fifo_buf' \in [0 .. Size - 1 -> Values] /\ rd_addr' \in Pointers
        /\ Count' \in 0 .. Size
    BY <1>2, <1>3
  <2>3. QED
    BY <2>1, <2>2, WordsAre
<1>7. Contents = <<>> <=> wr_addr = rd_addr
  BY <1>2, <1>5
<1>8. /\ rest \in Seq(Values) /\ Len(rest) = n
      /\ \A k \in 1 .. n : rest[k] = fifo_buf[SlotAt(rd_addr', k)]
  <2>1. rd_addr' = IF rd_en /\ wr_addr # rd_addr THEN Bump(rd_addr) ELSE rd_addr
    BY DEF Edge, rd_addr_t, empty_t
  <2>2. CASE rd_en /\ wr_addr # rd_addr
    <3>1. /\ rest = Tail(Contents) /\ rest \in Seq(Values) /\ Len(rest) = Count - 1 /\ n = Count - 1
          /\ \A k \in 1 .. Len(rest) : rest[k] = Contents[k + 1]
      BY <1>3, <1>5, <1>7, <2>2, HeadTailProperties
    <3>2. \A k \in 1 .. n : k \in 1 .. Size /\ k + 1 \in 1 .. Count
      BY <1>2, <3>1
    <3>3. \A k \in 1 .. n : SlotAt(rd_addr', k) = SlotAt(rd_addr, k + 1)
      BY <1>2, <2>1, <2>2, <3>2, SlotMoves
    <3>4. QED
      BY <1>5, <3>1, <3>2, <3>3
  <2>3. CASE ~(rd_en /\ wr_addr # rd_addr)
    BY <1>3, <1>5, <1>7, <2>1, <2>3
  <2>4. QED
    BY <2>2, <2>3
<1>9. empty' = (rest = <<>>)
  <2>1. empty' = (wr_addr = rd_addr')
    BY DEF Edge
  <2>2. n = 0 <=> wr_addr = rd_addr'
    BY <1>2, DistBump
  <2>3. rest = <<>> <=> n = 0
    <3> HIDE DEF rest, n
    <3>1. QED
      BY <1>4, <1>8
  <2>4. QED
    BY <2>1, <2>2, <2>3
<1>10. Contents' = IF wr_en /\ ~full THEN Append(rest, din) ELSE rest
  <2>1. CASE wr_en /\ ~full
    <3>1. fifo_buf' = [fifo_buf EXCEPT ![Index(wr_addr)] = din] /\ Index(wr_addr) \in 0 .. Size - 1
      BY <1>2, <2>1, IndexInBuffer DEF Edge
    <3>2. n < Size /\ Count' = n + 1
      BY <1>2, <1>3, <1>4, <2>1
    <3>3. SlotAt(rd_addr', n + 1) = Index(wr_addr) /\ \A k \in 1 .. n : SlotAt(rd_addr', k) # Index(wr_addr)
      BY <1>2, <3>2, SlotOfWrite
    <3>4. \A k \in 1 .. n : SlotAt(rd_addr', k) \in 0 .. Size - 1
      BY <1>2, <1>4, SlotMoves
    <3> HIDE DEF rest, n
    <3>5. \A k \in 1 .. n : Contents'[k] = rest[k]
      BY <1>4, <1>2, <1>6, <1>8, <3>1, <3>2, <3>3, <3>4
    <3>6. Contents'[n + 1] = din
      BY <1>4, <1>2, <1>6, <3>1, <3>2, <3>3
    <3>7. /\ Append(rest, din) \in Seq(Values) /\ Len(Append(rest, din)) = n + 1
          /\ \A k \in 1 .. n : Append(rest, din)[k] = rest[k]
          /\ Append(rest, din)[n + 1] = din
      BY <1>8, AppendProperties
    <3>8. \A k \in 1 .. Len(Contents') : Contents'[k] = Append(rest, din)[k]
      BY <1>4, <1>6, <3>2, <3>5, <3>6, <3>7
    <3>9. Contents' = Append(rest, din)
      BY <1>6, <3>2, <3>7, <3>8, SeqEqual
    <3>10. QED
      BY <2>1, <3>9
  <2>2. CASE ~(wr_en /\ ~full)
    <3>1. fifo_buf' = fifo_buf /\ Count' = n
      BY <1>3, <1>4, <2>2 DEF Edge
    <3> HIDE DEF rest, n
    <3>2. Contents' = rest
      BY <1>6, <1>8, <3>1, SeqEqual
    <3>3. QED
      BY <2>2, <3>2
  <2>3. QED
    BY <2>1, <2>2
<1>11. QED
  BY <1>2, <1>3, <1>5, <1>9, <1>10

(* Equal pointers, no contents.                                            *)
LEMMA EmptyContents ==
  ASSUME wr_addr = 0, rd_addr = 0
  PROVE  Contents = <<>>
BY DEF Contents, Count

(* The empty flag after an edge.                                           *)
LEMMA EmptyAfter ==
  ASSUME wr_addr' = 0, rd_addr' = 0
  PROVE  Contents' = <<>>
BY DEF Contents, Count

(* The buffer, its pointers and the registered outputs implement the       *)
(* show-ahead queue that the datapath is built from, for every depth.      *)
THEOREM FifoImplements == Spec => ImplementsQueue
<1>1. Init => Abstract!Init
  BY EmptyContents DEF Init, Abstract!Init
<1>2. FifoInv /\ [Next]_vars => [Abstract!Next]_<<Contents, empty>>
  <2> SUFFICES ASSUME FifoInv, [Next]_vars PROVE [Abstract!Next]_<<Contents, empty>>
    OBVIOUS
  <2>1. CASE UNCHANGED vars
    BY <2>1 DEF vars, Contents, Count, Slot, Index
  <2>2. CASE Reset
    BY <2>2, EmptyAfter DEF Reset, Abstract!Next, Abstract!Reset
  <2>3. ASSUME NEW wr_en \in BOOLEAN, NEW rd_en \in BOOLEAN, NEW din \in Values,
               rd_en => ~empty, Edge(wr_en, din, rd_en)
        PROVE  Abstract!Next
    <3>1. Abstract!Edge(wr_en, din, rd_en)
      BY <2>3, EdgeContents DEF Abstract!Edge, Abstract!full, Size
    <3>2. QED
      BY <2>3, <3>1 DEF Abstract!Next
  <2>4. QED
    BY <2>1, <2>2, <2>3 DEF Next
<1>3. QED
  BY <1>1, <1>2, InvInit, InvStep, PTL DEF Spec, ImplementsQueue, Abstract!Spec, Abstract!vars

(* Words leave in the order they entered, each once, and only a reset      *)
(* drops any: the wrapped pointers are a bounded queue.                    *)
THEOREM FifoInOrder == Spec => InOrder
<1>1. Init => Queue!Init
  BY EmptyContents DEF Init, Queue!Init
<1>2. FifoInv /\ [Next]_vars => [Queue!Move \/ (Queue!Flush /\ Reset)]_Contents
  <2> SUFFICES ASSUME FifoInv, [Next]_vars PROVE [Queue!Move \/ (Queue!Flush /\ Reset)]_Contents
    OBVIOUS
  <2>1. CASE UNCHANGED vars
    BY <2>1 DEF vars, Contents, Count, Slot, Index
  <2>2. CASE Reset
    BY <2>2, EmptyAfter DEF Reset, Queue!Flush
  <2>3. ASSUME NEW wr_en \in BOOLEAN, NEW rd_en \in BOOLEAN, NEW din \in Values,
               Edge(wr_en, din, rd_en)
        PROVE  Queue!Move \/ UNCHANGED Contents
    <3> DEFINE rest == IF rd_en /\ Contents # <<>> THEN Tail(Contents) ELSE Contents
    <3>1. /\ Contents \in Seq(Values) /\ Len(Contents) <= Size
          /\ full <=> Len(Contents) = Size
          /\ Contents' = IF wr_en /\ ~full THEN Append(rest, din) ELSE rest
      BY <2>3, EdgeContents
    <3>2. wr_en /\ ~full => Len(Contents) < FIFO_BUFFER_SIZE
      BY <3>1, FifoAssumption DEF Size
    <3>3. CASE rd_en /\ Contents # <<>>
      BY <3>1, <3>3 DEF Queue!Move, Queue!Take, Queue!TakePut
    <3>4. CASE ~(rd_en /\ Contents # <<>>)
      BY <3>1, <3>2, <3>4 DEF Queue!Move, Queue!Put
    <3>5. QED
      BY <3>3, <3>4
  <2>4. QED
    BY <2>1, <2>2, <2>3 DEF Next
<1>3. QED
  BY <1>1, <1>2, InvInit, InvStep, PTL DEF Spec, InOrder
=============================================================================
