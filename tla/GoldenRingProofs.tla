-------------------------- MODULE GoldenRingProofs --------------------------
(***************************************************************************)
(* The ring of the software model: what the rows post is what the event    *)
(* loop fetches, in order, as long as no row changes RINGLEN or BASEADDR   *)
(* behind posted descriptors and nothing but enqueue writes the ring.      *)
(*                                                                         *)
(* The rows run before the loop, so HEAD is 0 while TAIL counts up to the  *)
(* number of posted descriptors, which the test for a full ring keeps      *)
(* below RINGLEN; the loop then counts HEAD up to TAIL.  No index wraps.   *)
(*                                                                         *)
(* And stim.txt, sent to a board that is all zero, repeats there what the  *)
(* rows have done to the memories and to the ring's registers.             *)
(***************************************************************************)
EXTENDS GoldenModelProofs, SequenceTheorems, WellFoundedInduction

LineOps   == {"sysmem_write", "sram_write", "csr_write"}
LineAddrs == Nat \cup {"BASEADDR", "RINGLEN", "TAIL"}
Lines     == [op : LineOps, addr : LineAddrs, data : Nat]
Posts     == [desc : Descriptors, slot : {n \in Nat : n + DESC_WORDS <= SMEM_WORDS}]

WroteTail == \E i \in DOMAIN stim : WritesCsr(stim[i], {"TAIL"})

Count == Len(descs_fetched)

(* The word of system memory where slot k of the ring starts.              *)
SlotOf(k) == (regs.BASEADDR + (k - 1) * DESCRIPTOR_SIZE_BYTES) \div 4

(* Where TAIL, HEAD and the number of iterations are.                      *)
Ordered ==
  /\ regs.TAIL = Len(posted) /\ Count <= Len(posted)
  /\ posted # <<>> => Len(posted) < regs.RINGLEN
  /\ \A k \in 1 .. Len(posted) : posted[k].slot = SlotOf(k)
  /\ pc = "setup" => Count = 0
  /\ pc \in {"setup", "loop", "done"} => regs.HEAD = Count /\ iters = Count
  /\ pc = "fetch" => regs.HEAD = Count /\ iters = Count + 1 /\ Count < Len(posted)
  /\ pc = "move" => regs.HEAD + 1 = Count /\ iters = Count
  /\ pc = "raised" => regs.HEAD <= Count
  /\ pc = "done" /\ Csr!is_enabled(regs) => regs.HEAD = regs.TAIL
  /\ error = "iterations" => Count = MAX_ITERS

RingInv ==
  /\ stim \in Seq(Lines) /\ posted \in Seq(Posts) /\ descs_fetched \in Seq(Descriptors)
  /\ iters \in Nat /\ iters <= MAX_ITERS
  /\ pc # "raised" => error = "none"
  /\ posted # <<>> => WroteTail
  /\ posted = <<>> => regs.TAIL = 0
  /\ ~Reconfigured => Ordered

GoldenInv == DrainInv /\ RingInv
-----------------------------------------------------------------------------
(* Inside the ring an index is its own remainder; one past it is 0.        *)
LEMMA ModSmall ==
  ASSUME NEW r \in Nat, r > 0, NEW x \in 0 .. r - 1
  PROVE  x % r = x
BY SMT

(* One past the ring is its first slot.                                    *)
LEMMA ModSelf ==
  ASSUME NEW r \in Nat, r > 0
  PROVE  r % r = 0
BY SMT

(* A register write changes its register.                                  *)
LEMMA Written ==
  ASSUME NEW r \in Registers, NEW n \in Nat
  PROVE  /\ Csr!Write(r, "TAIL", n).TAIL = n
         /\ Csr!Write(r, "TAIL", n).HEAD = r.HEAD
         /\ Csr!Write(r, "TAIL", n).RINGLEN = r.RINGLEN
         /\ Csr!Write(r, "TAIL", n).BASEADDR = r.BASEADDR
         /\ Csr!Write(r, "RINGLEN", n).RINGLEN = n
         /\ Csr!Write(r, "BASEADDR", n).RINGLEN = r.RINGLEN
         /\ Csr!Write(r, "RINGLEN", n).TAIL = r.TAIL
         /\ Csr!Write(r, "RINGLEN", n).HEAD = r.HEAD
         /\ Csr!Write(r, "BASEADDR", n).TAIL = r.TAIL
         /\ Csr!Write(r, "BASEADDR", n).HEAD = r.HEAD
BY DEF Csr!Write, Registers

(* The hardware's write of HEAD changes HEAD.                              *)
LEMMA WrittenHead ==
  ASSUME NEW r \in Registers, NEW n \in Nat
  PROVE  /\ Csr!hw_set_head(r, n).HEAD = n
         /\ Csr!hw_set_head(r, n).TAIL = r.TAIL
         /\ Csr!hw_set_head(r, n).RINGLEN = r.RINGLEN
         /\ Csr!hw_set_head(r, n).BASEADDR = r.BASEADDR
         /\ Csr!hw_set_head(r, n).CTRL = r.CTRL
BY DEF Csr!hw_set_head, Registers

(* CTRL is no part of the ring.                                            *)
LEMMA WrittenCtrl ==
  ASSUME NEW r \in Registers, NEW bits
  PROVE  /\ Csr!Write(r, "CTRL", bits).TAIL = r.TAIL
         /\ Csr!Write(r, "CTRL", bits).HEAD = r.HEAD
         /\ Csr!Write(r, "CTRL", bits).RINGLEN = r.RINGLEN
         /\ Csr!Write(r, "CTRL", bits).BASEADDR = r.BASEADDR
BY DEF Csr!Write, Registers

(* A line has its fields.                                                  *)
LEMMA LineFields ==
  ASSUME NEW op \in LineOps, NEW addr \in LineAddrs, NEW data \in Nat
  PROVE  /\ Line(op, addr, data) \in Lines
         /\ Line(op, addr, data).op = op /\ Line(op, addr, data).addr = addr
BY DEF Line, Lines

(* Lines are only added.                                                   *)
LEMMA StimGrows ==
  ASSUME stim \in Seq(Lines), NEW new \in Seq(Lines), stim' = stim \o new
  PROVE  /\ stim' \in Seq(Lines)
         /\ Reconfigured => Reconfigured'
         /\ WroteTail => WroteTail'
<1>1. stim' \in Seq(Lines) /\ \A i \in DOMAIN stim : i \in DOMAIN stim' /\ stim'[i] = stim[i]
  OBVIOUS
<1>2. Reconfigured => Reconfigured'
  BY <1>1 DEF Reconfigured
<1>3. WroteTail => WroteTail'
  BY <1>1 DEF WroteTail
<1>4. QED
  BY <1>1, <1>2, <1>3

(* A register line behind a TAIL line is a reconfiguration.                *)
LEMMA StimAppends ==
  ASSUME stim \in Seq(Lines), NEW l \in Lines, stim' = Append(stim, l)
  PROVE  /\ stim' \in Seq(Lines)
         /\ Reconfigured => Reconfigured'
         /\ WroteTail => WroteTail'
         /\ WroteTail /\ WritesCsr(l, {"BASEADDR", "RINGLEN"}) => Reconfigured'
<1>1. /\ stim' \in Seq(Lines)
      /\ \A i \in DOMAIN stim : i \in DOMAIN stim' /\ stim'[i] = stim[i] /\ i < Len(stim) + 1
      /\ Len(stim) + 1 \in DOMAIN stim' /\ stim'[Len(stim) + 1] = l
  OBVIOUS
<1>2. Reconfigured => Reconfigured'
  BY <1>1 DEF Reconfigured
<1>3. WroteTail => WroteTail'
  BY <1>1 DEF WroteTail
<1>4. WroteTail /\ WritesCsr(l, {"BASEADDR", "RINGLEN"}) => Reconfigured'
  BY <1>1 DEF WroteTail, Reconfigured
<1>5. QED
  BY <1>1, <1>2, <1>3, <1>4
-----------------------------------------------------------------------------
(* A raised exception changes nothing the ring is made of.                 *)
LEMMA RaiseOrdered ==
  ASSUME GoldenInv, NEW where, Raise(where), where = "iterations" => pc = "loop" /\ iters = MAX_ITERS
  PROVE  RingInv'
<1>1. /\ UNCHANGED <<sysmem, sram, regs, stim, posted, descs_fetched, iters>>
      /\ pc' = "raised" /\ error' = where
  BY DEF Raise, memories, results, fetched
<1>2. Reconfigured' = Reconfigured /\ WroteTail' = WroteTail
  BY <1>1 DEF Reconfigured, WroteTail
<1>3. ASSUME ~Reconfigured PROVE Ordered'
  <2>1. Ordered /\ Count \in Nat
    BY <1>3 DEF GoldenInv, RingInv, Count
  <2>2. pc \in {"setup", "loop", "fetch", "move", "done", "raised"} /\ regs.HEAD \in Nat
    BY DEF GoldenInv, DrainInv, InPlace, Stored, Registers
  <2>3. regs.HEAD <= Count
    BY <2>1, <2>2 DEF Ordered
  <2>4. where = "iterations" => Count = MAX_ITERS
    BY <2>1 DEF Ordered
  <2>5. Count' = Count /\ \A k \in 1 .. Len(posted) : SlotOf(k)' = SlotOf(k)
    BY <1>1 DEF Count, SlotOf
  <2>6. QED
    BY <1>1, <2>1, <2>3, <2>4, <2>5 DEF Ordered, SlotOf
<1>4. QED
  BY <1>1, <1>2, <1>3 DEF GoldenInv, RingInv

(* A row that writes no register of the ring.                              *)
LEMMA RowKeeps ==
  ASSUME GoldenInv, pc = "setup", UNCHANGED <<posted, descs_fetched, iters, pc, error>>,
         regs'.TAIL = regs.TAIL, regs'.HEAD = regs.HEAD,
         regs'.RINGLEN = regs.RINGLEN, regs'.BASEADDR = regs.BASEADDR,
         stim' \in Seq(Lines), Reconfigured => Reconfigured', WroteTail => WroteTail'
  PROVE  RingInv'
<1>1. ASSUME ~Reconfigured' PROVE Ordered'
  <2>1. Ordered
    BY <1>1 DEF GoldenInv, RingInv
  <2>2. Count' = Count /\ \A k \in 1 .. Len(posted) : SlotOf(k)' = SlotOf(k)
    BY DEF Count, SlotOf
  <2>3. QED
    BY <2>1, <2>2 DEF Ordered, SlotOf
<1>2. QED
  BY <1>1 DEF GoldenInv, RingInv

(* RINGLEN or BASEADDR, in front of the descriptors or behind some.        *)
LEMMA RowReconfigures ==
  ASSUME GoldenInv, NEW op \in {"csr_baseaddr", "csr_ringlen"},
         NEW register \in {"BASEADDR", "RINGLEN"}, RowCsr(op, register)
  PROVE  RingInv'
<1> DEFINE l == Line("csr_write", register, Head(rows).data)
<1>1. pc = "setup" /\ Head(rows).data \in Nat
  BY NextRow, ScenarioAssumption DEF GoldenInv, DrainInv, RowCsr, Row
<1>2. stim' = Append(stim, l) /\ UNCHANGED <<posted, descs_fetched, iters, pc, error>>
  BY DEF RowCsr, fetched
<1>3. l \in Lines /\ WritesCsr(l, {"BASEADDR", "RINGLEN"})
  <2>1. "csr_write" \in LineOps /\ register \in LineAddrs
    BY DEF LineOps, LineAddrs
  <2>2. QED
    BY <1>1, <2>1, LineFields DEF WritesCsr
<1>4. regs'.TAIL = regs.TAIL /\ regs'.HEAD = regs.HEAD
  BY <1>1, Written DEF RowCsr, GoldenInv, DrainInv, Stored
<1> HIDE DEF l
<1>5. /\ stim' \in Seq(Lines)
      /\ Reconfigured => Reconfigured'
      /\ WroteTail => WroteTail' /\ Reconfigured'
  BY <1>2, <1>3, StimAppends DEF GoldenInv, RingInv
<1>6. ASSUME ~Reconfigured' PROVE Ordered'
  <2>1. Ordered /\ posted = <<>>
    BY <1>5, <1>6 DEF GoldenInv, RingInv
  <2>2. Count' = Count /\ posted' = <<>> /\ Len(posted') = 0
    BY <1>2, <2>1 DEF Count
  <2>3. QED
    BY <1>1, <1>2, <1>4, <2>1, <2>2 DEF Ordered
<1>7. QED
  BY <1>2, <1>4, <1>5, <1>6 DEF GoldenInv, RingInv

(* A descriptor row: TAIL moves on by one and does not wrap, because HEAD  *)
(* is 0 and the ring is not full.                                          *)
LEMMA RowPosts ==
  ASSUME GoldenInv, RowDesc
  PROVE  RingInv'
<1> DEFINE d == Head(rows).desc
           slot == SlotAddress(regs.TAIL)
           new == DescriptorLines(slot, d, regs'.TAIL)
<1>1. pc = "setup" /\ d \in Descriptors /\ regs \in Registers
  BY NextRow, ScenarioAssumption DEF GoldenInv, DrainInv, Stored, RowDesc, Row, Descriptors
<1>2. CASE EnqueueFails(slot)
  <2>1. Raise("ring")
    BY <1>2 DEF RowDesc
  <2>2. QED
    BY <2>1, RaiseOrdered
<1>3. CASE ~EnqueueFails(slot)
  <2>1. /\ regs' = Csr!Write(regs, "TAIL", (regs.TAIL + 1) % regs.RINGLEN)
        /\ stim' = stim \o new
        /\ posted' = Append(posted, [desc |-> d, slot |-> slot \div 4])
        /\ UNCHANGED <<descs_fetched, iters, pc, error>>
    BY <1>3 DEF RowDesc, Enqueue, fetched
  <2>2. /\ regs.RINGLEN \in Nat /\ regs.RINGLEN > 0 /\ regs.BASEADDR \in Nat
        /\ regs.TAIL \in Nat /\ regs.HEAD \in Nat /\ ~Full
        /\ ~(slot \div 4 + DESC_WORDS > SMEM_WORDS)
    BY <1>1, <1>3 DEF EnqueueFails, Registers
  <2>3. slot \in Nat /\ slot \div 4 \in Nat /\ (regs.TAIL + 1) % regs.RINGLEN \in Nat
    <3>1. slot \in Nat /\ (regs.TAIL + 1) % regs.RINGLEN \in Nat
      BY <2>2 DEF SlotAddress, DESCRIPTOR_SIZE_BYTES
    <3> HIDE DEF slot
    <3>2. QED
      BY <3>1, WordIndex
  <2>4. /\ regs'.TAIL = (regs.TAIL + 1) % regs.RINGLEN /\ regs'.HEAD = regs.HEAD
        /\ regs'.RINGLEN = regs.RINGLEN /\ regs'.BASEADDR = regs.BASEADDR
    BY <1>1, <2>1, <2>3, Written
  <2>5. new \in Seq(Lines) /\ \E i \in DOMAIN new : WritesCsr(new[i], {"TAIL"})
    <3> DEFINE words == [i \in 1 .. DESC_WORDS |-> Line("sysmem_write", slot + 4 * (i - 1), d[i])]
               last == Line("csr_write", "TAIL", regs'.TAIL)
    <3>1. words \in Seq(Lines) /\ Len(words) = 4
      <4>1. \A i \in 1 .. 4 : Line("sysmem_write", slot + 4 * (i - 1), d[i]) \in Lines
        <5> HIDE DEF slot, d
        <5>1. "sysmem_write" \in LineOps /\ \A i \in 1 .. 4 : slot + 4 * (i - 1) \in LineAddrs
          BY <2>3 DEF LineOps, LineAddrs
        <5>2. \A i \in 1 .. 4 : d[i] \in Nat
          BY <1>1 DEF Descriptors, DESC_WORDS
        <5>3. QED
          BY <5>1, <5>2, LineFields
      <4>2. QED
        BY <4>1 DEF DESC_WORDS
    <3>2. last \in Lines /\ WritesCsr(last, {"TAIL"})
      <4>1. "csr_write" \in LineOps /\ "TAIL" \in LineAddrs
        BY DEF LineOps, LineAddrs
      <4>2. QED
        BY <2>3, <2>4, <4>1, LineFields DEF WritesCsr
    <3>3. new = words \o <<last>>
      BY DEF DescriptorLines
    <3> HIDE DEF words, last, new
    <3>4. new \in Seq(Lines) /\ 5 \in DOMAIN new /\ new[5] = last
      <4>1. <<last>> \in Seq(Lines) /\ Len(<<last>>) = 1 /\ <<last>>[1] = last
        BY <3>2
      <4> DEFINE end == <<last>>
      <4> HIDE DEF end
      <4>2. end \in Seq(Lines) /\ Len(end) = 1 /\ end[1] = last /\ new = words \o end
        BY <3>3, <4>1 DEF end
      <4>3. /\ new \in Seq(Lines) /\ Len(new) = Len(words) + Len(end)
            /\ \A i \in 1 .. Len(words) + Len(end) :
                 new[i] = IF i <= Len(words) THEN words[i] ELSE end[i - Len(words)]
        BY <3>1, <4>2, ConcatProperties
      <4>4. Len(new) = 5 /\ 5 \in 1 .. Len(words) + Len(end) /\ ~(5 <= Len(words)) /\ 5 - Len(words) = 1
        BY <3>1, <4>2, <4>3
      <4>5. QED
        BY <4>2, <4>3, <4>4
    <3>5. QED
      BY <3>2, <3>4
  <2> HIDE DEF new, d
  <2>6. /\ stim' \in Seq(Lines) /\ (Reconfigured => Reconfigured') /\ WroteTail'
    <3>1. stim \in Seq(Lines)
      BY DEF GoldenInv, RingInv
    <3>2. stim' \in Seq(Lines) /\ (Reconfigured => Reconfigured')
      BY <2>1, <2>5, <3>1, StimGrows
    <3>3. PICK i \in DOMAIN new : WritesCsr(new[i], {"TAIL"})
      BY <2>5
    <3>4. Len(stim) + i \in DOMAIN stim' /\ stim'[Len(stim) + i] = new[i]
      BY <2>1, <2>5, <3>1, <3>3
    <3>5. QED
      BY <3>2, <3>3, <3>4 DEF WroteTail
  <2>7. /\ posted \in Seq(Posts) /\ posted' \in Seq(Posts) /\ Len(posted') = Len(posted) + 1
        /\ \A k \in 1 .. Len(posted) : posted'[k] = posted[k]
        /\ posted'[Len(posted) + 1].slot = slot \div 4
    <3> DEFINE p == [desc |-> d, slot |-> slot \div 4]
    <3>1. p \in Posts /\ posted \in Seq(Posts) /\ p.slot = slot \div 4
      <4>1. slot \div 4 + DESC_WORDS <= SMEM_WORDS
        <5>1. DESC_WORDS \in Nat /\ SMEM_WORDS \in Nat
          BY GoldenAssumption DEF DESC_WORDS
        <5> HIDE DEF slot
        <5>2. QED
          BY <2>2, <2>3, <5>1
      <4>2. QED
        BY <1>1, <2>3, <4>1 DEF Posts, GoldenInv, RingInv
    <3> HIDE DEF p, slot
    <3>2. posted' = Append(posted, p)
      BY <2>1 DEF p
    <3>3. QED
      BY <3>1, <3>2
  <2>8. posted' # <<>>
    BY <2>7
  <2>9. ASSUME ~Reconfigured' PROVE Ordered'
    <3>1. Ordered /\ Len(posted) \in Nat /\ Count \in Nat
      BY <2>6, <2>9, <2>7 DEF GoldenInv, RingInv, Count
    <3>2. Count = 0 /\ regs.HEAD = 0 /\ iters = 0 /\ regs.TAIL = Len(posted)
      BY <1>1, <3>1 DEF Ordered
    <3>3. regs.TAIL < regs.RINGLEN
      <4>1. CASE posted = <<>>
        BY <2>2, <3>2, <4>1
      <4>2. CASE posted # <<>>
        BY <3>1, <3>2, <4>2 DEF Ordered
      <4>3. QED
        BY <4>1, <4>2
    <3>4. regs.TAIL % regs.RINGLEN = regs.TAIL /\ 0 % regs.RINGLEN = 0
      BY <2>2, <3>3, ModSmall
    <3>5. regs.TAIL + 1 < regs.RINGLEN
      <4>1. (regs.TAIL + 1) % regs.RINGLEN # 0
        BY <2>2, <3>2, <3>4 DEF Full
      <4>2. regs.TAIL + 1 # regs.RINGLEN
        BY <2>2, <4>1, ModSelf
      <4>3. QED
        BY <2>2, <3>3, <4>2
    <3>6. regs'.TAIL = regs.TAIL + 1
      BY <2>2, <2>4, <3>5, ModSmall
    <3>7. slot \div 4 = SlotOf(Len(posted) + 1)
      BY <3>1, <3>2, <3>4 DEF SlotAddress, SlotOf
    <3>8. \A k \in 1 .. Len(posted') : posted'[k].slot = SlotOf(k)'
      <4>1. \A k : SlotOf(k)' = SlotOf(k)
        BY <2>4 DEF SlotOf
      <4>2. \A k \in 1 .. Len(posted) : posted[k].slot = SlotOf(k)
        BY <3>1 DEF Ordered
      <4> HIDE DEF slot
      <4>3. QED
        BY <2>7, <3>1, <3>7, <4>1, <4>2
    <3>9. Count' = 0
      BY <2>1, <3>2 DEF Count
    <3>10. /\ regs'.TAIL = Len(posted') /\ Count' <= Len(posted')
           /\ Len(posted') < regs'.RINGLEN
      BY <2>2, <2>4, <2>7, <3>1, <3>2, <3>5, <3>6, <3>9
    <3>11. pc' = "setup" /\ regs'.HEAD = 0 /\ iters' = 0 /\ error' = error
      BY <1>1, <2>1, <2>4, <3>2
    <3>12. error' # "iterations"
      BY <1>1, <3>11 DEF GoldenInv, RingInv
    <3>13. QED
      BY <3>8, <3>9, <3>10, <3>11, <3>12 DEF Ordered
  <2>10. QED
    BY <2>1, <2>6, <2>7, <2>8, <2>9 DEF GoldenInv, RingInv
<1>4. QED
  BY <1>2, <1>3

(* Every row keeps the ring in order.                                      *)
LEMMA RingSetup ==
  ASSUME GoldenInv, Setup
  PROVE  RingInv'
<1>0. DrainInv /\ Stored /\ regs \in Registers /\ stim \in Seq(Lines) /\ pc = "setup"
  BY DEF GoldenInv, DrainInv, Stored, RingInv, Setup, RowSmem, RowSram, RowCsr, RowDesc, RowEnable,
         RowUnknown, EndOfRows, Row
<1>1. ASSUME NEW op \in {"sysmem_write", "sram_write"},
             stim' = Append(stim, Line(op, 4 * Head(rows).index, Head(rows).data)),
             Head(rows).index \in Nat, Head(rows).data \in Nat,
             UNCHANGED <<regs, fetched, posted, iters, pc, error>>
      PROVE  RingInv'
  <2>1. Line(op, 4 * Head(rows).index, Head(rows).data) \in Lines
    <3>1. op \in LineOps /\ 4 * Head(rows).index \in LineAddrs
      BY <1>1 DEF LineOps, LineAddrs
    <3>2. QED
      BY <1>1, <3>1, LineFields
  <2>2. stim' \in Seq(Lines) /\ (Reconfigured => Reconfigured') /\ (WroteTail => WroteTail')
    BY <1>0, <1>1, <2>1, StimAppends
  <2>3. QED
    BY <1>0, <1>1, <2>2, RowKeeps DEF fetched
<1>2. CASE RowSmem
  <2>1. Head(rows).index \in Nat /\ Head(rows).data \in Nat
    BY <1>0, <1>2, NextRow, ScenarioAssumption DEF RowSmem, Row
  <2>2. CASE Head(rows).index >= SMEM_WORDS
    <3>1. Raise("row")
      BY <1>2, <2>2 DEF RowSmem
    <3>2. QED
      BY <3>1, RaiseOrdered
  <2>3. CASE ~(Head(rows).index >= SMEM_WORDS)
    BY <1>1, <1>2, <2>1, <2>3 DEF RowSmem
  <2>4. QED
    BY <2>2, <2>3
<1>3. CASE RowSram
  <2>1. Head(rows).index \in Nat /\ Head(rows).data \in Nat
    BY <1>0, <1>3, NextRow, ScenarioAssumption DEF RowSram, Row
  <2>2. CASE Head(rows).index >= BRAM_SIZE
    <3>1. Raise("row")
      BY <1>3, <2>2 DEF RowSram
    <3>2. QED
      BY <3>1, RaiseOrdered
  <2>3. CASE ~(Head(rows).index >= BRAM_SIZE)
    BY <1>1, <1>3, <2>1, <2>3 DEF RowSram
  <2>4. QED
    BY <2>2, <2>3
<1>4. CASE RowEnable
  <2>1. /\ regs'.TAIL = regs.TAIL /\ regs'.HEAD = regs.HEAD
        /\ regs'.RINGLEN = regs.RINGLEN /\ regs'.BASEADDR = regs.BASEADDR
    BY <1>0, <1>4, WrittenCtrl DEF RowEnable
  <2>2. UNCHANGED <<stim, posted, descs_fetched, iters, pc, error>>
    BY <1>4 DEF RowEnable, results, fetched
  <2>3. Reconfigured' = Reconfigured /\ WroteTail' = WroteTail
    BY <2>2 DEF Reconfigured, WroteTail
  <2>4. QED
    BY <1>0, <2>1, <2>2, <2>3, RowKeeps
<1>5. CASE RowUnknown
  <2>1. Raise("row")
    BY <1>5 DEF RowUnknown
  <2>2. QED
    BY <2>1, RaiseOrdered
<1>6. CASE EndOfRows
  <2>1. /\ UNCHANGED <<regs, stim, posted, descs_fetched, iters, error>>
        /\ pc' \in {"loop", "done"} /\ (pc' = "done" => ~Csr!is_enabled(regs))
    BY <1>6 DEF EndOfRows, memories
  <2>2. Reconfigured' = Reconfigured /\ WroteTail' = WroteTail
    BY <2>1 DEF Reconfigured, WroteTail
  <2>3. ASSUME ~Reconfigured PROVE Ordered'
    <3>1. Ordered
      BY <2>3 DEF GoldenInv, RingInv
    <3>2. Count' = Count /\ \A k \in 1 .. Len(posted) : SlotOf(k)' = SlotOf(k)
      BY <2>1 DEF Count, SlotOf
    <3>3. pc' = "done" => ~Csr!is_enabled(regs')
      BY <2>1 DEF Csr!is_enabled
    <3>4. QED
      BY <1>0, <2>1, <3>1, <3>2, <3>3 DEF Ordered, SlotOf
  <2>4. QED
    BY <1>0, <2>1, <2>2, <2>3 DEF GoldenInv, RingInv
<1>7. QED
  BY <1>2, <1>3, <1>4, <1>5, <1>6, RowReconfigures, RowPosts DEF Setup

(* A step of the loop leaves the rows' part of the ring alone.             *)
LEMMA LoopKeeps ==
  ASSUME GoldenInv, UNCHANGED <<stim, posted>>,
         regs'.TAIL = regs.TAIL, pc' # "raised" => error' = "none",
         descs_fetched' \in Seq(Descriptors), iters' \in Nat, iters' <= MAX_ITERS,
         ~Reconfigured => Ordered'
  PROVE  RingInv'
<1>1. Reconfigured' = Reconfigured /\ WroteTail' = WroteTail
  BY DEF Reconfigured, WroteTail
<1>2. QED
  BY <1>1 DEF GoldenInv, RingInv

(* The loop goes on while HEAD has not reached TAIL.                       *)
LEMMA RingIterates ==
  ASSUME GoldenInv, Iterate
  PROVE  RingInv'
<1>0. pc = "loop" /\ iters \in Nat /\ iters <= MAX_ITERS /\ MAX_ITERS \in Nat /\ error = "none"
      /\ descs_fetched \in Seq(Descriptors)
  BY GoldenAssumption DEF GoldenInv, RingInv, Iterate
<1>1. CASE iters = MAX_ITERS
  <2>1. Raise("iterations")
    BY <1>1 DEF Iterate
  <2>2. QED
    BY <1>0, <1>1, <2>1, RaiseOrdered
<1>2. CASE iters # MAX_ITERS /\ regs.HEAD = regs.TAIL
  <2>1. pc' = "done" /\ UNCHANGED <<regs, stim, posted, descs_fetched, iters, error>>
    BY <1>2 DEF Iterate, memories, results, fetched
  <2>2. ASSUME ~Reconfigured PROVE Ordered'
    <3>1. Ordered
      BY <2>2 DEF GoldenInv, RingInv
    <3>2. Count' = Count /\ \A k \in 1 .. Len(posted) : SlotOf(k)' = SlotOf(k)
      BY <2>1 DEF Count, SlotOf
    <3>3. QED
      BY <1>0, <1>2, <2>1, <3>1, <3>2 DEF Ordered, SlotOf
  <2>3. QED
    BY <1>0, <2>1, <2>2, LoopKeeps
<1>3. CASE iters # MAX_ITERS /\ regs.HEAD # regs.TAIL /\ (regs.RINGLEN = 0 \/ Overflows(df_in, FIFO_DEPTH))
  <2>1. Raise("ring") \/ Raise("fifo")
    BY <1>3 DEF Iterate
  <2>2. QED
    BY <2>1, RaiseOrdered
<1>4. CASE iters # MAX_ITERS /\ regs.HEAD # regs.TAIL /\ regs.RINGLEN # 0 /\ ~Overflows(df_in, FIFO_DEPTH)
  <2>1. pc' = "fetch" /\ iters' = iters + 1 /\ UNCHANGED <<regs, stim, posted, descs_fetched, error>>
    BY <1>4 DEF Iterate, memories, results, fetched
  <2>2. ASSUME ~Reconfigured PROVE Ordered'
    <3>1. Ordered /\ Count \in Nat /\ Len(posted) \in Nat
      BY <2>2 DEF GoldenInv, RingInv, Count
    <3>2. Count' = Count /\ \A k \in 1 .. Len(posted) : SlotOf(k)' = SlotOf(k)
      BY <2>1 DEF Count, SlotOf
    <3>3. Count < Len(posted) /\ regs.HEAD = Count /\ iters = Count
      BY <1>0, <1>4, <3>1 DEF Ordered
    <3>4. QED
      BY <1>0, <2>1, <3>1, <3>2, <3>3 DEF Ordered, SlotOf
  <2>3. QED
    BY <1>0, <1>4, <2>1, <2>2, LoopKeeps
<1>5. QED
  BY <1>1, <1>2, <1>3, <1>4

(* Steps that do not touch the ring, and keep the place of the loop.       *)
LEMMA RingStands ==
  ASSUME GoldenInv, UNCHANGED <<regs, stim, posted, descs_fetched, iters, pc, error>>
  PROVE  RingInv'
<1>1. ASSUME ~Reconfigured PROVE Ordered'
  <2>1. Ordered
    BY <1>1 DEF GoldenInv, RingInv
  <2>2. Count' = Count /\ \A k \in 1 .. Len(posted) : SlotOf(k)' = SlotOf(k)
    BY DEF Count, SlotOf
  <2>3. QED
    BY <2>1, <2>2 DEF Ordered, SlotOf
<1>2. QED
  BY <1>1, LoopKeeps DEF GoldenInv, RingInv

(* A decoded descriptor counts as fetched.                                 *)
LEMMA RingDecodes ==
  ASSUME GoldenInv, Decode
  PROVE  RingInv'
<1>0. pc = "fetch" /\ df_out # <<>>
  BY DEF Decode
<1>1. PICK d \in Descriptors : df_out = <<d>>
  BY <1>0 DEF GoldenInv, DrainInv, InPlace, Fetching
<1>2. CASE Overflows(dm_axi, DM_DEPTH) \/ Overflows(dm_sram, DM_DEPTH)
  <2>1. Raise("fifo")
    BY <1>2 DEF Decode
  <2>2. QED
    BY <2>1, RaiseOrdered
<1>3. CASE ~(Overflows(dm_axi, DM_DEPTH) \/ Overflows(dm_sram, DM_DEPTH))
  <2>1. /\ descs_fetched' = Append(descs_fetched, d) /\ pc' = "move"
        /\ UNCHANGED <<regs, stim, posted, iters, error>>
    BY <1>1, <1>3 DEF Decode, memories
  <2>2. descs_fetched' \in Seq(Descriptors) /\ Count \in Nat /\ Count' = Count + 1
    BY <2>1 DEF GoldenInv, RingInv, Count
  <2>3. ASSUME ~Reconfigured PROVE Ordered'
    <3>1. Ordered /\ Len(posted) \in Nat
      BY <2>3 DEF GoldenInv, RingInv
    <3>2. \A k \in 1 .. Len(posted) : SlotOf(k)' = SlotOf(k)
      BY <2>1 DEF SlotOf
    <3>3. regs.HEAD = Count /\ iters = Count + 1 /\ Count < Len(posted) /\ error = "none"
      BY <1>0, <3>1 DEF Ordered, GoldenInv, RingInv
    <3>4. QED
      BY <2>1, <2>2, <3>1, <3>2, <3>3 DEF Ordered, SlotOf
  <2>4. QED
    BY <1>0, <2>1, <2>2, <2>3, LoopKeeps DEF GoldenInv, RingInv
<1>4. QED
  BY <1>2, <1>3

(* HEAD moves on by one and does not wrap: TAIL is in front of it.         *)
LEMMA RingCompletes ==
  ASSUME GoldenInv, Complete
  PROVE  RingInv'
<1>0. pc = "move" /\ regs \in Registers /\ regs.RINGLEN \in Nat /\ regs.RINGLEN > 0 /\ regs.HEAD \in Nat
  BY DEF Complete, GoldenInv, DrainInv, Stored, InPlace, Registers
<1>1. CASE regs.HEAD = regs.TAIL
  <2>1. Raise("ring")
    BY <1>1 DEF Complete
  <2>2. QED
    BY <2>1, RaiseOrdered
<1>2. CASE regs.HEAD # regs.TAIL
  <2>1. /\ regs' = Csr!hw_set_head(regs, NextHead) /\ pc' = "loop"
        /\ UNCHANGED <<stim, posted, descs_fetched, iters, error>>
    BY <1>2 DEF Complete
  <2>2. NextHead \in Nat
    BY <1>0 DEF NextHead
  <2>3. /\ regs'.HEAD = NextHead /\ regs'.TAIL = regs.TAIL
        /\ regs'.RINGLEN = regs.RINGLEN /\ regs'.BASEADDR = regs.BASEADDR
    BY <1>0, <2>1, <2>2, WrittenHead
  <2>4. ASSUME ~Reconfigured PROVE Ordered'
    <3>1. Ordered /\ Len(posted) \in Nat /\ Count \in Nat
      BY <2>4 DEF GoldenInv, RingInv, Count
    <3>2. regs.HEAD + 1 = Count /\ iters = Count /\ Count <= Len(posted) /\ error = "none"
      BY <1>0, <3>1 DEF Ordered, GoldenInv, RingInv
    <3>3. posted # <<>>
      BY <1>0, <3>1, <3>2
    <3>4. regs.HEAD + 1 < regs.RINGLEN
      BY <1>0, <3>1, <3>2, <3>3 DEF Ordered
    <3>5. regs.HEAD % regs.RINGLEN = regs.HEAD /\ (regs.HEAD + 1) % regs.RINGLEN = regs.HEAD + 1
      BY <1>0, <3>4, ModSmall
    <3>6. regs'.HEAD = Count
      BY <2>3, <3>2, <3>5 DEF NextHead
    <3>7. Count' = Count /\ \A k \in 1 .. Len(posted) : SlotOf(k)' = SlotOf(k)
      BY <2>1, <2>3 DEF Count, SlotOf
    <3>8. QED
      BY <2>1, <2>3, <3>1, <3>2, <3>6, <3>7 DEF Ordered, SlotOf
  <2>5. QED
    BY <1>0, <2>1, <2>3, <2>4, LoopKeeps DEF GoldenInv, RingInv
<1>3. QED
  BY <1>1, <1>2

(* A move raises or keeps everything but memories and queues.              *)
LEMMA MoveKeeps ==
  ASSUME GoldenInv, AxiMove \/ SramMove
  PROVE  \/ \E where \in {"axi", "sram"} : Raise(where)
         \/ UNCHANGED <<regs, stim, posted, descs_fetched, iters, pc, error>>
BY DEF AxiMove, SramMove, results, fetched

(* Every step keeps the ring in order.                                     *)
LEMMA RingStep == GoldenInv /\ [Next]_goldenVars => GoldenInv'
<1> SUFFICES ASSUME GoldenInv, [Next]_goldenVars PROVE GoldenInv'
  OBVIOUS
<1>1. DrainInv'
  BY DrainStep DEF GoldenInv
<1>2. CASE DescriptorFetch
  <2>1. Raise("axi") \/ UNCHANGED <<regs, stim, posted, descs_fetched, iters, pc, error>>
    BY <1>2 DEF DescriptorFetch, memories, results, fetched
  <2>2. QED
    BY <1>1, <2>1, RaiseOrdered, RingStands DEF GoldenInv
<1>3. CASE AxiMove \/ SramMove
  BY <1>1, <1>3, MoveKeeps, RaiseOrdered, RingStands DEF GoldenInv
<1>4. CASE UNCHANGED goldenVars
  <2>1. UNCHANGED <<regs, stim, posted, descs_fetched, iters, pc, error>>
    BY <1>4 DEF goldenVars, memories, results, fetched
  <2>2. QED
    BY <1>1, <2>1, RingStands DEF GoldenInv
<1>5. QED
  BY <1>1, <1>2, <1>3, <1>4, RingSetup, RingIterates, RingDecodes, RingCompletes
     DEF GoldenInv, Next, EventLoop, Finished

(* The ring starts empty.                                                  *)
LEMMA RingInit == Init => GoldenInv
<1> SUFFICES ASSUME Init PROVE GoldenInv
  OBVIOUS
<1>1. DrainInv
  BY DrainInit
<1>2. /\ stim = <<>> /\ posted = <<>> /\ descs_fetched = <<>> /\ iters = 0
      /\ pc = "setup" /\ error = "none" /\ regs.TAIL = 0 /\ regs.HEAD = 0
  BY DEF Init, Csr!PowerUp
<1>3. /\ stim \in Seq(Lines) /\ posted \in Seq(Posts) /\ descs_fetched \in Seq(Descriptors)
      /\ Len(posted) = 0 /\ Count = 0
  BY <1>2 DEF Count
<1>4. Ordered
  BY <1>2, <1>3 DEF Ordered
<1>5. QED
  BY <1>1, <1>2, <1>3, <1>4, GoldenAssumption DEF GoldenInv, RingInv
-----------------------------------------------------------------------------
(* No queue ever holds more than its depth.                                *)
QueueSizes ==
  /\ Len(df_in) <= FIFO_DEPTH /\ Len(df_out) <= FIFO_DEPTH
  /\ Len(dm_axi) <= DM_DEPTH /\ Len(dm_sram) <= DM_DEPTH /\ Len(mid) <= MID_DEPTH

(* Where the loop is at work, the queues of handles, descriptors and       *)
(* instructions hold one entry or none.                                    *)
OneAtATime ==
  DrainInv /\ pc \notin {"done", "raised"} =>
    /\ Len(df_in) <= FIFO_DEPTH /\ Len(df_out) <= FIFO_DEPTH
    /\ Len(dm_axi) <= DM_DEPTH /\ Len(dm_sram) <= DM_DEPTH

(* Length of such a queue.                                                 *)
LEMMA NoneOrOne ==
  ASSUME NEW q, NEW x, q = <<>> \/ q = <<x>>
  PROVE  Len(q) \in 0 .. 1
<1>1. CASE q = <<>>
  BY <1>1
<1>2. CASE q = <<x>>
  BY <1>2
<1>3. QED
  BY <1>1, <1>2

(* It holds of every state of the invariant ...                            *)
LEMMA OneNow == OneAtATime
<1> SUFFICES ASSUME DrainInv, pc \notin {"done", "raised"}
             PROVE  /\ Len(df_in) <= FIFO_DEPTH /\ Len(df_out) <= FIFO_DEPTH
                    /\ Len(dm_axi) <= DM_DEPTH /\ Len(dm_sram) <= DM_DEPTH
  BY DEF OneAtATime
<1>1. /\ FIFO_DEPTH \in Nat /\ DM_DEPTH \in Nat /\ FIFO_DEPTH >= 1 /\ DM_DEPTH >= 1
  BY GoldenAssumption
<1>2. FetchIdle \/ Fetching
  BY DEF DrainInv, InPlace
<1>3. MoveIdle \/ BothWait \/ OneWaits
  BY DEF DrainInv, InPlace, Moving
<1>4. Len(df_in) \in 0 .. 1 /\ Len(df_out) \in 0 .. 1
  <2>1. df_in = <<>> \/ \E h \in Handles : df_in = <<h>>
    BY <1>2 DEF FetchIdle, Fetching
  <2>2. df_out = <<>> \/ \E d \in Descriptors : df_out = <<d>>
    BY <1>2 DEF FetchIdle, Fetching
  <2>3. QED
    BY <2>1, <2>2, NoneOrOne
<1>5. Len(dm_axi) \in 0 .. 1 /\ Len(dm_sram) \in 0 .. 1
  <2>1. dm_axi = <<>> \/ dm_axi = <<AxiInstruction(desc)>>
    BY <1>3 DEF MoveIdle, BothWait, OneWaits
  <2>2. dm_sram = <<>> \/ dm_sram = <<SramInstruction(desc)>>
    BY <1>3 DEF MoveIdle, BothWait, OneWaits
  <2>3. QED
    BY <2>1, <2>2, NoneOrOne
<1>6. \A n \in 0 .. 1 : n <= FIFO_DEPTH /\ n <= DM_DEPTH
  BY <1>1
<1>7. QED
  BY <1>4, <1>5, <1>6, Zenon

(* ... and of the next.                                                    *)
LEMMA OneNext == OneAtATime'
BY OneNow, PTL

(* Where the model stops, it stops with the queues as they were.           *)
LEMMA StopsAsIs ==
  ASSUME DrainInv, Next, pc' \in {"done", "raised"}
  PROVE  UNCHANGED queues
<1>1. CASE Setup
  BY <1>1 DEF Setup, RowSmem, RowSram, RowCsr, RowDesc, RowEnable, RowUnknown, EndOfRows, Raise
<1>2. CASE Iterate
  BY <1>2 DEF Iterate, Raise
<1>3. CASE DescriptorFetch
  BY <1>3 DEF DescriptorFetch, Raise
<1>4. CASE Decode
  BY <1>4 DEF Decode, Raise
<1>5. CASE AxiMove
  BY <1>5 DEF AxiMove, Raise
<1>6. CASE SramMove
  BY <1>6 DEF SramMove, Raise
<1>7. CASE Complete
  BY <1>7 DEF Complete, Raise
<1>8. CASE Finished
  BY <1>8 DEF Finished, goldenVars
<1>9. QED
  BY <1>1, <1>2, <1>3, <1>4, <1>5, <1>6, <1>7, <1>8 DEF Next, EventLoop

(* Only the two halves of a move touch the mid FIFO, and they fill it to   *)
(* its depth at most.                                                      *)
LEMMA MidFits ==
  ASSUME DrainInv, Next, Len(mid) <= MID_DEPTH
  PROVE  Len(mid') <= MID_DEPTH
<1>0. MID_DEPTH \in Nat
  BY GoldenAssumption
<1>1. CASE AxiMove
  <2>1. (\E where : Raise(where)) \/ AxiReads \/ AxiWrites
    BY <1>1, AxiEdge
  <2>2. mid' = mid \/ mid' = <<>> \/ (Len(mid') = Beats(desc) /\ Beats(desc) <= MID_DEPTH)
    BY <2>1 DEF Raise, queues, AxiReads, AxiWrites
  <2>3. QED
    BY <1>0, <2>2
<1>2. CASE SramMove
  <2>1. (\E where : Raise(where)) \/ SramReads \/ SramWrites
    BY <1>2, SramEdge
  <2>2. mid' = mid \/ mid' = <<>> \/ (Len(mid') = Beats(desc) /\ Beats(desc) <= MID_DEPTH)
    BY <2>1 DEF Raise, queues, SramReads, SramWrites
  <2>3. QED
    BY <1>0, <2>2
<1>3. CASE Setup
  <2>1. mid' = mid
    BY <1>3 DEF Setup, RowSmem, RowSram, RowCsr, RowDesc, RowEnable, RowUnknown, EndOfRows, Raise, queues
  <2>2. QED
    BY <2>1
<1>4. CASE Iterate \/ DescriptorFetch \/ Decode \/ Complete
  <2>1. mid' = mid
    BY <1>4 DEF Iterate, DescriptorFetch, Decode, Complete, Raise, queues
  <2>2. QED
    BY <2>1
<1>5. CASE Finished
  <2>1. mid' = mid
    BY <1>5 DEF Finished, goldenVars, queues
  <2>2. QED
    BY <2>1
<1>6. QED
  BY <1>1, <1>2, <1>3, <1>4, <1>5 DEF Next, EventLoop

(* Every step keeps the queues within their depths.                        *)
LEMMA SizesStep == DrainInv /\ QueueSizes /\ [Next]_goldenVars => QueueSizes'
<1> SUFFICES ASSUME DrainInv, QueueSizes, [Next]_goldenVars PROVE QueueSizes'
  OBVIOUS
<1>1. CASE UNCHANGED goldenVars
  BY <1>1 DEF goldenVars, queues, QueueSizes
<1>2. CASE Next
  <2>1. CASE pc' \in {"done", "raised"}
    <3>1. UNCHANGED queues
      BY <1>2, <2>1, StopsAsIs
    <3>2. QED
      BY <3>1 DEF queues, QueueSizes
  <2>2. CASE pc' \notin {"done", "raised"}
    <3>1. DrainInv'
      BY DrainStep
    <3>2. QED
      BY <1>2, <2>2, <3>1, OneNext, MidFits DEF OneAtATime, QueueSizes
  <2>3. QED
    BY <2>1, <2>2
<1>3. QED
  BY <1>1, <1>2

(* The registers, memories and queues of the software model keep the       *)
(* contents the code gives them, and HEAD and TAIL stay inside a ring that *)
(* is not reconfigured, for every scenario and all sizes.                  *)
THEOREM GoldenTypes == Spec => []TypeOK
<1>1. Init => QueueSizes
  <2> SUFFICES ASSUME Init PROVE QueueSizes
    OBVIOUS
  <2>1. FIFO_DEPTH \in Nat /\ DM_DEPTH \in Nat /\ MID_DEPTH \in Nat
    BY GoldenAssumption
  <2>2. Len(df_in) = 0 /\ Len(df_out) = 0 /\ Len(dm_axi) = 0 /\ Len(dm_sram) = 0 /\ Len(mid) = 0
    BY DEF Init
  <2>3. QED
    BY <2>1, <2>2 DEF QueueSizes
<1>2. GoldenInv /\ QueueSizes => TypeOK
  <2> SUFFICES ASSUME GoldenInv, QueueSizes PROVE TypeOK
    OBVIOUS
  <2>1. iters \in 0 .. MAX_ITERS
    BY GoldenAssumption DEF GoldenInv, RingInv
  <2>2. ASSUME ~Reconfigured, posted # <<>>
        PROVE  regs.HEAD < regs.RINGLEN /\ regs.TAIL < regs.RINGLEN
    <3>1. Ordered /\ Len(posted) \in Nat /\ Count \in Nat
      BY <2>2 DEF GoldenInv, RingInv, Count
    <3>2. regs.HEAD \in Nat /\ regs.RINGLEN \in Nat
          /\ pc \in {"setup", "loop", "fetch", "move", "done", "raised"}
      BY DEF GoldenInv, DrainInv, Stored, Registers, InPlace
    <3>3. regs.HEAD <= Count /\ Count <= Len(posted) /\ Len(posted) < regs.RINGLEN /\ regs.TAIL = Len(posted)
      BY <2>2, <3>1, <3>2 DEF Ordered
    <3>4. QED
      BY <3>1, <3>2, <3>3
  <2>3. QED
    BY <2>1, <2>2 DEF TypeOK, GoldenInv, DrainInv, Stored, QueueSizes
<1>3. GoldenInv /\ QueueSizes /\ [Next]_goldenVars => QueueSizes'
  BY SizesStep DEF GoldenInv
<1>4. QED
  BY <1>1, <1>2, <1>3, RingInit, RingStep, PTL DEF Spec
-----------------------------------------------------------------------------
(* The descriptors in the ring and those that left it: memory still holds  *)
(* every posted descriptor in its slot, the handle names the slot of HEAD, *)
(* and what was fetched is what was posted.                                *)
FetchInv ==
  RingUntouched /\ pc # "setup" =>
    /\ pc # "raised" =>
         \A k \in 1 .. Len(posted) : ReadWords(sysmem, posted[k].slot, DESC_WORDS) = posted[k].desc
    /\ \A k \in 1 .. Count : descs_fetched[k] = posted[k].desc
    /\ pc = "fetch" =>
         /\ df_in # <<>> => Head(df_in).addr = regs.BASEADDR + regs.HEAD * DESCRIPTOR_SIZE_BYTES
         /\ df_out # <<>> => Head(df_out) = posted[Count + 1].desc
    /\ pc = "move" => desc = posted[Count].desc

PostedInv == GoldenInv /\ FetchInv

(* The parts FetchInv gives in a loop over an untouched ring.              *)
LEMMA Untouched ==
  ASSUME PostedInv, RingUntouched, pc # "setup"
  PROVE  /\ Ordered /\ posted \in Seq(Posts) /\ Len(posted) \in Nat /\ Count \in Nat
         /\ pc # "raised" =>
              \A k \in 1 .. Len(posted) : ReadWords(sysmem, posted[k].slot, DESC_WORDS) = posted[k].desc
         /\ \A k \in 1 .. Count : descs_fetched[k] = posted[k].desc
<1>1. Ordered /\ posted \in Seq(Posts) /\ Len(posted) \in Nat /\ Count \in Nat
  BY DEF PostedInv, GoldenInv, RingInv, RingUntouched, Count
<1>2. QED
  BY <1>1 DEF PostedInv, FetchInv

(* The ring was untouched before a step of the loop as it is after it.     *)
LEMMA UntouchedKeeps ==
  ASSUME UNCHANGED <<stim, posted, initial>>
  PROVE  RingUntouched' = RingUntouched
<1>1. Reconfigured' = Reconfigured
  BY DEF Reconfigured
<1>2. QED
  BY <1>1 DEF RingUntouched, SlotWords

(* Steps of the loop that leave memory, ring and fetched descriptors alone. *)
LEMMA FetchKeeps ==
  ASSUME PostedInv, pc # "setup", pc' # "setup",
         pc = "raised" => pc' = "raised",
         UNCHANGED <<sysmem, stim, posted, initial, descs_fetched>>,
         RingUntouched =>
           /\ pc' = "fetch" =>
                /\ df_in' # <<>> => Head(df_in').addr = regs'.BASEADDR + regs'.HEAD * DESCRIPTOR_SIZE_BYTES
                /\ df_out' # <<>> => Head(df_out') = posted[Count + 1].desc
           /\ pc' = "move" => desc' = posted[Count].desc
  PROVE  FetchInv'
<1>1. Count' = Count /\ RingUntouched' = RingUntouched
  BY UntouchedKeeps DEF Count
<1>2. SUFFICES ASSUME RingUntouched PROVE FetchInv'
  BY <1>1 DEF FetchInv
<1>3. /\ pc # "raised" =>
           \A k \in 1 .. Len(posted) : ReadWords(sysmem, posted[k].slot, DESC_WORDS) = posted[k].desc
      /\ \A k \in 1 .. Count : descs_fetched[k] = posted[k].desc
  BY <1>2, Untouched
<1>4. QED
  BY <1>1, <1>2, <1>3 DEF FetchInv

(* An exception: nothing was posted or fetched by the step that raises it. *)
LEMMA FetchRaises ==
  ASSUME PostedInv, NEW where, Raise(where)
  PROVE  FetchInv'
<1>1. UNCHANGED <<sysmem, stim, posted, initial, descs_fetched>> /\ pc' = "raised"
  BY DEF Raise, memories, results, fetched
<1>2. CASE pc = "setup"
  <2>1. RingUntouched' = RingUntouched /\ Count' = Count
    BY <1>1, UntouchedKeeps DEF Count
  <2>2. RingUntouched => Count = 0
    BY <1>2 DEF PostedInv, GoldenInv, RingInv, Ordered, RingUntouched
  <2>3. QED
    BY <1>1, <2>1, <2>2 DEF FetchInv
<1>3. CASE pc # "setup"
  BY <1>1, <1>3, FetchKeeps
<1>4. QED
  BY <1>2, <1>3

(* The loop starts with the posted descriptors in memory.                  *)
LEMMA FetchSetup ==
  ASSUME PostedInv, Setup
  PROVE  FetchInv'
<1>0. pc = "setup"
  BY DEF Setup, RowSmem, RowSram, RowCsr, RowDesc, RowEnable, RowUnknown, EndOfRows, Row
<1>1. CASE EndOfRows
  <2>1. /\ initial' = [smem |-> sysmem, sram |-> sram] /\ pc' \in {"loop", "done"}
        /\ UNCHANGED <<sysmem, stim, posted, descs_fetched>>
    BY <1>1 DEF EndOfRows, Memories, memories
  <2>2. SUFFICES ASSUME RingUntouched' PROVE FetchInv'
    BY DEF FetchInv
  <2>3. ~Reconfigured
    BY <2>1, <2>2 DEF RingUntouched, Reconfigured
  <2>4. Count = 0 /\ Count' = Count
    BY <1>0, <2>1, <2>3 DEF PostedInv, GoldenInv, RingInv, Ordered, Count
  <2>5. DOMAIN posted = 1 .. Len(posted)
    BY DEF PostedInv, GoldenInv, RingInv
  <2>6. \A k \in 1 .. Len(posted) : ReadWords(sysmem, posted[k].slot, DESC_WORDS) = posted[k].desc
    <3>1. initial'.smem = sysmem
      BY <2>1
    <3>2. QED
      BY <2>1, <2>2, <2>5, <3>1 DEF RingUntouched
  <2>7. QED
    BY <2>1, <2>4, <2>6 DEF FetchInv
<1>2. CASE \E where : Raise(where)
  BY <1>2, FetchRaises
<1>3. CASE ~EndOfRows /\ ~\E where : Raise(where)
  <2>1. pc' = "setup"
    BY <1>0, <1>3 DEF Setup, RowSmem, RowSram, RowCsr, RowDesc, RowEnable, RowUnknown
  <2>2. QED
    BY <2>1 DEF FetchInv
<1>4. QED
  BY <1>1, <1>2, <1>3

(* The handle names the slot of HEAD.                                      *)
LEMMA FetchIterates ==
  ASSUME PostedInv, Iterate
  PROVE  FetchInv'
<1>0. pc = "loop" /\ FetchIdle
  BY DEF Iterate, PostedInv, GoldenInv, DrainInv, InPlace
<1>1. CASE \E where : Raise(where)
  BY <1>1, FetchRaises
<1>2. CASE pc' = "done"
  <2>1. UNCHANGED <<sysmem, stim, posted, initial, descs_fetched>>
    BY <1>2 DEF Iterate, Raise, memories, results, fetched
  <2>2. QED
    BY <1>0, <1>2, <2>1, FetchKeeps
<1>3. CASE ~(\E where : Raise(where)) /\ pc' # "done"
  <2>1. /\ submit_handle(SlotAddress(regs.HEAD)) /\ pc' = "fetch" /\ regs.HEAD # regs.TAIL
        /\ UNCHANGED <<sysmem, regs, stim, posted, initial, descs_fetched, df_out>>
    BY <1>3 DEF Iterate, memories, results, fetched
  <2>2. df_in' = <<[addr |-> SlotAddress(regs.HEAD), len |-> DESC_WORDS]>> /\ df_out' = <<>>
    BY <1>0, <2>1 DEF submit_handle, FetchIdle
  <2>3. Head(df_in').addr = SlotAddress(regs.HEAD)
    BY <2>2
  <2>4. ASSUME RingUntouched
        PROVE  SlotAddress(regs.HEAD) = regs.BASEADDR + regs.HEAD * DESCRIPTOR_SIZE_BYTES
    <3>1. Ordered /\ Len(posted) \in Nat /\ Count \in Nat
      BY <1>0, <2>4, Untouched
    <3>2. regs.HEAD = Count /\ Count < Len(posted) /\ regs.RINGLEN \in Nat
      BY <1>0, <2>1, <3>1 DEF Ordered, PostedInv, GoldenInv, DrainInv, Stored, Registers
    <3>3. posted # <<>>
      BY <3>1, <3>2
    <3>4. regs.HEAD \in 0 .. regs.RINGLEN - 1 /\ regs.RINGLEN > 0
      BY <3>1, <3>2, <3>3 DEF Ordered
    <3>5. regs.HEAD % regs.RINGLEN = regs.HEAD
      BY <3>2, <3>4, ModSmall
    <3>6. QED
      BY <3>5 DEF SlotAddress
  <2>5. QED
    BY <1>0, <2>1, <2>2, <2>3, <2>4, FetchKeeps
<1>4. QED
  BY <1>1, <1>2, <1>3

(* The handle names the slot of the descriptor posted next, and memory     *)
(* still holds it.                                                         *)
LEMMA FetchFetches ==
  ASSUME PostedInv, DescriptorFetch
  PROVE  FetchInv'
<1>0. pc = "fetch" /\ df_in # <<>> /\ df_out = <<>>
  BY DEF DescriptorFetch
<1>1. PICK h \in Handles : df_in = <<h>>
  BY <1>0 DEF PostedInv, GoldenInv, DrainInv, InPlace, Fetching
<1>2. CASE AxiFault(h.addr, h.len)
  <2>1. Raise("axi")
    BY <1>1, <1>2 DEF DescriptorFetch
  <2>2. QED
    BY <2>1, FetchRaises
<1>3. CASE ~AxiFault(h.addr, h.len)
  <2>1. /\ df_in' = <<>> /\ df_out' = <<ReadWords(sysmem, h.addr \div 4, h.len)>>
        /\ UNCHANGED <<sysmem, regs, stim, posted, initial, descs_fetched, pc>>
    BY <1>0, <1>1, <1>3 DEF DescriptorFetch, memories, results, fetched
  <2>2. Head(df_out') = ReadWords(sysmem, h.addr \div 4, DESC_WORDS)
    BY <2>1 DEF Handles
  <2>3. ASSUME RingUntouched PROVE Head(df_out') = posted[Count + 1].desc
    <3>1. /\ Ordered /\ Len(posted) \in Nat /\ Count \in Nat
          /\ \A k \in 1 .. Len(posted) : ReadWords(sysmem, posted[k].slot, DESC_WORDS) = posted[k].desc
      BY <1>0, <2>3, Untouched
    <3>2. regs.HEAD = Count /\ Count + 1 \in 1 .. Len(posted)
      BY <1>0, <3>1 DEF Ordered
    <3>3. h.addr = regs.BASEADDR + Count * DESCRIPTOR_SIZE_BYTES
      BY <1>0, <1>1, <2>3, <3>2 DEF PostedInv, FetchInv
    <3>4. posted[Count + 1].slot = h.addr \div 4
      <4>1. posted[Count + 1].slot = SlotOf(Count + 1)
        BY <3>1, <3>2 DEF Ordered
      <4>2. (Count + 1) - 1 = Count
        BY <3>1
      <4>3. QED
        BY <3>3, <4>1, <4>2 DEF SlotOf
    <3>5. QED
      BY <2>2, <3>1, <3>2, <3>4
  <2>4. QED
    BY <1>0, <2>1, <2>3, FetchKeeps
<1>4. QED
  BY <1>2, <1>3

(* What is decoded is the descriptor posted next.                          *)
LEMMA FetchDecodes ==
  ASSUME PostedInv, Decode
  PROVE  FetchInv'
<1>0. pc = "fetch" /\ df_out # <<>>
  BY DEF Decode
<1>1. CASE Overflows(dm_axi, DM_DEPTH) \/ Overflows(dm_sram, DM_DEPTH)
  <2>1. Raise("fifo")
    BY <1>1 DEF Decode
  <2>2. QED
    BY <2>1, FetchRaises
<1>2. CASE ~(Overflows(dm_axi, DM_DEPTH) \/ Overflows(dm_sram, DM_DEPTH))
  <2> DEFINE d == Head(df_out)
  <2>1. /\ descs_fetched' = Append(descs_fetched, d) /\ desc' = d /\ pc' = "move"
        /\ UNCHANGED <<sysmem, stim, posted, initial>>
    BY <1>2 DEF Decode, memories
  <2>2. d \in Descriptors /\ descs_fetched \in Seq(Descriptors)
    BY <1>0 DEF PostedInv, GoldenInv, RingInv, DrainInv, InPlace, Fetching
  <2> HIDE DEF d
  <2>3. /\ Count \in Nat /\ Count' = Count + 1 /\ descs_fetched'[Count + 1] = d
        /\ \A k \in 1 .. Count : descs_fetched'[k] = descs_fetched[k]
    BY <2>1, <2>2 DEF Count
  <2>4. RingUntouched' = RingUntouched
    BY <2>1, UntouchedKeeps
  <2>5. SUFFICES ASSUME RingUntouched PROVE FetchInv'
    BY <2>4 DEF FetchInv
  <2>6. d = posted[Count + 1].desc
    BY <1>0, <2>5 DEF PostedInv, FetchInv, d
  <2>7. /\ \A k \in 1 .. Len(posted) : ReadWords(sysmem, posted[k].slot, DESC_WORDS) = posted[k].desc
        /\ \A k \in 1 .. Count : descs_fetched[k] = posted[k].desc
    BY <1>0, <2>5, Untouched
  <2>8. \A k \in 1 .. Count' : descs_fetched'[k] = posted[k].desc
    BY <2>3, <2>6, <2>7
  <2>9. desc' = posted'[Count'].desc
    BY <2>1, <2>3, <2>6
  <2>10. QED
    BY <2>1, <2>7, <2>8, <2>9 DEF FetchInv
<1>3. QED
  BY <1>1, <1>2

(* A write to other words leaves the words that are read.                  *)
Apart(slot, first, n) == \A a \in slot .. slot + 3 : a \notin first .. first + n - 1

(* Words outside the write are read as before.                             *)
LEMMA ReadsApart ==
  ASSUME NEW n \in Nat, NEW mem, DOMAIN mem = 0 .. n - 1, NEW first, NEW words,
         NEW slot \in Nat, slot + 4 <= n, Apart(slot, first, Len(words))
  PROVE  ReadWords(WriteWords(mem, first, words), slot, 4) = ReadWords(mem, slot, 4)
<1>1. \A i \in 1 .. 4 : slot + i - 1 \in 0 .. n - 1 /\ slot + i - 1 \in slot .. slot + 3
  OBVIOUS
<1>2. \A i \in 1 .. 4 : WriteWords(mem, first, words)[slot + i - 1] = mem[slot + i - 1]
  BY <1>1 DEF WriteWords, Apart
<1>3. QED
  BY <1>2 DEF ReadWords

(* A move writes no word of the ring: its descriptor is one of the posted. *)
LEMMA FetchMoves ==
  ASSUME PostedInv, AxiMove \/ SramMove
  PROVE  FetchInv'
<1>0. pc = "move"
  BY DEF AxiMove, SramMove
<1>1. CASE \E where : Raise(where)
  BY <1>1, FetchRaises
<1>2. CASE AxiReads \/ SramReads \/ SramWrites
  <2>1. UNCHANGED <<sysmem, stim, posted, initial, descs_fetched, desc, pc>>
    BY <1>2 DEF AxiReads, SramReads, SramWrites, Kept
  <2>2. RingUntouched => desc = posted[Count].desc
    BY <1>0 DEF PostedInv, FetchInv
  <2>3. QED
    BY <1>0, <2>1, <2>2, FetchKeeps
<1>3. CASE AxiWrites
  <2>1. /\ sysmem' = WriteWords(sysmem, Dst(desc) \div 4, mid)
        /\ ~ToSram(desc) /\ mid \in Seq(Nat) /\ Len(mid) = Beats(desc)
        /\ UNCHANGED <<stim, posted, initial, descs_fetched, desc, pc>>
    BY <1>3 DEF AxiWrites, OneWaits, Kept
  <2>2. RingUntouched' = RingUntouched /\ Count' = Count
    BY <2>1, UntouchedKeeps DEF Count
  <2>3. SUFFICES ASSUME RingUntouched PROVE FetchInv'
    BY <2>2 DEF FetchInv
  <2>4. /\ Ordered /\ posted \in Seq(Posts) /\ Len(posted) \in Nat /\ Count \in Nat
        /\ \A k \in 1 .. Len(posted) : ReadWords(sysmem, posted[k].slot, DESC_WORDS) = posted[k].desc
        /\ \A k \in 1 .. Count : descs_fetched[k] = posted[k].desc
    BY <1>0, <2>3, Untouched
  <2>5. desc = posted[Count].desc /\ Count \in 1 .. Len(posted)
    <3>1. desc = posted[Count].desc
      BY <1>0, <2>3 DEF PostedInv, FetchInv
    <3>2. regs.HEAD + 1 = Count /\ Count <= Len(posted) /\ regs.HEAD \in Nat
      BY <1>0, <2>4 DEF Ordered, PostedInv, GoldenInv, DrainInv, Stored, Registers
    <3>3. QED
      BY <2>4, <3>1, <3>2
  <2>6. ASSUME NEW k \in 1 .. Len(posted)
        PROVE  ReadWords(sysmem', posted[k].slot, DESC_WORDS) = posted[k].desc
    <3>1. /\ SMEM_WORDS \in Nat /\ sysmem \in [0 .. SMEM_WORDS - 1 -> Nat] /\ desc \in Descriptors
          /\ Dst(desc) \div 4 \in Nat
      <4>1. SMEM_WORDS \in Nat /\ sysmem \in [0 .. SMEM_WORDS - 1 -> Nat] /\ desc \in Descriptors
        BY <1>0, GoldenAssumption DEF PostedInv, GoldenInv, DrainInv, Stored, InPlace, Moving
      <4>2. QED
        BY <4>1, Fields, WordIndex
    <3>2. posted[k].slot \in Nat /\ posted[k].slot + 4 <= SMEM_WORDS
      <4>1. posted[k] \in Posts
        BY <2>4, <2>6
      <4>2. QED
        BY <4>1 DEF Posts, DESC_WORDS
    <3>3. SlotWords(k) \cap (Dst(desc) \div 4 .. Dst(desc) \div 4 + Beats(desc) - 1) = {}
      <4>1. k \in DOMAIN posted /\ Count \in DOMAIN posted
        BY <2>4, <2>5, <2>6
      <4>2. QED
        BY <2>1, <2>3, <2>5, <4>1 DEF RingUntouched
    <3>4. \A a \in posted[k].slot .. posted[k].slot + 3 :
            a \notin Dst(desc) \div 4 .. Dst(desc) \div 4 + Len(mid) - 1
      <4>1. SlotWords(k) = posted[k].slot .. posted[k].slot + 3
        BY <3>2 DEF SlotWords, DESC_WORDS
      <4>2. QED
        BY <2>1, <3>3, <4>1
    <3>5. ReadWords(sysmem', posted[k].slot, 4) = ReadWords(sysmem, posted[k].slot, 4)
      <4> DEFINE first == Dst(desc) \div 4
                 slot == posted[k].slot
      <4>1. /\ first \in Nat /\ slot \in Nat /\ slot + 4 <= SMEM_WORDS /\ mid \in Seq(Nat)
            /\ Apart(slot, first, Len(mid))
            /\ sysmem' = WriteWords(sysmem, first, mid)
        BY <2>1, <3>1, <3>2, <3>4 DEF Apart
      <4>2. SMEM_WORDS \in Nat /\ DOMAIN sysmem = 0 .. SMEM_WORDS - 1
        BY <3>1
      <4> HIDE DEF first, slot
      <4>3. ReadWords(WriteWords(sysmem, first, mid), slot, 4) = ReadWords(sysmem, slot, 4)
        BY <4>1, <4>2, ReadsApart
      <4>4. QED
        BY <4>1, <4>3 DEF slot
    <3>6. QED
      BY <2>4, <3>5 DEF DESC_WORDS
  <2>7. QED
    BY <1>0, <2>1, <2>2, <2>4, <2>5, <2>6 DEF FetchInv
<1>4. QED
  BY <1>1, <1>2, <1>3, AxiEdge, SramEdge DEF PostedInv, GoldenInv

(* Every step keeps what is fetched what was posted.                       *)
LEMMA PostedStep == PostedInv /\ [Next]_goldenVars => PostedInv'
<1> SUFFICES ASSUME PostedInv, [Next]_goldenVars PROVE PostedInv'
  OBVIOUS
<1>1. GoldenInv'
  BY RingStep DEF PostedInv
<1>2. CASE Complete
  <2>1. CASE regs.HEAD = regs.TAIL
    <3>1. Raise("ring")
      BY <1>2, <2>1 DEF Complete
    <3>2. QED
      BY <1>1, <3>1, FetchRaises DEF PostedInv
  <2>2. CASE regs.HEAD # regs.TAIL
    <3>1. pc = "move" /\ pc' = "loop" /\ UNCHANGED <<sysmem, stim, posted, initial, descs_fetched>>
      BY <1>2, <2>2 DEF Complete
    <3>2. QED
      BY <1>1, <3>1, FetchKeeps DEF PostedInv
  <2>3. QED
    BY <2>1, <2>2
<1>3. CASE UNCHANGED goldenVars
  <2>1. UNCHANGED <<sysmem, regs, stim, posted, initial, descs_fetched, desc, df_in, df_out, pc>>
    BY <1>3 DEF goldenVars, memories, queues, results, fetched
  <2>2. RingUntouched' = RingUntouched /\ Count' = Count
    BY <2>1, UntouchedKeeps DEF Count
  <2>3. FetchInv'
    BY <2>1, <2>2 DEF PostedInv, FetchInv
  <2>4. QED
    BY <1>1, <2>3 DEF PostedInv
<1>4. QED
  BY <1>1, <1>2, <1>3, FetchSetup, FetchIterates, FetchFetches, FetchDecodes, FetchMoves
     DEF PostedInv, Next, EventLoop, Finished

(* What an untouched ring hands over.                                      *)
LEMMA FetchedFits == PostedInv => FetchedAsPosted
<1> SUFFICES ASSUME PostedInv, RingUntouched, pc # "setup"
             PROVE  /\ IsPrefix(descs_fetched, PostedDescs)
                    /\ pc = "done" /\ Csr!is_enabled(regs) =>
                         descs_fetched = PostedDescs /\ regs.HEAD = regs.TAIL
  BY DEF FetchedAsPosted
<1>1. /\ Ordered /\ posted \in Seq(Posts) /\ Len(posted) \in Nat /\ Count \in Nat
      /\ \A k \in 1 .. Count : descs_fetched[k] = posted[k].desc
      /\ descs_fetched \in Seq(Descriptors)
  BY Untouched DEF PostedInv, GoldenInv, RingInv
<1>2. /\ PostedDescs \in Seq(Descriptors) /\ Len(PostedDescs) = Len(posted)
      /\ \A k \in 1 .. Len(posted) : PostedDescs[k] = posted[k].desc
  <2>1. \A k \in 1 .. Len(posted) : posted[k].desc \in Descriptors
    <3>1. \A k \in 1 .. Len(posted) : posted[k] \in Posts
      BY <1>1
    <3>2. \A p \in Posts : p.desc \in Descriptors
      BY DEF Posts
    <3>3. QED
      BY <3>1, <3>2
  <2>2. PostedDescs = [k \in 1 .. Len(posted) |-> posted[k].desc]
    BY <1>1 DEF PostedDescs
  <2>3. QED
    BY <1>1, <2>1, <2>2
<1>3. Count <= Len(posted)
  BY <1>1 DEF Ordered
<1>4. \A k \in 1 .. Len(descs_fetched) : descs_fetched[k] = PostedDescs[k]
  BY <1>1, <1>2, <1>3 DEF Count
<1>5. IsPrefix(descs_fetched, PostedDescs)
  BY <1>1, <1>2, <1>3, <1>4 DEF IsPrefix, Count
<1>6. ASSUME pc = "done", Csr!is_enabled(regs)
      PROVE  descs_fetched = PostedDescs /\ regs.HEAD = regs.TAIL
  <2>1. regs.HEAD = regs.TAIL /\ regs.HEAD = Count /\ regs.TAIL = Len(posted)
    BY <1>1, <1>6 DEF Ordered
  <2>2. Len(descs_fetched) = Len(PostedDescs)
    BY <1>2, <2>1 DEF Count
  <2>3. QED
    BY <1>1, <1>2, <1>4, <2>1, <2>2, SeqEqual
<1>7. QED
  BY <1>5, <1>6

(* What is fetched, in order, is a beginning of what was posted, and all   *)
(* of it when the loop has emptied the ring, as long as nothing but        *)
(* enqueue writes the ring and its registers: for every scenario, ring     *)
(* length and memory size, whatever the moves between two fetches do.      *)
THEOREM FetchesThePosted == Spec => []FetchedAsPosted
<1>1. Init => PostedInv
  <2>1. Init => FetchInv
    BY DEF Init, FetchInv
  <2>2. QED
    BY <2>1, RingInit DEF PostedInv
<1>2. QED
  BY <1>1, FetchedFits, PostedStep, PTL DEF Spec

(* The event loop drains every ring that software leaves alone: with a     *)
(* limit no smaller than the ring lengths a scenario programs, it stops    *)
(* with exceeded MAX_ITERS only after RINGLEN or BASEADDR changed behind   *)
(* posted descriptors.                                                     *)
THEOREM StallsAreReconfigured ==
  ASSUME \A r \in RowValues : r.op = "csr_ringlen" => r.data <= MAX_ITERS
  PROVE  Spec => []StallsOnlyReconfigured
<1> DEFINE Short == regs.RINGLEN <= MAX_ITERS
<1>1. Init => Short
  BY GoldenAssumption DEF Init, Csr!PowerUp
<1>2. GoldenInv /\ Short /\ [Next]_goldenVars => Short'
  <2> SUFFICES ASSUME GoldenInv, Short, [Next]_goldenVars PROVE Short'
    OBVIOUS
  <2>0. regs \in Registers /\ Stored
    BY DEF GoldenInv, DrainInv, Stored
  <2>1. CASE RowCsr("csr_ringlen", "RINGLEN")
    <3>1. Head(rows).data \in Nat /\ Head(rows).data <= MAX_ITERS
      <4>1. Head(rows) \in RowValues /\ Head(rows).op = "csr_ringlen"
        BY <2>0, <2>1, NextRow DEF RowCsr, Row
      <4>2. QED
        BY <4>1, ScenarioAssumption
    <3>2. regs'.RINGLEN = Head(rows).data
      BY <2>0, <2>1, <3>1, Written DEF RowCsr
    <3>3. QED
      BY <3>1, <3>2
  <2>2. CASE RowCsr("csr_baseaddr", "BASEADDR")
    <3>1. Head(rows).data \in Nat
      BY <2>0, <2>2, NextRow, ScenarioAssumption DEF RowCsr, Row
    <3>2. regs'.RINGLEN = regs.RINGLEN
      BY <2>0, <2>2, <3>1, Written DEF RowCsr
    <3>3. QED
      BY <3>2
  <2>3. CASE RowDesc
    <3>1. CASE regs' = regs
      BY <3>1
    <3>2. CASE regs' # regs
      <4>1. regs.RINGLEN # 0 /\ regs' = Csr!Write(regs, "TAIL", (regs.TAIL + 1) % regs.RINGLEN)
        BY <2>3, <3>2 DEF RowDesc, Raise, memories, EnqueueFails, Enqueue
      <4>2. (regs.TAIL + 1) % regs.RINGLEN \in Nat
        <5>1. regs.TAIL \in Nat /\ regs.RINGLEN \in Nat /\ regs.RINGLEN > 0
          BY <2>0, <4>1 DEF Registers
        <5>2. QED
          BY <5>1
      <4>3. regs'.RINGLEN = regs.RINGLEN
        BY <2>0, <4>1, <4>2, Written
      <4>4. QED
        BY <4>3
    <3>3. QED
      BY <3>1, <3>2
  <2>4. CASE RowEnable
    <3>1. regs'.RINGLEN = regs.RINGLEN
      BY <2>0, <2>4, WrittenCtrl DEF RowEnable
    <3>2. QED
      BY <3>1
  <2>5. CASE Complete
    <3>1. CASE regs' = regs
      BY <3>1
    <3>2. CASE regs' # regs
      <4>1. regs' = Csr!hw_set_head(regs, NextHead) /\ regs.RINGLEN > 0 /\ regs.RINGLEN \in Nat
        BY <2>5, <3>2 DEF Complete, Raise, memories, GoldenInv, DrainInv, InPlace, Stored, Registers
      <4>2. NextHead \in Nat
        BY <2>0, <4>1 DEF NextHead, Registers
      <4>3. regs'.RINGLEN = regs.RINGLEN
        BY <2>0, <4>1, <4>2, WrittenHead
      <4>4. QED
        BY <4>3
    <3>3. QED
      BY <3>1, <3>2
  <2>6. CASE RowSmem \/ RowSram \/ RowUnknown \/ EndOfRows
    <3>1. regs' = regs
      BY <2>6 DEF RowSmem, RowSram, RowUnknown, EndOfRows, Raise, memories
    <3>2. QED
      BY <3>1
  <2>7. CASE Iterate \/ DescriptorFetch \/ Decode \/ AxiMove \/ SramMove
    <3>1. regs' = regs
      BY <2>7 DEF Iterate, DescriptorFetch, Decode, AxiMove, SramMove, Raise, memories
    <3>2. QED
      BY <3>1
  <2>8. CASE UNCHANGED goldenVars
    BY <2>8 DEF goldenVars, memories
  <2>9. QED
    BY <2>1, <2>2, <2>3, <2>4, <2>5, <2>6, <2>7, <2>8 DEF Next, Setup, EventLoop, Finished
<1>3. GoldenInv /\ Short => StallsOnlyReconfigured
  <2> SUFFICES ASSUME GoldenInv, Short, error = "iterations", ~Reconfigured PROVE FALSE
    BY DEF StallsOnlyReconfigured
  <2>1. Ordered /\ Len(posted) \in Nat /\ Count \in Nat /\ MAX_ITERS \in Nat /\ MAX_ITERS > 0
    BY GoldenAssumption DEF GoldenInv, RingInv, Count
  <2>2. Count = MAX_ITERS /\ Count <= Len(posted) /\ regs.RINGLEN \in Nat
    BY <2>1 DEF Ordered, GoldenInv, DrainInv, Stored, Registers
  <2>3. posted # <<>>
    BY <2>1, <2>2
  <2>4. Len(posted) < regs.RINGLEN
    BY <2>1, <2>3 DEF Ordered
  <2>5. QED
    BY <2>1, <2>2, <2>4
<1> HIDE DEF Short
<1>4. QED
  BY <1>1, <1>2, <1>3, RingInit, RingStep, PTL DEF Spec
-----------------------------------------------------------------------------
(* What stim.txt does to a board.  The board after the last line is given  *)
(* by recursion over the lines, so first: the recursive definition holds,  *)
(* by the least counterexample, and a line that is added replays itself on *)
(* what the lines before it gave.                                          *)
Replayed(lines) == Boards(lines)[Len(lines)]

BoardStates ==
  [smem : [0 .. SMEM_WORDS - 1 -> Nat], sram : [0 .. BRAM_SIZE - 1 -> Nat], regs : Registers]

SameRing(a, b) == a.BASEADDR = b.BASEADDR /\ a.RINGLEN = b.RINGLEN /\ a.TAIL = b.TAIL

(* While the rows run, the board that replays the lines so far has the     *)
(* memories of the model; afterwards it has those the loop started with.   *)
ReplayInv ==
  /\ Replayed(stim) \in BoardStates
  /\ pc = "setup" => Replayed(stim).smem = sysmem /\ Replayed(stim).sram = sram
  /\ pc \in {"loop", "fetch", "move", "done"} =>
       Replayed(stim).smem = initial.smem /\ Replayed(stim).sram = initial.sram
  /\ pc # "raised" => SameRing(Replayed(stim).regs, regs)

BoardInv == GoldenInv /\ ReplayInv

(* A set of numbers that is not empty has a least one.                     *)
LEMMA Smallest ==
  ASSUME NEW S \in SUBSET Nat, S # {}
  PROVE  \E m \in S : \A n \in S : m <= n
<1> DEFINE R == OpToRel(<, Nat)
<1>1. \A x, y \in Nat : x < y => <<x, y>> \in R
  BY DEF OpToRel
<1>2. IsWellFoundedOn(R, Nat)
  BY NatLessThanWellFounded
<1> HIDE DEF R
<1>3. PICK m \in S : \A y \in S : ~(<<y, m>> \in R)
  BY <1>2, WFMin
<1>4. \A y \in S : ~(y < m)
  BY <1>1, <1>3
<1>5. \A y \in S : m <= y
  BY <1>4
<1>6. QED
  BY <1>5

(* The boards are what their recursive definition says.                    *)
LEMMA BoardsAre ==
  ASSUME NEW s, Len(s) \in Nat
  PROVE  /\ Boards(s)[0] = Blank
         /\ \A k \in 1 .. Len(s) : Boards(s)[k] = Replay(Boards(s)[k - 1], s[k])
<1> DEFINE L == Len(s)
           Is(g, n) == g = [k \in 0 .. n |-> IF k = 0 THEN Blank ELSE Replay(g[k - 1], s[k])]
           S == {n \in 0 .. L : ~\E g : Is(g, n)}
<1>1. S = {}
  <2> SUFFICES ASSUME S # {} PROVE FALSE
    OBVIOUS
  <2>1. S \in SUBSET Nat
    OBVIOUS
  <2>2. PICK m \in S : \A n \in S : m <= n
    <3> HIDE DEF S
    <3>1. QED
      BY <2>1, Smallest
  <2>3. m \in 0 .. L /\ ~\E g : Is(g, m)
    BY <2>2
  <2>4. m # 0
    <3> SUFFICES ASSUME m = 0 PROVE FALSE
      OBVIOUS
    <3> DEFINE g == [k \in 0 .. 0 |-> Blank]
    <3>1. Is(g, 0)
      BY DEF g
    <3>2. QED
      BY <2>3, <3>1
  <2>5. m - 1 \in 0 .. L /\ m - 1 \notin S
    BY <2>2, <2>3, <2>4
  <2>6. PICK g : Is(g, m - 1)
    BY <2>5
  <2> DEFINE h == [k \in 0 .. m |-> IF k = m THEN Replay(g[m - 1], s[m]) ELSE g[k]]
  <2>7. \A k \in 0 .. m - 1 : g[k] = IF k = 0 THEN Blank ELSE Replay(g[k - 1], s[k])
    BY <2>6, Zenon
  <2>8. \A k \in 0 .. m : h[k] = IF k = 0 THEN Blank ELSE Replay(h[k - 1], s[k])
    <3> SUFFICES ASSUME NEW k \in 0 .. m
                 PROVE  h[k] = IF k = 0 THEN Blank ELSE Replay(h[k - 1], s[k])
      OBVIOUS
    <3>1. CASE k = 0
      BY <2>3, <2>4, <2>7, <3>1
    <3>2. CASE k # 0
      <4>1. k - 1 \in 0 .. m /\ k - 1 # m /\ h[k - 1] = g[k - 1]
        BY <2>3, <3>2
      <4>2. CASE k = m
        BY <4>1, <4>2, <3>2
      <4>3. CASE k # m
        <5>1. k \in 0 .. m - 1
          BY <2>3, <4>3
        <5>2. QED
          BY <2>7, <3>2, <4>1, <4>3, <5>1
      <4>4. QED
        BY <4>2, <4>3
    <3>3. QED
      BY <3>1, <3>2
  <2>9. Is(h, m)
    <3>1. h = [k \in 0 .. m |-> h[k]]
      OBVIOUS
    <3> HIDE DEF h
    <3>2. QED
      BY <2>8, <3>1
  <2>10. QED
    BY <2>3, <2>9
<1>2. \E g : Is(g, L)
  <2>1. L \in 0 .. L /\ L \notin S
    BY <1>1
  <2>2. QED
    BY <2>1
<1>3. Is(Boards(s), L)
  <2>1. Boards(s) = CHOOSE g : Is(g, L)
    BY DEF Boards
  <2> HIDE DEF Is
  <2>2. QED
    BY <1>2, <2>1, Zenon
<1>4. \A k \in 0 .. L : Boards(s)[k] = IF k = 0 THEN Blank ELSE Replay(Boards(s)[k - 1], s[k])
  BY <1>3, Zenon
<1>5. QED
  BY <1>4

(* The first lines give the same board whatever follows them.              *)
LEMMA BoardsSame ==
  ASSUME NEW s, NEW t, Len(s) \in Nat, Len(t) \in Nat, Len(s) <= Len(t),
         \A i \in 1 .. Len(s) : t[i] = s[i]
  PROVE  Boards(t)[Len(s)] = Replayed(s)
<1> DEFINE S == {n \in 0 .. Len(s) : Boards(t)[n] # Boards(s)[n]}
<1>1. /\ Boards(s)[0] = Blank /\ Boards(t)[0] = Blank
      /\ \A k \in 1 .. Len(s) : Boards(s)[k] = Replay(Boards(s)[k - 1], s[k])
      /\ \A k \in 1 .. Len(t) : Boards(t)[k] = Replay(Boards(t)[k - 1], t[k])
  BY BoardsAre
<1>2. S = {}
  <2> SUFFICES ASSUME S # {} PROVE FALSE
    OBVIOUS
  <2>1. S \in SUBSET Nat
    OBVIOUS
  <2>2. PICK m \in S : \A n \in S : m <= n
    <3> HIDE DEF S
    <3>1. QED
      BY <2>1, Smallest
  <2>3. m \in 0 .. Len(s) /\ Boards(t)[m] # Boards(s)[m] /\ m # 0
    BY <1>1, <2>2
  <2>4. m \in 1 .. Len(s) /\ m \in 1 .. Len(t) /\ m - 1 \in 0 .. Len(s) /\ m - 1 \notin S
    BY <2>2, <2>3
  <2>5. Boards(t)[m - 1] = Boards(s)[m - 1] /\ t[m] = s[m]
    BY <2>4
  <2>6. Boards(t)[m] = Boards(s)[m]
    BY <1>1, <2>4, <2>5
  <2>7. QED
    BY <2>3, <2>6
<1>3. Len(s) \in 0 .. Len(s) /\ Len(s) \notin S
  BY <1>2
<1>4. QED
  BY <1>3 DEF Replayed

(* A line that is added replays itself.                                    *)
LEMMA ReplayedLine ==
  ASSUME NEW s \in Seq(Lines), NEW l
  PROVE  Replayed(Append(s, l)) = Replay(Replayed(s), l)
<1> DEFINE t == Append(s, l)
<1>1. /\ Len(s) \in Nat /\ Len(t) = Len(s) + 1 /\ t[Len(s) + 1] = l
      /\ \A i \in 1 .. Len(s) : t[i] = s[i]
  OBVIOUS
<1> HIDE DEF t
<1>2. Len(t) \in Nat /\ Len(s) <= Len(t) /\ Len(t) \in 1 .. Len(t) /\ Len(t) - 1 = Len(s)
  BY <1>1
<1>3. Boards(t)[Len(s)] = Replayed(s)
  BY <1>1, <1>2, BoardsSame
<1>4. Boards(t)[Len(t)] = Replay(Boards(t)[Len(t) - 1], t[Len(t)])
  BY <1>2, BoardsAre
<1>5. QED
  BY <1>1, <1>2, <1>3, <1>4 DEF Replayed, t

(* So do five.                                                             *)
LEMMA ReplayedFive ==
  ASSUME NEW s \in Seq(Lines), NEW n \in Seq(Lines), Len(n) = 5
  PROVE  Replayed(s \o n) =
           Replay(Replay(Replay(Replay(Replay(Replayed(s), n[1]), n[2]), n[3]), n[4]), n[5])
<1> DEFINE t == s \o n
           L == Len(s)
<1>1. /\ L \in Nat /\ Len(t) = L + 5
      /\ \A i \in 1 .. L : t[i] = s[i]
      /\ \A i \in 1 .. 5 : t[L + i] = n[i]
  <2>1. /\ L \in Nat /\ Len(t) = L + 5
        /\ \A i \in 1 .. L + 5 : t[i] = IF i <= L THEN s[i] ELSE n[i - L]
    <3>1. /\ Len(s \o n) = Len(s) + Len(n)
          /\ \A i \in 1 .. Len(s) + Len(n) :
               (s \o n)[i] = IF i <= Len(s) THEN s[i] ELSE n[i - Len(s)]
      BY ConcatProperties
    <3>2. Len(s) \in Nat
      OBVIOUS
    <3>3. QED
      BY <3>1, <3>2, Zenon
  <2> HIDE DEF t, L
  <2>2. ASSUME NEW i \in 1 .. 5 PROVE t[L + i] = n[i]
    <3>1. L + i \in 1 .. L + 5 /\ ~(L + i <= L) /\ (L + i) - L = i
      BY <2>1
    <3>2. QED
      BY <2>1, <3>1
  <2>3. \A i \in 1 .. L : i \in 1 .. L + 5 /\ i <= L
    BY <2>1
  <2>4. QED
    BY <2>1, <2>2, <2>3
<1> HIDE DEF t, L
<1>2. /\ Len(t) \in Nat /\ L <= Len(t)
      /\ \A i \in 1 .. 5 : L + i \in 1 .. Len(t) /\ t[L + i] = n[i]
      /\ (L + 1) - 1 = L /\ (L + 2) - 1 = L + 1 /\ (L + 3) - 1 = L + 2
      /\ (L + 4) - 1 = L + 3 /\ (L + 5) - 1 = L + 4
  BY <1>1
<1>3. Boards(t)[L] = Replayed(s)
  BY <1>1, <1>2, BoardsSame DEF L
<1>4. \A k \in 1 .. Len(t) : Boards(t)[k] = Replay(Boards(t)[k - 1], t[k])
  BY <1>2, BoardsAre
<1>5. Boards(t)[L + 1] = Replay(Boards(t)[L], n[1])
  BY <1>1, <1>2, <1>4
<1>6. Boards(t)[L + 2] = Replay(Boards(t)[L + 1], n[2])
  BY <1>1, <1>2, <1>4
<1>7. Boards(t)[L + 3] = Replay(Boards(t)[L + 2], n[3])
  BY <1>1, <1>2, <1>4
<1>8. Boards(t)[L + 4] = Replay(Boards(t)[L + 3], n[4])
  BY <1>1, <1>2, <1>4
<1>9. Boards(t)[L + 5] = Replay(Boards(t)[L + 4], n[5])
  BY <1>1, <1>2, <1>4
<1>10. Replayed(t) = Boards(t)[L + 5]
  BY <1>1 DEF Replayed
<1>11. QED
  BY <1>3, <1>5, <1>6, <1>7, <1>8, <1>9, <1>10 DEF t
-----------------------------------------------------------------------------
(* One word written.                                                       *)
LEMMA WriteOne ==
  ASSUME NEW n \in Nat, NEW mem \in [0 .. n - 1 -> Nat], NEW f \in Nat, NEW w \in Nat
  PROVE  /\ WriteWords(mem, f, <<w>>) = [mem EXCEPT ![f] = w]
         /\ WriteWords(mem, f, <<w>>) \in [0 .. n - 1 -> Nat]
<1>1. Len(<<w>>) = 1 /\ <<w>>[1] = w
  OBVIOUS
<1> DEFINE s == <<w>>
<1> HIDE DEF s
<1>2. Len(s) = 1 /\ s[1] = w
  BY <1>1 DEF s
<1>3. WriteWords(mem, f, s) = [a \in 0 .. n - 1 |-> IF a = f THEN w ELSE mem[a]]
  <2>1. \A a \in 0 .. n - 1 : (a \in f .. f + Len(s) - 1 <=> a = f) /\ (a = f => a - f + 1 = 1)
    BY <1>2
  <2>2. QED
    BY <1>2, <2>1 DEF WriteWords
<1>4. QED
  BY <1>3 DEF s

(* Four words written one after the other are a descriptor written.        *)
LEMMA WriteFour ==
  ASSUME NEW n \in Nat, NEW mem \in [0 .. n - 1 -> Nat], NEW f \in Nat, NEW d \in Descriptors,
         NEW one, one = [mem EXCEPT ![f] = d[1]],
         NEW two, two = [one EXCEPT ![f + 1] = d[2]],
         NEW three, three = [two EXCEPT ![f + 2] = d[3]],
         NEW four, four = [three EXCEPT ![f + 3] = d[4]]
  PROVE  four = WriteWords(mem, f, d)
<1>1. Len(d) = 4 /\ \A i \in 1 .. 4 : d[i] \in Nat
  BY DescriptorIsSeq DEF Descriptors, DESC_WORDS
<1>2. \A a \in 0 .. n - 1 : one[a] = IF a = f THEN d[1] ELSE mem[a]
  OBVIOUS
<1>3. \A a \in 0 .. n - 1 : two[a] = IF a = f + 1 THEN d[2] ELSE one[a]
  OBVIOUS
<1>4. \A a \in 0 .. n - 1 : three[a] = IF a = f + 2 THEN d[3] ELSE two[a]
  OBVIOUS
<1>5. \A a \in 0 .. n - 1 : four[a] = IF a = f + 3 THEN d[4] ELSE three[a]
  OBVIOUS
<1>6. four = [a \in 0 .. n - 1 |-> four[a]]
  OBVIOUS
<1>7. \A a \in 0 .. n - 1 : four[a] = IF a \in f .. f + 3 THEN d[a - f + 1] ELSE mem[a]
  BY <1>2, <1>3, <1>4, <1>5
<1>8. WriteWords(mem, f, d) = [a \in 0 .. n - 1 |-> IF a \in f .. f + 3 THEN d[a - f + 1] ELSE mem[a]]
  <2>1. f + Len(d) - 1 = f + 3 /\ DOMAIN mem = 0 .. n - 1
    BY <1>1
  <2>2. QED
    BY <2>1 DEF WriteWords
<1>9. QED
  BY <1>6, <1>7, <1>8

(* A memory line writes one word of one memory.                            *)
LEMMA ReplayWord ==
  ASSUME NEW b \in BoardStates, NEW op \in {"sysmem_write", "sram_write"},
         NEW addr \in Nat, NEW w \in Nat
  PROVE  LET c == Replay(b, Line(op, addr, w))
             f == addr \div 4
         IN  /\ c \in BoardStates /\ c.regs = b.regs
             /\ op = "sysmem_write" => c.smem = [b.smem EXCEPT ![f] = w] /\ c.sram = b.sram
             /\ op = "sram_write" => c.sram = [b.sram EXCEPT ![f] = w] /\ c.smem = b.smem
<1> DEFINE l == Line(op, addr, w)
           f == addr \div 4
<1>1. l.op = op /\ l.addr = addr /\ l.data = w /\ f \in Nat
  BY WordIndex DEF Line
<1>0. /\ SMEM_WORDS \in Nat /\ b.smem \in [0 .. SMEM_WORDS - 1 -> Nat]
      /\ BRAM_SIZE \in Nat /\ b.sram \in [0 .. BRAM_SIZE - 1 -> Nat]
  BY GoldenAssumption DEF BoardStates
<1> HIDE DEF l
<1>2. CASE op = "sysmem_write"
  <2>1. Replay(b, l) = [b EXCEPT !.smem = WriteWords(@, f, <<w>>)]
    BY <1>1, <1>2 DEF Replay
  <2> HIDE DEF f
  <2>2. /\ WriteWords(b.smem, f, <<w>>) = [b.smem EXCEPT ![f] = w]
        /\ WriteWords(b.smem, f, <<w>>) \in [0 .. SMEM_WORDS - 1 -> Nat]
    <3>1. f \in Nat /\ SMEM_WORDS \in Nat /\ b.smem \in [0 .. SMEM_WORDS - 1 -> Nat]
      BY <1>0, <1>1
    <3>2. QED
      BY <3>1, WriteOne, Zenon
  <2> DEFINE new == WriteWords(b.smem, f, <<w>>)
  <2> HIDE DEF new
  <2>3. Replay(b, l) = [b EXCEPT !.smem = new] /\ new \in [DOMAIN b.smem -> Nat]
    BY <1>0, <2>1, <2>2 DEF new
  <2>4. /\ Replay(b, l) \in BoardStates /\ Replay(b, l).regs = b.regs
        /\ Replay(b, l).smem = new /\ Replay(b, l).sram = b.sram
    BY <1>0, <2>3 DEF BoardStates
  <2>5. QED
    BY <1>2, <2>2, <2>4 DEF f, l, new
<1>3. CASE op = "sram_write"
  <2>1. Replay(b, l) = [b EXCEPT !.sram = WriteWords(@, f, <<w>>)]
    BY <1>1, <1>3 DEF Replay
  <2> HIDE DEF f
  <2>2. /\ WriteWords(b.sram, f, <<w>>) = [b.sram EXCEPT ![f] = w]
        /\ WriteWords(b.sram, f, <<w>>) \in [0 .. BRAM_SIZE - 1 -> Nat]
    <3>1. f \in Nat /\ BRAM_SIZE \in Nat /\ b.sram \in [0 .. BRAM_SIZE - 1 -> Nat]
      BY <1>0, <1>1
    <3>2. QED
      BY <3>1, WriteOne, Zenon
  <2> DEFINE new == WriteWords(b.sram, f, <<w>>)
  <2> HIDE DEF new
  <2>3. Replay(b, l) = [b EXCEPT !.sram = new] /\ new \in [DOMAIN b.sram -> Nat]
    BY <1>0, <2>1, <2>2 DEF new
  <2>4. /\ Replay(b, l) \in BoardStates /\ Replay(b, l).regs = b.regs
        /\ Replay(b, l).sram = new /\ Replay(b, l).smem = b.smem
    BY <1>0, <2>3 DEF BoardStates
  <2>5. QED
    BY <1>3, <2>2, <2>4 DEF f, l, new
<1>4. QED
  BY <1>2, <1>3

(* A register line writes one register.                                    *)
LEMMA ReplayRegister ==
  ASSUME NEW b \in BoardStates, NEW register \in {"BASEADDR", "RINGLEN", "TAIL"}, NEW w \in Nat
  PROVE  LET c == Replay(b, Line("csr_write", register, w))
         IN  /\ c \in BoardStates /\ c.smem = b.smem /\ c.sram = b.sram
             /\ c.regs = Csr!Write(b.regs, register, w)
<1> DEFINE l == Line("csr_write", register, w)
<1>1. l.op = "csr_write" /\ l.addr = register /\ l.data = w
  BY DEF Line
<1> HIDE DEF l
<1>2. Replay(b, l) = [b EXCEPT !.regs = Csr!Write(@, register, w)]
  BY <1>1 DEF Replay
<1>3. Csr!Write(b.regs, register, w) \in Registers
  BY RegisterWrite DEF BoardStates
<1> DEFINE new == Csr!Write(b.regs, register, w)
<1> HIDE DEF new
<1>4. Replay(b, l) = [b EXCEPT !.regs = new] /\ new \in Registers
  BY <1>2, <1>3 DEF new
<1>5. /\ Replay(b, l) \in BoardStates /\ Replay(b, l).smem = b.smem /\ Replay(b, l).sram = b.sram
      /\ Replay(b, l).regs = new
  BY <1>4 DEF BoardStates
<1>6. QED
  BY <1>5 DEF l, new

(* The same write keeps two register blocks alike.                         *)
LEMMA SameWritten ==
  ASSUME NEW a \in Registers, NEW b \in Registers, SameRing(a, b),
         NEW register \in {"BASEADDR", "RINGLEN", "TAIL"}, NEW w \in Nat
  PROVE  SameRing(Csr!Write(a, register, w), Csr!Write(b, register, w))
BY DEF SameRing, Csr!Write, Registers
-----------------------------------------------------------------------------
(* A raised exception, and a step that adds no line and keeps the          *)
(* registers that are replayed, keep what the lines give.                  *)
LEMMA ReplayKeeps ==
  ASSUME ReplayInv, stim' = stim, initial' = initial,
         pc' = "setup" => pc = "setup" /\ sysmem' = sysmem /\ sram' = sram,
         pc' \in {"loop", "fetch", "move", "done"} => pc \in {"loop", "fetch", "move", "done"},
         pc' # "raised" => pc # "raised" /\ SameRing(regs', regs)
  PROVE  ReplayInv'
<1>1. Replayed(stim)' = Replayed(stim)
  OBVIOUS
<1>2. QED
  BY <1>1 DEF ReplayInv, SameRing

(* A memory row and its line write the same word.                          *)
LEMMA ReplayMemoryRow ==
  ASSUME BoardInv, RowSmem \/ RowSram
  PROVE  ReplayInv'
<1> DEFINE row == Head(rows)
           b == Replayed(stim)
<1>1. /\ pc = "setup" /\ row.index \in Nat /\ row.data \in Nat
      /\ stim \in Seq(Lines) /\ b \in BoardStates /\ SameRing(b.regs, regs)
      /\ b.smem = sysmem /\ b.sram = sram
  BY NextRow, ScenarioAssumption DEF BoardInv, GoldenInv, DrainInv, RingInv, ReplayInv, RowSmem, RowSram, Row
<1>2. CASE \E where : Raise(where)
  <2>1. UNCHANGED <<stim, initial>> /\ pc' = "raised"
    BY <1>2 DEF Raise, results
  <2>2. QED
    BY <2>1, ReplayKeeps DEF BoardInv
<1>3. ASSUME NEW op \in {"sysmem_write", "sram_write"},
             stim' = Append(stim, Line(op, 4 * row.index, row.data)),
             op = "sysmem_write" => sysmem' = [sysmem EXCEPT ![row.index] = row.data] /\ sram' = sram,
             op = "sram_write" => sram' = [sram EXCEPT ![row.index] = row.data] /\ sysmem' = sysmem,
             UNCHANGED <<regs, pc>>
      PROVE  ReplayInv'
  <2> DEFINE l == Line(op, 4 * row.index, row.data)
  <2>1. Replayed(stim') = Replay(b, l)
    BY <1>1, <1>3, ReplayedLine
  <2>2. (4 * row.index) \div 4 = row.index /\ 4 * row.index \in Nat
    BY <1>1
  <2>3. /\ Replay(b, l) \in BoardStates /\ Replay(b, l).regs = b.regs
        /\ op = "sysmem_write" =>
             Replay(b, l).smem = [b.smem EXCEPT ![row.index] = row.data] /\ Replay(b, l).sram = b.sram
        /\ op = "sram_write" =>
             Replay(b, l).sram = [b.sram EXCEPT ![row.index] = row.data] /\ Replay(b, l).smem = b.smem
    <3> DEFINE addr == 4 * row.index
               w == row.data
    <3>1. addr \in Nat /\ w \in Nat /\ addr \div 4 = row.index /\ b \in BoardStates
      BY <1>1, <2>2
    <3> HIDE DEF b, addr, w
    <3>2. /\ Replay(b, Line(op, addr, w)) \in BoardStates /\ Replay(b, Line(op, addr, w)).regs = b.regs
          /\ op = "sysmem_write" =>
               /\ Replay(b, Line(op, addr, w)).smem = [b.smem EXCEPT ![addr \div 4] = w]
               /\ Replay(b, Line(op, addr, w)).sram = b.sram
          /\ op = "sram_write" =>
               /\ Replay(b, Line(op, addr, w)).sram = [b.sram EXCEPT ![addr \div 4] = w]
               /\ Replay(b, Line(op, addr, w)).smem = b.smem
      BY <3>1, ReplayWord
    <3>3. QED
      BY <3>1, <3>2 DEF addr, w
  <2> HIDE DEF b, l
  <2>4. Replayed(stim)' \in BoardStates /\ SameRing(Replayed(stim)'.regs, regs')
    BY <1>1, <1>3, <2>1, <2>3
  <2>5. Replayed(stim)'.smem = sysmem' /\ Replayed(stim)'.sram = sram'
    BY <1>1, <1>3, <2>1, <2>3
  <2>6. QED
    BY <1>1, <1>3, <2>4, <2>5 DEF ReplayInv
<1>4. CASE RowSmem /\ ~\E where : Raise(where)
  <2>1. /\ stim' = Append(stim, Line("sysmem_write", 4 * row.index, row.data))
        /\ sysmem' = [sysmem EXCEPT ![row.index] = row.data]
        /\ UNCHANGED <<sram, regs, pc>>
    BY <1>4 DEF RowSmem
  <2>2. QED
    BY <1>3, <2>1
<1>5. CASE RowSram /\ ~\E where : Raise(where)
  <2>1. /\ stim' = Append(stim, Line("sram_write", 4 * row.index, row.data))
        /\ sram' = [sram EXCEPT ![row.index] = row.data]
        /\ UNCHANGED <<sysmem, regs, pc>>
    BY <1>5 DEF RowSram
  <2>2. QED
    BY <1>3, <2>1
<1>6. QED
  BY <1>2, <1>4, <1>5

(* A register row and its line write the same register.                    *)
LEMMA ReplayRegisterRow ==
  ASSUME BoardInv, NEW op \in {"csr_baseaddr", "csr_ringlen"},
         NEW register \in {"BASEADDR", "RINGLEN"}, RowCsr(op, register)
  PROVE  ReplayInv'
<1> DEFINE data == Head(rows).data
           b == Replayed(stim)
           l == Line("csr_write", register, data)
<1>1. /\ pc = "setup" /\ data \in Nat /\ regs \in Registers
      /\ stim \in Seq(Lines) /\ b \in BoardStates /\ SameRing(b.regs, regs)
      /\ b.smem = sysmem /\ b.sram = sram
  BY NextRow, ScenarioAssumption DEF BoardInv, GoldenInv, DrainInv, Stored, RingInv, ReplayInv, RowCsr, Row
<1>2. stim' = Append(stim, l) /\ regs' = Csr!Write(regs, register, data) /\ UNCHANGED <<sysmem, sram, pc>>
  BY DEF RowCsr
<1>3. Replayed(stim') = Replay(b, l)
  BY <1>1, <1>2, ReplayedLine
<1> HIDE DEF b, data
<1>4. /\ Replay(b, l) \in BoardStates /\ Replay(b, l).smem = b.smem /\ Replay(b, l).sram = b.sram
      /\ Replay(b, l).regs = Csr!Write(b.regs, register, data)
  <2>1. register \in {"BASEADDR", "RINGLEN", "TAIL"} /\ b \in BoardStates /\ data \in Nat
    BY <1>1
  <2>2. QED
    BY <2>1, ReplayRegister, Zenon
<1>5. SameRing(Csr!Write(b.regs, register, data), Csr!Write(regs, register, data))
  <2>1. b.regs \in Registers
    BY <1>1 DEF BoardStates
  <2>2. QED
    BY <1>1, <2>1, SameWritten
<1> HIDE DEF l
<1>6. /\ Replayed(stim)' \in BoardStates /\ Replayed(stim)'.smem = sysmem'
      /\ Replayed(stim)'.sram = sram' /\ SameRing(Replayed(stim)'.regs, regs')
  BY <1>1, <1>2, <1>3, <1>4, <1>5
<1>7. QED
  BY <1>1, <1>2, <1>6 DEF ReplayInv

(* A descriptor row: its four words go where enqueue puts them, and TAIL   *)
(* is written with the value enqueue has left in it.                       *)
LEMMA ReplayDescriptorRow ==
  ASSUME BoardInv, RowDesc
  PROVE  ReplayInv'
<1> DEFINE d == Head(rows).desc
           slot == SlotAddress(regs.TAIL)
           tail == (regs.TAIL + 1) % regs.RINGLEN
           b == Replayed(stim)
           f == slot \div 4
<1>1. /\ pc = "setup" /\ d \in Descriptors /\ regs \in Registers
      /\ sysmem \in [0 .. SMEM_WORDS - 1 -> Nat] /\ SMEM_WORDS \in Nat
      /\ stim \in Seq(Lines) /\ b \in BoardStates /\ SameRing(b.regs, regs)
      /\ b.smem = sysmem /\ b.sram = sram
  BY NextRow, ScenarioAssumption, GoldenAssumption
     DEF BoardInv, GoldenInv, DrainInv, Stored, RingInv, ReplayInv, RowDesc, Row, Descriptors
<1>2. CASE EnqueueFails(slot)
  <2>1. UNCHANGED <<stim, initial>> /\ pc' = "raised"
    BY <1>2 DEF RowDesc, Raise, results
  <2>2. QED
    BY <2>1, ReplayKeeps DEF BoardInv
<1>3. CASE ~EnqueueFails(slot)
  <2>1. /\ regs' = Csr!Write(regs, "TAIL", tail)
        /\ sysmem' = WriteWords(sysmem, f, d)
        /\ stim' = stim \o DescriptorLines(slot, d, regs'.TAIL)
        /\ UNCHANGED <<sram, pc>>
    BY <1>3 DEF RowDesc, Enqueue
  <2>2. slot \in Nat /\ tail \in Nat
    <3>1. regs.RINGLEN \in Nat /\ regs.RINGLEN > 0 /\ regs.BASEADDR \in Nat /\ regs.TAIL \in Nat
      BY <1>1, <1>3 DEF EnqueueFails, Registers
    <3>2. QED
      BY <3>1 DEF SlotAddress, DESCRIPTOR_SIZE_BYTES
  <2>3. regs'.TAIL = tail
    BY <1>1, <2>1, <2>2, Written
  <2> HIDE DEF d, slot, tail
  <2> DEFINE L(i) == Line("sysmem_write", slot + 4 * (i - 1), d[i])
             last == Line("csr_write", "TAIL", tail)
             new == DescriptorLines(slot, d, tail)
  <2>4. \A i \in 1 .. 4 : L(i) \in Lines /\ d[i] \in Nat /\ slot + 4 * (i - 1) \in Nat
    <3>1. "sysmem_write" \in LineOps /\ \A i \in 1 .. 4 : slot + 4 * (i - 1) \in LineAddrs
      BY <2>2 DEF LineOps, LineAddrs
    <3>2. \A i \in 1 .. 4 : d[i] \in Nat /\ slot + 4 * (i - 1) \in Nat
      BY <1>1, <2>2 DEF Descriptors, DESC_WORDS
    <3>3. QED
      BY <3>1, <3>2, LineFields
  <2>5. last \in Lines
    <3>1. "csr_write" \in LineOps /\ "TAIL" \in LineAddrs
      BY DEF LineOps, LineAddrs
    <3>2. QED
      BY <2>2, <3>1, LineFields
  <2>6. new \in Seq(Lines) /\ Len(new) = 5 /\ new[5] = last /\ \A i \in 1 .. 4 : new[i] = L(i)
    <3> HIDE DEF L, last
    <3> DEFINE words == [i \in 1 .. 4 |-> L(i)]
               end == <<last>>
    <3>1. words \in Seq(Lines) /\ Len(words) = 4 /\ \A i \in 1 .. 4 : words[i] = L(i)
      BY <2>4
    <3>2. end \in Seq(Lines) /\ Len(end) = 1 /\ end[1] = last
      BY <2>5
    <3>3. new = words \o end
      BY DEF DescriptorLines, DESC_WORDS, L, last
    <3> HIDE DEF words, end, new
    <3>4. /\ new \in Seq(Lines) /\ Len(new) = Len(words) + Len(end)
          /\ \A i \in 1 .. Len(words) + Len(end) :
               new[i] = IF i <= Len(words) THEN words[i] ELSE end[i - Len(words)]
      BY <3>1, <3>2, <3>3, ConcatProperties
    <3>5. QED
      BY <3>1, <3>2, <3>4
  <2> DEFINE b1 == Replay(b, L(1))
             b2 == Replay(b1, L(2))
             b3 == Replay(b2, L(3))
             b4 == Replay(b3, L(4))
             b5 == Replay(b4, last)
  <2>7. Replayed(stim') = b5
    <3> HIDE DEF new, last, L
    <3>1. stim' = stim \o new
      BY <2>1, <2>3 DEF new
    <3>2. Replayed(stim \o new) =
            Replay(Replay(Replay(Replay(Replay(Replayed(stim), new[1]), new[2]), new[3]), new[4]), new[5])
      BY <1>1, <2>6, ReplayedFive
    <3>3. new[1] = L(1) /\ new[2] = L(2) /\ new[3] = L(3) /\ new[4] = L(4)
      BY <2>6
    <3>4. QED
      BY <2>6, <3>1, <3>2, <3>3
  <2>8. ASSUME NEW c \in BoardStates, NEW i \in 1 .. 4
        PROVE  /\ Replay(c, L(i)) \in BoardStates /\ Replay(c, L(i)).regs = c.regs
               /\ Replay(c, L(i)).smem = [c.smem EXCEPT ![f + (i - 1)] = d[i]]
               /\ Replay(c, L(i)).sram = c.sram
    <3> DEFINE addr == slot + 4 * (i - 1)
               w == d[i]
    <3>1. addr \in Nat /\ w \in Nat /\ addr \div 4 = f + (i - 1)
      <4>1. addr \in Nat /\ w \in Nat
        BY <2>4
      <4>2. addr \div 4 = f + (i - 1)
        <5>1. \A k \in 0 .. 3 : (slot + 4 * k) \div 4 = slot \div 4 + k
          BY <2>2
        <5>2. i - 1 \in 0 .. 3
          OBVIOUS
        <5>3. QED
          BY <5>1, <5>2
      <4>3. QED
        BY <4>1, <4>2
    <3> HIDE DEF addr, w, f
    <3> DEFINE op == "sysmem_write"
    <3>2. op \in {"sysmem_write", "sram_write"} /\ op = "sysmem_write"
      OBVIOUS
    <3> HIDE DEF op
    <3>3. /\ Replay(c, Line(op, addr, w)) \in BoardStates
          /\ Replay(c, Line(op, addr, w)).regs = c.regs
          /\ Replay(c, Line(op, addr, w)).smem = [c.smem EXCEPT ![addr \div 4] = w]
          /\ Replay(c, Line(op, addr, w)).sram = c.sram
      BY <3>1, <3>2, ReplayWord
    <3>4. QED
      BY <3>1, <3>3 DEF addr, w, op
  <2> HIDE DEF L, last, f, b
  <2>9. 1 \in 1 .. 4 /\ 2 \in 1 .. 4 /\ 3 \in 1 .. 4 /\ 4 \in 1 .. 4 /\ b \in BoardStates
    BY <1>1
  <2>10. /\ b1 \in BoardStates /\ b1.regs = b.regs /\ b1.sram = b.sram
         /\ b1.smem = [b.smem EXCEPT ![f + (1 - 1)] = d[1]]
    BY <2>8, <2>9, Zenon
  <2> HIDE DEF b1
  <2>11. /\ b2 \in BoardStates /\ b2.regs = b1.regs /\ b2.sram = b1.sram
         /\ b2.smem = [b1.smem EXCEPT ![f + (2 - 1)] = d[2]]
    BY <2>8, <2>9, <2>10, Zenon
  <2> HIDE DEF b2
  <2>12. /\ b3 \in BoardStates /\ b3.regs = b2.regs /\ b3.sram = b2.sram
         /\ b3.smem = [b2.smem EXCEPT ![f + (3 - 1)] = d[3]]
    BY <2>8, <2>9, <2>11, Zenon
  <2> HIDE DEF b3
  <2>13. /\ b4 \in BoardStates /\ b4.regs = b3.regs /\ b4.sram = b3.sram
         /\ b4.smem = [b3.smem EXCEPT ![f + (4 - 1)] = d[4]]
    BY <2>8, <2>9, <2>12, Zenon
  <2> HIDE DEF b4
  <2>14. b4.smem = WriteWords(sysmem, f, d) /\ b4.regs = b.regs /\ b4.sram = sram
    <3>1. f \in Nat
      BY <2>2, WordIndex DEF f
    <3>2. f + (1 - 1) = f /\ f + (2 - 1) = f + 1 /\ f + (3 - 1) = f + 2 /\ f + (4 - 1) = f + 3
      BY <3>1
    <3>3. /\ b1.smem = [sysmem EXCEPT ![f] = d[1]] /\ b2.smem = [b1.smem EXCEPT ![f + 1] = d[2]]
          /\ b3.smem = [b2.smem EXCEPT ![f + 2] = d[3]] /\ b4.smem = [b3.smem EXCEPT ![f + 3] = d[4]]
      BY <1>1, <2>10, <2>11, <2>12, <2>13, <3>2, Zenon
    <3>4. b4.smem = WriteWords(sysmem, f, d)
      <4> DEFINE m1 == b1.smem
                 m2 == b2.smem
                 m3 == b3.smem
                 m4 == b4.smem
      <4>1. /\ m1 = [sysmem EXCEPT ![f] = d[1]] /\ m2 = [m1 EXCEPT ![f + 1] = d[2]]
            /\ m3 = [m2 EXCEPT ![f + 2] = d[3]] /\ m4 = [m3 EXCEPT ![f + 3] = d[4]]
        BY <3>3
      <4> HIDE DEF m1, m2, m3, m4
      <4>2. m4 = WriteWords(sysmem, f, d)
        BY <1>1, <3>1, <4>1, WriteFour
      <4>3. QED
        BY <4>2 DEF m4
    <3>5. QED
      BY <1>1, <2>10, <2>11, <2>12, <2>13, <3>4
  <2>15. /\ b5 \in BoardStates /\ b5.smem = b4.smem /\ b5.sram = b4.sram
         /\ b5.regs = Csr!Write(b4.regs, "TAIL", tail)
    <3>1. "TAIL" \in {"BASEADDR", "RINGLEN", "TAIL"}
      OBVIOUS
    <3>2. QED
      BY <2>2, <2>13, <3>1, ReplayRegister, Zenon DEF last
  <2> HIDE DEF b5
  <2>16. SameRing(b5.regs, regs')
    <3>1. b.regs \in Registers
      BY <1>1 DEF BoardStates
    <3>2. SameRing(Csr!Write(b.regs, "TAIL", tail), Csr!Write(regs, "TAIL", tail))
      BY <1>1, <2>2, <3>1, SameWritten
    <3>3. QED
      BY <2>1, <2>14, <2>15, <3>2
  <2>17. /\ Replayed(stim)' \in BoardStates /\ Replayed(stim)'.smem = sysmem'
         /\ Replayed(stim)'.sram = sram' /\ SameRing(Replayed(stim)'.regs, regs')
    BY <2>1, <2>7, <2>14, <2>15, <2>16 DEF f
  <2>18. QED
    BY <1>1, <2>1, <2>17 DEF ReplayInv
<1>4. QED
  BY <1>2, <1>3

(* Every step keeps what the lines give: a row adds its lines, the other   *)
(* steps add none and write none of the three registers.                   *)
LEMMA ReplayStep == BoardInv /\ [Next]_goldenVars => BoardInv'
<1> SUFFICES ASSUME BoardInv, [Next]_goldenVars PROVE BoardInv'
  OBVIOUS
<1>0. GoldenInv' /\ ReplayInv /\ regs \in Registers
  BY RingStep DEF BoardInv, GoldenInv, DrainInv, Stored
<1> SUFFICES ReplayInv'
  BY <1>0 DEF BoardInv
<1>1. ASSUME NEW where, Raise(where) PROVE ReplayInv'
  <2>1. UNCHANGED <<stim, initial>> /\ pc' = "raised"
    BY <1>1 DEF Raise, results
  <2>2. QED
    BY <1>0, <2>1, ReplayKeeps
<1>2. CASE RowEnable
  <2>1. UNCHANGED <<sysmem, sram, stim, initial, pc>> /\ pc = "setup"
    BY <1>2 DEF RowEnable, Row, results
  <2>2. SameRing(regs', regs)
    BY <1>0, <1>2, WrittenCtrl DEF RowEnable, SameRing
  <2>3. QED
    BY <1>0, <2>1, <2>2, ReplayKeeps
<1>3. CASE EndOfRows
  <2>1. /\ pc = "setup" /\ pc' \in {"loop", "done"} /\ UNCHANGED <<regs, stim>>
        /\ initial'.smem = sysmem /\ initial'.sram = sram
    BY <1>3 DEF EndOfRows, Memories, memories
  <2>2. Replayed(stim)' = Replayed(stim)
    BY <2>1
  <2>3. /\ Replayed(stim) \in BoardStates /\ SameRing(Replayed(stim).regs, regs)
        /\ Replayed(stim).smem = sysmem /\ Replayed(stim).sram = sram
    BY <1>0, <2>1 DEF ReplayInv
  <2>4. /\ Replayed(stim)' \in BoardStates /\ SameRing(Replayed(stim)'.regs, regs')
        /\ Replayed(stim)'.smem = initial'.smem /\ Replayed(stim)'.sram = initial'.sram
    BY <2>1, <2>2, <2>3
  <2>5. pc' # "setup"
    BY <2>1
  <2>6. QED
    BY <2>4, <2>5 DEF ReplayInv
<1>4. CASE RowUnknown
  <2>1. Raise("row")
    BY <1>4 DEF RowUnknown
  <2>2. QED
    BY <1>1, <2>1
<1>5. ASSUME EventLoop PROVE ReplayInv'
  <2>1. SameRing(regs, regs)
    BY DEF SameRing
  <2>2. CASE \E where : Raise(where)
    BY <1>1, <2>2
  <2>3. CASE Complete /\ ~\E where : Raise(where)
    <3>1. /\ pc = "move" /\ pc' = "loop" /\ UNCHANGED <<stim, initial>>
          /\ regs' = Csr!hw_set_head(regs, NextHead)
      BY <2>3 DEF Complete
    <3>2. SameRing(regs', regs)
      BY <1>0, <3>1 DEF SameRing, Csr!hw_set_head, Registers
    <3>3. QED
      BY <1>0, <3>1, <3>2, ReplayKeeps
  <2>4. CASE ~Complete /\ ~\E where : Raise(where)
    <3>1. /\ pc \in {"loop", "fetch", "move"} /\ pc' \in {"loop", "fetch", "move", "done"}
          /\ UNCHANGED <<regs, stim, initial>>
      BY <1>5, <2>4 DEF EventLoop, Iterate, DescriptorFetch, Decode, AxiMove, SramMove, memories, results
    <3>2. QED
      BY <1>0, <2>1, <3>1, ReplayKeeps
  <2>5. QED
    BY <2>2, <2>3, <2>4
<1>6. CASE UNCHANGED goldenVars
  <2>1. UNCHANGED <<sysmem, sram, regs, stim, initial, pc>>
    BY <1>6 DEF goldenVars, memories, results
  <2>2. SameRing(regs', regs)
    BY <2>1 DEF SameRing
  <2>3. pc' = "raised" => ReplayInv'
    BY <1>0, <2>1, ReplayKeeps
  <2>4. pc' # "raised" => ReplayInv'
    BY <1>0, <2>1, <2>2, ReplayKeeps
  <2>5. QED
    BY <2>3, <2>4
<1>7. CASE Setup
  <2>1. CASE RowCsr("csr_baseaddr", "BASEADDR") \/ RowCsr("csr_ringlen", "RINGLEN")
    BY <2>1, ReplayRegisterRow
  <2>2. QED
    BY <1>2, <1>3, <1>4, <1>7, <2>1, ReplayMemoryRow, ReplayDescriptorRow DEF Setup
<1>8. QED
  BY <1>5, <1>6, <1>7 DEF Next, Finished

(* No line yet: a board that is all zero, and so is the model.             *)
LEMMA ReplayInit == Init => BoardInv
<1> SUFFICES ASSUME Init PROVE BoardInv
  OBVIOUS
<1>1. stim = <<>> /\ Len(stim) = 0
  BY DEF Init
<1>2. Replayed(stim) = Blank
  BY <1>1, BoardsAre DEF Replayed
<1>3. Blank \in BoardStates
  BY DEF Blank, BoardStates, Registers, Csr!PowerUp
<1>4. Blank.smem = sysmem /\ Blank.sram = sram /\ Blank.regs = regs /\ pc = "setup"
  BY DEF Blank, Init
<1>5. ReplayInv
  BY <1>2, <1>3, <1>4 DEF ReplayInv, SameRing
<1>6. QED
  BY <1>5, RingInit DEF BoardInv

(* stim.txt, sent to a board whose memories are zero, gives the memories   *)
(* the event loop started with and the model's BASEADDR, RINGLEN and TAIL, *)
(* for every scenario and all sizes: rows that write the ring, that        *)
(* reconfigure it behind descriptors and slots that are not aligned        *)
(* included.                                                               *)
THEOREM StimIsFaithful == Spec => []StimReplays
<1>1. BoardInv => StimReplays
  <2> SUFFICES ASSUME BoardInv, pc \in {"loop", "fetch", "move", "done"} PROVE StimReplays
    BY DEF StimReplays
  <2>1. /\ Replayed(stim).smem = initial.smem /\ Replayed(stim).sram = initial.sram
        /\ SameRing(Replayed(stim).regs, regs)
    BY DEF BoardInv, ReplayInv
  <2>2. \A r \in {"BASEADDR", "RINGLEN", "TAIL"} : Replayed(stim).regs[r] = regs[r]
    BY <2>1 DEF SameRing
  <2>3. QED
    BY <2>1, <2>2 DEF StimReplays, Replayed
<1>2. QED
  BY <1>1, ReplayInit, ReplayStep, PTL DEF Spec
=============================================================================
