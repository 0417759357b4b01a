------------------------- MODULE ControlPlaneProofs --------------------------
(***************************************************************************)
(* Theorems about the register side, for every set of words software       *)
(* writes, every ring length and limit, and every pace of the datapath.    *)
(***************************************************************************)
EXTENDS ControlPlane, TLAPS

(* Every step contains one edge of the hardware.                           *)
LEMMA StepIsEdge ==
  ASSUME Next
  PROVE  \E aw_shown, w_shown, bready, rready, ready, as_done \in BOOLEAN, checked \in Outcomes :
           Clock(aw_shown, w_shown, bready, rready, ready, checked, as_done)
<1>1. PICK bready, rready, ready, as_done \in BOOLEAN, checked \in Outcomes :
        \/ \E aw_shown, w_shown \in BOOLEAN :
             Wait(aw_shown, w_shown, bready, rready, ready, checked, as_done)
        \/ Read(bready, rready, ready, checked, as_done)
        \/ Configure(bready, rready, ready, checked, as_done)
        \/ Post(bready, rready, ready, checked, as_done)
        \/ Control(bready, rready, ready, checked, as_done)
        \/ Acknowledge(bready, rready, ready, checked, as_done)
  BY DEF Next
<1>2. \/ \E aw_shown, w_shown \in BOOLEAN :
           Wait(aw_shown, w_shown, bready, rready, ready, checked, as_done)
      \/ Start(bready, rready, ready, checked, as_done)
  BY <1>1, Zenon DEF Read, Configure, Post, Control, Acknowledge
<1>3. \E aw_shown, w_shown \in BOOLEAN :
        Clock(aw_shown, w_shown, bready, rready, ready, checked, as_done)
  BY <1>2, Zenon DEF Wait, Start
<1>4. QED
  BY <1>3

(* Every step keeps the pause visible.                                     *)
LEMMA PauseStep == PauseIsVisible /\ [Next]_vars => PauseIsVisible'
<1> SUFFICES ASSUME PauseIsVisible, [Next]_vars PROVE PauseIsVisible'
  OBVIOUS
<1>1. CASE UNCHANGED vars
  BY <1>1 DEF vars, csrVars, sticky, pulses, rmVars, PauseIsVisible
<1>2. CASE Next
  <2>1. PICK aw_shown, w_shown, bready, rready, ready, as_done \in BOOLEAN, checked \in Outcomes :
          Clock(aw_shown, w_shown, bready, rready, ready, checked, as_done)
    BY <1>2, StepIsEdge
  <2> DEFINE issue == RM!fetch_req_valid /\ ready
             df_error == checked = "bad"
             pulse == irq_clear_pulse("ERROR")
             soft == soft_reset(ar_offer # None)
             b_hs == bvalid /\ bready
  <2>2. RM!Edge(issue, as_done, df_error, ring_mgr_error_clear)
    BY <2>1 DEF Clock, Hardware
  <2>3. /\ reg_status_error' = (~soft /\ (df_error \/ (reg_status_error /\ ~pulse)))
        /\ ring_mgr_error_clear' = (soft \/ (b_hs /\ irq_clear_error_pending))
        /\ irq_clear_error_pending' = (pulse \/ (irq_clear_error_pending /\ ~b_hs))
    BY <2>1 DEF Clock, Hardware, Edge, StickyNext, PulsesNext
  <2>4. soft => reset
    BY DEF soft_reset
  <2>5. int_status_error' => ~reset /\ (int_status_error \/ df_error) /\ ~ring_mgr_error_clear
    BY <2>2 DEF RM!Edge, RM!StatusErrorNext
  <2> HIDE DEF issue, df_error, pulse, soft, b_hs
  <2>6. QED
    BY <2>3, <2>4, <2>5, Zenon DEF PauseIsVisible
<1>3. QED
  BY <1>1, <1>2

(* A paused engine always shows why, whatever is written when, and however *)
(* errors, acknowledgements and resets fall together.                      *)
THEOREM PauseShows == Spec => []PauseIsVisible
<1>1. Init => PauseIsVisible
  BY DEF Init, PauseIsVisible
<1>2. QED
  BY <1>1, PauseStep, PTL DEF Spec
-----------------------------------------------------------------------------
(* The write in progress, offered or captured.                             *)

Addr == IF aw_offer # None THEN aw_offer ELSE awaddr
Data == IF w_offer # None THEN w_offer ELSE wdata

NoWrite == aw_offer = None /\ awaddr = None /\ w_offer = None /\ wdata = None

WordFor(addr, word) ==
  \/ addr \in {"RINGLEN", "TAIL"} /\ word \in Nat
  \/ addr = "CTRL" /\ word \in CtrlWords
  \/ addr = "IRQ_CLEAR" /\ word \in ClearWords

OneWrite ==
  /\ aw_offer = None \/ awaddr = None
  /\ w_offer = None \/ wdata = None
  /\ WordFor(Addr, Data)
  /\ ~bvalid /\ ar_offer = None /\ ~rvalid

(* One access at a time; while RESET is up no write has been captured, so  *)
(* none can commit before the soft reset.                                  *)
BusInv ==
  /\ NoWrite \/ OneWrite
  /\ bvalid => ar_offer = None /\ ~rvalid
  /\ reset => awaddr = None /\ wdata = None
  /\ reg_ringlen \in Nat /\ reg_tail \in Nat /\ reg_ctrl \in SUBSET CtrlBits

(* The registers at an edge.                                               *)
LEMMA RegistersStep ==
  ASSUME BusInv, RegistersNext(ar_offer # None)
  PROVE  reg_ringlen' \in Nat /\ reg_tail' \in Nat /\ reg_ctrl' \in SUBSET CtrlBits
<1>1. CASE soft_reset(ar_offer # None)
  BY <1>1 DEF RegistersNext
<1>2. CASE ~soft_reset(ar_offer # None)
  <2>1. commit => aw_offer = None /\ w_offer = None /\ WordFor(awaddr, wdata)
    BY DEF commit, aw_pending, w_pending, BusInv, NoWrite, OneWrite, Addr, Data
  <2>2. QED
    BY <1>2, <2>1, ControlAssumption DEF RegistersNext, Writes, WordFor, BusInv
<1>3. QED
  BY <1>1, <1>2

(* A write in progress is committed, or goes on.                           *)
LEMMA WaitWrite ==
  ASSUME BusInv, NEW aw_shown \in BOOLEAN, NEW w_shown \in BOOLEAN, NEW bready \in BOOLEAN,
         aw_shown => aw_offer # None, w_shown => w_offer # None,
         WriteChannelNext(Offered(aw_offer, aw_shown), Offered(w_offer, w_shown), bready),
         aw_offer' = Left(aw_offer, aw_shown, awready),
         w_offer' = Left(w_offer, w_shown, wready)
  PROVE  /\ commit => NoWrite'
         /\ ~commit => Addr' = Addr /\ Data' = Data
         /\ ~commit => (aw_offer' = None \/ awaddr' = None) /\ (w_offer' = None \/ wdata' = None)
         /\ NoWrite => NoWrite'
<1>1. CASE NoWrite
  BY <1>1 DEF NoWrite, commit, aw_pending, w_pending, WriteChannelNext, Offered, Left, Addr, Data
<1>2. CASE OneWrite /\ commit
  BY <1>2 DEF OneWrite, NoWrite, commit, aw_pending, w_pending, WriteChannelNext, Left
<1>3. CASE OneWrite /\ ~commit
  <2>1. Addr' = Addr /\ (aw_offer' = None \/ awaddr' = None)
    BY <1>3 DEF OneWrite, awready, aw_pending, WriteChannelNext, Offered, Left, Addr
  <2>2. Data' = Data /\ (w_offer' = None \/ wdata' = None)
    BY <1>3 DEF OneWrite, wready, w_pending, WriteChannelNext, Offered, Left, Data
  <2>3. NoWrite => NoWrite'
    BY <1>1
  <2>4. QED
    BY <1>3, <2>1, <2>2, <2>3
<1>4. QED
  BY <1>1, <1>2, <1>3 DEF BusInv

(* An access starts when there is none, and after the edge the bus is free. *)
LEMMA StartFree ==
  ASSUME BusInv, NEW bready \in BOOLEAN, NEW rready \in BOOLEAN, NEW ready \in BOOLEAN,
         NEW as_done \in BOOLEAN, NEW checked \in Outcomes,
         Start(bready, rready, ready, checked, as_done)
  PROVE  /\ NoWrite /\ ar_offer = None /\ ~commit
         /\ awaddr' = None /\ wdata' = None /\ ~bvalid' /\ ~rvalid'
         /\ RegistersNext(ar_offer # None)
<1>1. NoWrite /\ ar_offer = None /\ (bvalid => bready) /\ (rvalid => rready)
  BY DEF Start, Free, NoWrite, aw_pending, w_pending
<1>2. /\ WriteChannelNext(None, None, bready)
      /\ ReadChannelNext(ar_offer, rready, StatusBits, head)
      /\ RegistersNext(ar_offer # None)
  BY DEF Start, Clock, Hardware, Edge, Offered
<1>3. ~commit
  BY <1>1 DEF commit, NoWrite, aw_pending
<1>4. awaddr' = None /\ wdata' = None /\ ~bvalid'
  BY <1>1, <1>2, <1>3 DEF WriteChannelNext, NoWrite
<1>5. ~rvalid'
  BY <1>1, <1>2 DEF ReadChannelNext
<1>6. QED
  BY <1>1, <1>2, <1>3, <1>4, <1>5

(* A step that leaves the bus alone keeps its invariant.                   *)
LEMMA BusWait ==
  ASSUME BusInv, NEW aw_shown \in BOOLEAN, NEW w_shown \in BOOLEAN, NEW bready \in BOOLEAN,
         NEW rready \in BOOLEAN, NEW ready \in BOOLEAN, NEW as_done \in BOOLEAN, NEW checked \in Outcomes,
         Wait(aw_shown, w_shown, bready, rready, ready, checked, as_done)
  PROVE  /\ BusInv'
         /\ commit => NoWrite'
         /\ ~commit => Addr' = Addr /\ Data' = Data
<1>1. /\ WriteChannelNext(Offered(aw_offer, aw_shown), Offered(w_offer, w_shown), bready)
      /\ ReadChannelNext(ar_offer, rready, StatusBits, head)
      /\ RegistersNext(ar_offer # None)
      /\ ar_offer' = Left(ar_offer, TRUE, arready)
  BY DEF Wait, Clock, Hardware, Edge
<1>2. /\ commit => NoWrite'
      /\ ~commit => Addr' = Addr /\ Data' = Data
      /\ ~commit => (aw_offer' = None \/ awaddr' = None) /\ (w_offer' = None \/ wdata' = None)
      /\ NoWrite => NoWrite'
  BY <1>1, WaitWrite DEF Wait, Clock
<1>3. ar_offer = None /\ ~rvalid => ar_offer' = None /\ ~rvalid'
  BY <1>1 DEF ReadChannelNext, Left
<1>4. bvalid' => commit \/ bvalid
  BY <1>1 DEF WriteChannelNext
<1>5. NoWrite' \/ OneWrite'
  <2>1. CASE NoWrite \/ commit
    BY <2>1, <1>2
  <2>2. CASE OneWrite /\ ~commit
    <3>1. ~bvalid' /\ ar_offer' = None /\ ~rvalid'
      BY <2>2, <1>3, <1>4 DEF OneWrite
    <3>2. WordFor(Addr', Data')
      BY <2>2, <1>2 DEF OneWrite
    <3>3. QED
      BY <2>2, <1>2, <3>1, <3>2 DEF OneWrite, WordFor
  <2>3. QED
    BY <2>1, <2>2 DEF BusInv
<1>6. bvalid' => ar_offer' = None /\ ~rvalid'
  <2>1. commit => OneWrite
    BY DEF commit, aw_pending, BusInv, NoWrite
  <2>2. QED
    BY <1>3, <1>4, <2>1 DEF BusInv, OneWrite
<1>7. reset' => awaddr' = None /\ wdata' = None
  <2> SUFFICES ASSUME reset' PROVE NoWrite'
    BY DEF NoWrite
  <2>1. CASE commit
    BY <2>1, <1>2
  <2>2. CASE ~commit
    <3>1. reset /\ ~soft_reset(ar_offer # None)
      BY <1>1, <2>2 DEF RegistersNext, Writes, reset
    <3>2. ~OneWrite
      BY <3>1 DEF soft_reset, OneWrite
    <3>3. QED
      BY <3>2, <1>2 DEF BusInv
  <2>3. QED
    BY <2>1, <2>2
<1>8. QED
  BY <1>1, <1>2, <1>5, <1>6, <1>7, RegistersStep DEF BusInv

(* Every step keeps the bus invariant.                                     *)
LEMMA BusStep == BusInv /\ [Next]_vars => BusInv'
<1> SUFFICES ASSUME BusInv, [Next]_vars PROVE BusInv'
  OBVIOUS
<1>1. CASE UNCHANGED vars
  BY <1>1 DEF vars, csrVars, registers, channels, software, BusInv, NoWrite, OneWrite, Addr, Data, WordFor, reset
<1>2. CASE Next
  <2>1. PICK bready, rready, ready, as_done \in BOOLEAN, checked \in Outcomes :
          \/ \E aw_shown, w_shown \in BOOLEAN :
               Wait(aw_shown, w_shown, bready, rready, ready, checked, as_done)
          \/ Read(bready, rready, ready, checked, as_done)
          \/ Configure(bready, rready, ready, checked, as_done)
          \/ Post(bready, rready, ready, checked, as_done)
          \/ Control(bready, rready, ready, checked, as_done)
          \/ Acknowledge(bready, rready, ready, checked, as_done)
    BY <1>2 DEF Next
  <2>2. CASE \E aw_shown, w_shown \in BOOLEAN :
               Wait(aw_shown, w_shown, bready, rready, ready, checked, as_done)
    BY <2>2, BusWait
  <2>3. CASE Start(bready, rready, ready, checked, as_done)
    <3>1. /\ NoWrite /\ awaddr' = None /\ wdata' = None /\ ~bvalid' /\ ~rvalid'
          /\ reg_ringlen' \in Nat /\ reg_tail' \in Nat /\ reg_ctrl' \in SUBSET CtrlBits
      BY <2>3, StartFree, RegistersStep
    <3>2. CASE Read(bready, rready, ready, checked, as_done)
      BY <3>1, <3>2 DEF Read, BusInv, NoWrite
    <3>3. ASSUME NEW register, NEW word, WordFor(register, word), Write(register, word)
          PROVE  BusInv'
      <4>1. register # None /\ word # None
        BY <3>3, ControlAssumption DEF WordFor
      <4>2. Addr' = register /\ Data' = word /\ ar_offer' = None
        BY <3>3, <4>1 DEF Write, Addr, Data
      <4>3. QED
        BY <3>1, <3>3, <4>2 DEF BusInv, OneWrite, WordFor
    <3>4. CASE Configure(bready, rready, ready, checked, as_done)
      BY <3>3, <3>4, ControlAssumption DEF Configure, WordFor
    <3>5. CASE Post(bready, rready, ready, checked, as_done)
      <4>1. NextSlot \in Nat
        BY DEF NextSlot, BusInv
      <4>2. QED
        BY <3>3, <3>5, <4>1 DEF Post, WordFor
    <3>6. CASE Control(bready, rready, ready, checked, as_done)
      BY <3>3, <3>6 DEF Control, WordFor
    <3>7. CASE Acknowledge(bready, rready, ready, checked, as_done)
      BY <3>3, <3>7 DEF Acknowledge, WordFor
    <3>8. QED
      BY <2>1, <2>2, <3>2, <3>4, <3>5, <3>6, <3>7
  <2>4. QED
    BY <2>1, <2>2, <2>3 DEF Read, Configure, Post, Control, Acknowledge
<1>3. QED
  BY <1>1, <1>2

(* The bus starts idle.                                                    *)
LEMMA BusInit == Init => BusInv
BY DEF Init, csrInit, BusInv, NoWrite, reset, CtrlBits

(* The RESET bit goes down only with everything it is to clear cleared: no *)
(* write of CTRL overtakes the soft reset that waits for the bus.          *)
THEOREM ResetCompletes == Spec => ResetClears
<1>1. BusInv /\ [Next]_vars =>
        [reset /\ ~reset' =>
           /\ reg_ringlen' = 0 /\ reg_tail' = 0 /\ head' = 0
           /\ inflight_count' = 0 /\ ~int_status_error'
           /\ ~reg_status_error' /\ ~reg_irq_empty' /\ ~reg_irq_error']_vars
  <2> SUFFICES ASSUME BusInv, Next, reset, ~reset'
               PROVE  /\ reg_ringlen' = 0 /\ reg_tail' = 0 /\ head' = 0
                      /\ inflight_count' = 0 /\ ~int_status_error'
                      /\ ~reg_status_error' /\ ~reg_irq_empty' /\ ~reg_irq_error'
    OBVIOUS
  <2>1. PICK aw_shown, w_shown, bready, rready, ready, as_done \in BOOLEAN, checked \in Outcomes :
          Clock(aw_shown, w_shown, bready, rready, ready, checked, as_done)
    BY StepIsEdge
  <2>2. /\ RegistersNext(ar_offer # None)
        /\ StickyNext(ar_offer # None, RM!irq_empty_set, checked = "bad")
        /\ RM!Edge(RM!fetch_req_valid /\ ready, as_done, checked = "bad", ring_mgr_error_clear)
    BY <2>1 DEF Clock, Hardware, Edge
  <2>3. ~Writes("CTRL")
    BY DEF BusInv, Writes, commit, aw_pending
  <2>4. soft_reset(ar_offer # None)
    BY <2>2, <2>3 DEF RegistersNext, reset
  <2>5. reg_ringlen' = 0 /\ reg_tail' = 0
    BY <2>2, <2>4 DEF RegistersNext
  <2>6. ~reg_status_error' /\ ~reg_irq_empty' /\ ~reg_irq_error'
    BY <2>2, <2>4 DEF StickyNext
  <2>7. head' = 0 /\ inflight_count' = 0 /\ ~int_status_error'
    BY <2>2 DEF RM!Edge
  <2>8. QED
    BY <2>5, <2>6, <2>7
<1>2. QED
  BY <1>1, BusInit, BusStep, PTL DEF Spec, ResetClears
-----------------------------------------------------------------------------
(* The two copies of the interrupt flags.  CTRL.RESET clears one of them;  *)
(* until software has written IRQ_CLEAR with both bits the other may be up *)
(* alone (Mismatch), with IRQ_EN down and nothing on its way to raise it.  *)

Mismatch == (status_empty /\ ~reg_irq_empty) \/ (status_error /\ ~reg_irq_error)

ClearsBoth == Addr = "IRQ_CLEAR" /\ Data = IrqBits

Enables == Addr = "CTRL" /\ "IRQ_EN" \in Data

PinInv ==
  /\ Addr = "CTRL" /\ "RESET" \in Data => uncleared
  /\ reset => (uncleared \/ ClearsBoth) /\ ~Enables
  /\ Mismatch => ~irq_en /\ ~Enables /\ (uncleared \/ ClearsBoth)

(* A mismatch is an old one that this edge does not clear, or comes from   *)
(* the soft reset; either way IRQ_EN is down after the edge.               *)
LEMMA MismatchStep ==
  ASSUME BusInv, PinInv, Mismatch',
         NEW aw_shown \in BOOLEAN, NEW w_shown \in BOOLEAN, NEW bready \in BOOLEAN,
         NEW rready \in BOOLEAN, NEW ready \in BOOLEAN, NEW as_done \in BOOLEAN, NEW checked \in Outcomes,
         Clock(aw_shown, w_shown, bready, rready, ready, checked, as_done)
  PROVE  ~irq_en' /\ ~Enables /\ (uncleared \/ (ClearsBoth /\ ~commit))
<1> DEFINE soft == soft_reset(ar_offer # None)
           empty_set == RM!irq_empty_set
           error_set == checked = "bad"
           clear(b) == irq_clear_pulse(b)
<1>1. /\ RegistersNext(ar_offer # None)
      /\ reg_irq_empty' = (~soft /\ (empty_set \/ (reg_irq_empty /\ ~clear("EMPTY"))))
      /\ reg_irq_error' = (~soft /\ (error_set \/ (reg_irq_error /\ ~clear("ERROR"))))
      /\ status_empty' = ((irq_en /\ empty_set) \/ (status_empty /\ ~clear("EMPTY")))
      /\ status_error' = ((irq_en /\ error_set) \/ (status_error /\ ~clear("ERROR")))
  BY DEF Clock, Hardware, Edge, StickyNext, Pin!Edge, Pin!StatusNext
<1>2. CASE soft
  <2>1. reset /\ ~commit
    BY <1>2 DEF soft_reset, BusInv, commit, aw_pending
  <2>2. ~irq_en'
    BY <1>1, <1>2 DEF RegistersNext, irq_en
  <2>3. QED
    BY <2>1, <2>2 DEF PinInv
<1>3. CASE ~soft
  <2>1. \/ status_empty /\ ~reg_irq_empty /\ ~clear("EMPTY")
        \/ status_error /\ ~reg_irq_error /\ ~clear("ERROR")
    <3> HIDE DEF soft, empty_set, error_set, clear
    <3>1. QED
      BY <1>1, <1>3, Zenon DEF Mismatch
  <2>2. ~irq_en /\ ~Enables /\ (uncleared \/ ClearsBoth)
    BY <2>1 DEF PinInv, Mismatch
  <2>3. commit => awaddr = Addr /\ wdata = Data
    BY DEF commit, aw_pending, w_pending, BusInv, NoWrite, OneWrite, Addr, Data
  <2>4. ~irq_en'
    BY <1>1, <1>3, <2>2, <2>3 DEF RegistersNext, Writes, irq_en, Enables
  <2>5. ClearsBoth => ~commit
    BY <2>1, <2>3 DEF ClearsBoth, irq_clear_pulse, Writes, IrqBits
  <2>6. QED
    BY <2>2, <2>4, <2>5
<1>4. QED
  BY <1>2, <1>3

(* A step that leaves the interrupt alone keeps its invariant.             *)
LEMMA PinWait ==
  ASSUME BusInv, PinInv, NEW aw_shown \in BOOLEAN, NEW w_shown \in BOOLEAN, NEW bready \in BOOLEAN,
         NEW rready \in BOOLEAN, NEW ready \in BOOLEAN, NEW as_done \in BOOLEAN, NEW checked \in Outcomes,
         Wait(aw_shown, w_shown, bready, rready, ready, checked, as_done)
  PROVE  PinInv'
<1>1. /\ commit => NoWrite'
      /\ ~commit => Addr' = Addr /\ Data' = Data
      /\ uncleared' = uncleared
  BY BusWait DEF Wait
<1>2. commit => Addr' = None
  BY <1>1 DEF NoWrite, Addr
<1>3. None # "CTRL" /\ None # "IRQ_CLEAR"
  BY ControlAssumption
<1>4. ~Enables => ~Enables'
  BY <1>1, <1>2, <1>3 DEF Enables
<1>5. ClearsBoth /\ ~commit => ClearsBoth'
  BY <1>1 DEF ClearsBoth
<1>6. (Addr = "CTRL" /\ "RESET" \in Data)' => uncleared'
  BY <1>1, <1>2, <1>3 DEF PinInv
<1>7. reset' => (uncleared' \/ ClearsBoth') /\ ~Enables'
  <2>1. RegistersNext(ar_offer # None)
    BY DEF Wait, Clock, Hardware, Edge
  <2>2. CASE commit
    <3>1. awaddr = Addr /\ wdata = Data
      BY <2>2 DEF commit, aw_pending, w_pending, BusInv, NoWrite, OneWrite, Addr, Data
    <3>2. ~Enables'
      BY <2>2, <1>2, <1>3 DEF Enables
    <3>3. ~reset
      BY <2>2 DEF commit, aw_pending, BusInv
    <3>4. reset' => Addr = "CTRL" /\ "RESET" \in Data
      BY <2>1, <2>2, <3>1, <3>3 DEF RegistersNext, Writes, reset
    <3>5. QED
      BY <1>1, <3>2, <3>4 DEF PinInv
  <2>3. CASE ~commit
    <3>1. reset' => reset
      BY <2>1, <2>3 DEF RegistersNext, Writes, reset
    <3>2. QED
      BY <1>1, <1>4, <1>5, <2>3, <3>1 DEF PinInv
  <2>4. QED
    BY <2>2, <2>3
<1>8. Mismatch' => ~irq_en' /\ ~Enables' /\ (uncleared' \/ ClearsBoth')
  <2>1. Mismatch' => ~irq_en' /\ ~Enables /\ (uncleared \/ (ClearsBoth /\ ~commit))
    BY MismatchStep DEF Wait
  <2>2. QED
    BY <1>1, <1>4, <1>5, <2>1
<1>9. QED
  BY <1>6, <1>7, <1>8 DEF PinInv

(* The start of an access: no write was in progress, so a missing clear is *)
(* still missing, and the new write is no IRQ_EN while it is.              *)
LEMMA PinStart ==
  ASSUME BusInv, PinInv, NEW bready \in BOOLEAN, NEW rready \in BOOLEAN, NEW ready \in BOOLEAN,
         NEW as_done \in BOOLEAN, NEW checked \in Outcomes,
         Start(bready, rready, ready, checked, as_done),
         uncleared => uncleared' \/ ClearsBoth',
         uncleared => ~Enables',
         (Addr = "CTRL" /\ "RESET" \in Data)' => uncleared'
  PROVE  PinInv'
<1>1. NoWrite /\ ~commit /\ RegistersNext(ar_offer # None)
  BY StartFree
<1>2. ~ClearsBoth
  BY <1>1, ControlAssumption DEF NoWrite, ClearsBoth, Addr
<1>3. reset' => reset
  BY <1>1 DEF RegistersNext, Writes, reset
<1>4. reset => uncleared
  BY <1>2 DEF PinInv
<1>5. Mismatch' => ~irq_en' /\ uncleared
  <2> SUFFICES ASSUME Mismatch' PROVE ~irq_en' /\ uncleared
    OBVIOUS
  <2>1. PICK aw_shown \in BOOLEAN, w_shown \in BOOLEAN :
          Clock(aw_shown, w_shown, bready, rready, ready, checked, as_done)
    BY DEF Start
  <2>2. ~irq_en' /\ (uncleared \/ ClearsBoth)
    BY <2>1, MismatchStep
  <2>3. QED
    BY <1>2, <2>2
<1>6. QED
  BY <1>3, <1>4, <1>5 DEF PinInv

(* Every step keeps the interrupt explained.                               *)
LEMMA PinStep == BusInv /\ PinInv /\ [Next]_vars => PinInv'
<1> SUFFICES ASSUME BusInv, PinInv, [Next]_vars PROVE PinInv'
  OBVIOUS
<1>1. CASE UNCHANGED vars
  BY <1>1 DEF vars, csrVars, registers, sticky, channels, software, PinInv, Mismatch, ClearsBoth,
              Enables, Addr, Data, reset, irq_en
<1>2. CASE Next
  <2>1. PICK bready, rready, ready, as_done \in BOOLEAN, checked \in Outcomes :
          \/ \E aw_shown, w_shown \in BOOLEAN :
               Wait(aw_shown, w_shown, bready, rready, ready, checked, as_done)
          \/ Read(bready, rready, ready, checked, as_done)
          \/ Configure(bready, rready, ready, checked, as_done)
          \/ Post(bready, rready, ready, checked, as_done)
          \/ Control(bready, rready, ready, checked, as_done)
          \/ Acknowledge(bready, rready, ready, checked, as_done)
    BY <1>2 DEF Next
  <2>2. CASE \E aw_shown, w_shown \in BOOLEAN :
               Wait(aw_shown, w_shown, bready, rready, ready, checked, as_done)
    BY <2>2, PinWait
  <2>3. CASE Read(bready, rready, ready, checked, as_done)
    <3>1. Addr' = None
      BY <2>3, StartFree DEF Read, Addr, NoWrite
    <3>2. QED
      BY <2>3, <3>1, PinStart, ControlAssumption DEF Read, Enables
  <2>4. ASSUME NEW register, NEW word, WordFor(register, word), Write(register, word)
        PROVE  Addr' = register /\ Data' = word
    BY <2>4, ControlAssumption DEF Write, Addr, Data, WordFor
  <2>5. CASE Configure(bready, rready, ready, checked, as_done)
    <3>1. Addr' = "RINGLEN"
      BY <2>4, <2>5, ControlAssumption DEF Configure, WordFor
    <3>2. QED
      BY <2>5, <3>1, PinStart DEF Configure, Enables
  <2>6. CASE Post(bready, rready, ready, checked, as_done)
    <3>1. NextSlot \in Nat
      BY DEF NextSlot, BusInv
    <3>2. Addr' = "TAIL"
      BY <2>4, <2>6, <3>1 DEF Post, WordFor
    <3>3. QED
      BY <2>6, <3>2, PinStart DEF Post, Enables
  <2>7. CASE Control(bready, rready, ready, checked, as_done)
    <3>1. PICK word \in CtrlWords :
            /\ uncleared => word \in {{}, {"RESET"}}
            /\ Write("CTRL", word)
            /\ uncleared' = (uncleared \/ "RESET" \in word)
      BY <2>7 DEF Control
    <3>2. Addr' = "CTRL" /\ Data' = word
      BY <2>4, <3>1 DEF WordFor
    <3>3. QED
      BY <2>7, <3>1, <3>2, PinStart DEF Control, Enables
  <2>8. CASE Acknowledge(bready, rready, ready, checked, as_done)
    <3>1. PICK word \in ClearWords :
            /\ Write("IRQ_CLEAR", word)
            /\ uncleared' = (uncleared /\ word # IrqBits)
      BY <2>8 DEF Acknowledge
    <3>2. Addr' = "IRQ_CLEAR" /\ Data' = word
      BY <2>4, <3>1 DEF WordFor
    <3>3. QED
      BY <2>8, <3>1, <3>2, PinStart DEF Acknowledge, Enables, ClearsBoth
  <2>9. QED
    BY <2>1, <2>2, <2>3, <2>5, <2>6, <2>7, <2>8
<1>3. QED
  BY <1>1, <1>2

(* The interrupt pin always has a cause that IRQ_STATUS shows, although    *)
(* only one of the two copies of the flags is cleared by CTRL.RESET.       *)
THEOREM PinIsExplained == Spec => []PinHasCause
<1>1. Init => PinInv
  BY ControlAssumption DEF Init, csrInit, Pin!irqInit, PinInv, Mismatch, ClearsBoth, Enables, Addr, reset
<1>2. PinInv => PinHasCause
  BY DEF PinInv, Mismatch, PinHasCause, Pin!irq
<1>3. QED
  BY <1>1, <1>2, PinStep, BusInit, BusStep, PTL DEF Spec
-----------------------------------------------------------------------------
(***************************************************************************)
(* What software may conclude from STATUS, for every ring length, limit on *)
(* descriptors in flight, set of control words and pace of bus and engine. *)
(*                                                                         *)
(* PollSound is not inductive: that the answer stays true until software   *)
(* takes it needs that nothing can be issued in between, hence that no     *)
(* write commits while a read is under way (BusInv), that the in-flight    *)
(* counter and the orphans of the last reset together cover the datapath,  *)
(* and that a RESET, which may come at any time, moves HEAD only before    *)
(* the read can have been sampled.                                         *)
(***************************************************************************)

CountsInv ==
  /\ fetching \in Nat /\ moving \in Nat /\ orphaned \in Nat
  /\ inflight_count \in 0 .. COUNT_RANGE - 1
  /\ orphaned = 0 => inflight_count <= MAX_INFLIGHT
  /\ outstanding <= inflight_count + orphaned

RegistersInv ==
  /\ reg_ringlen \in {0, RingLen}
  /\ IF reg_ringlen = 0 THEN reg_tail = 0 ELSE reg_tail \in 0 .. RingLen - 1
  /\ head \in 0 .. RingLen - 1

(* A RESET that is up has stopped the engine; HEAD is 0 one edge later,    *)
(* before the write response can have been taken.                          *)
ResetInv == reset => ~enable /\ (bvalid \/ head = 0)

(* The write in progress still means what it meant when it was started.    *)
WriteInv ==
  /\ Addr = "RINGLEN" => Data = RingLen
  /\ Addr = "TAIL" => ~reset /\ reg_ringlen = RingLen /\ Data \in 0 .. RingLen - 1

ReadInv ==
  /\ ar_offer = None \/ ar_offer \in Readable
  /\ ctrl_readback = None \/ ctrl_readback \in SUBSET CtrlBits

PlaneInv ==
  BusInv /\ CountsInv /\ RegistersInv /\ ResetInv /\ WriteInv /\ ReadInv /\ PollSound
-----------------------------------------------------------------------------
(* The invariant holds after rst_n.                                        *)
LEMMA PlaneInit == Init => PlaneInv
<1> SUFFICES ASSUME Init PROVE PlaneInv
  OBVIOUS
<1>1. BusInv
  BY BusInit
<1>2. CountsInv /\ RegistersInv
  BY ControlAssumption, SizesAssumption DEF Init, csrInit, CountsInv, RegistersInv, outstanding
<1>3. ResetInv /\ WriteInv /\ ReadInv /\ PollSound
  BY ControlAssumption DEF Init, csrInit, ResetInv, WriteInv, ReadInv, PollSound, reset, Addr
<1> QED BY <1>1, <1>2, <1>3 DEF PlaneInv

(* What the hardware does at an edge, whoever offers what.                 *)
HwEdge ==
  \E aw_shown, w_shown, bready, rready, ready, as_done \in BOOLEAN, checked \in Outcomes :
    Clock(aw_shown, w_shown, bready, rready, ready, checked, as_done)

(* An edge that issues.                                                    *)
LEMMA IssueEdge ==
  ASSUME PlaneInv, NEW ready \in BOOLEAN
  PROVE  RM!fetch_req_valid /\ ready =>
           /\ ~reset /\ enable /\ ~RM!ring_empty /\ reg_ringlen = RingLen
           /\ inflight_count < MAX_INFLIGHT
BY DEF PlaneInv, RM!fetch_req_valid, ResetInv, RegistersInv

(* What one edge of the engine does to the counts.                         *)
LEMMA EngineEdge ==
  ASSUME PlaneInv, HwEdge
  PROVE  /\ CountsInv'
         /\ head' \in 0 .. RingLen - 1
         /\ RM!ring_empty \/ ~enable => outstanding' <= outstanding
         /\ RM!ring_empty /\ ~reset => head' = head
         /\ reset => head' = 0
         /\ orphaned' = IF reset THEN outstanding' ELSE orphaned
<1>0. PICK aw_shown, w_shown, bready, rready, ready, as_done \in BOOLEAN, checked \in Outcomes :
        Clock(aw_shown, w_shown, bready, rready, ready, checked, as_done)
  BY DEF HwEdge
<1> DEFINE issue == RM!fetch_req_valid /\ ready
           i == IF issue THEN 1 ELSE 0
           c == IF checked = "nothing" THEN 0 ELSE 1
           g == IF checked = "good" THEN 1 ELSE 0
           d == IF as_done THEN 1 ELSE 0
<1>1. /\ c <= fetching /\ d <= moving
      /\ fetching' = fetching + i - c /\ moving' = moving + g - d
      /\ RM!Edge(issue, as_done, checked = "bad", ring_mgr_error_clear)
      /\ fetching \in Nat /\ moving \in Nat
      /\ orphaned' = IF reset THEN fetching' + moving' ELSE orphaned
  BY <1>0 DEF outstanding, Clock, Hardware, PlaneInv, CountsInv
<1>2. /\ i \in {0, 1} /\ c \in {0, 1} /\ g \in {0, 1} /\ d \in {0, 1} /\ g <= c
      /\ checked = "bad" => c = 1 /\ g = 0
      /\ checked # "bad" => g = c
      /\ as_done => d = 1
      /\ ~as_done => d = 0
      /\ issue => i = 1
      /\ ~issue => i = 0
  BY DEF Outcomes
<1>3. /\ issue => /\ ~reset /\ enable /\ ~RM!ring_empty /\ reg_ringlen = RingLen
                  /\ inflight_count < MAX_INFLIGHT
  BY IssueEdge
<1>4. /\ inflight_count \in 0 .. COUNT_RANGE - 1 /\ orphaned \in Nat
      /\ fetching + moving <= inflight_count + orphaned
      /\ orphaned = 0 => inflight_count <= MAX_INFLIGHT
      /\ MAX_INFLIGHT \in Nat /\ COUNT_RANGE \in Nat /\ MAX_INFLIGHT < COUNT_RANGE
  BY SizesAssumption DEF PlaneInv, CountsInv, outstanding
<1> HIDE DEF issue, i, c, g, d
<1>6. fetching' \in Nat /\ moving' \in Nat
  BY <1>1, <1>2
<1>7. /\ orphaned' \in Nat
      /\ inflight_count' \in 0 .. COUNT_RANGE - 1
      /\ orphaned' = 0 => inflight_count' <= MAX_INFLIGHT
      /\ fetching' + moving' <= inflight_count' + orphaned'
  <2>1. CASE reset
    <3>1. inflight_count' = 0 /\ orphaned' = fetching' + moving'
      BY <1>1, <2>1 DEF RM!Edge
    <3>2. 0 \in 0 .. COUNT_RANGE - 1 /\ 0 <= MAX_INFLIGHT
      BY SizesAssumption
    <3>3. \A m, n \in Nat : m + n \in Nat /\ m + n <= 0 + (m + n)
      OBVIOUS
    <3> QED BY <1>6, <3>1, <3>2, <3>3, Zenon
  <2>2. CASE ~reset
    <3>1. /\ inflight_count' = RM!InflightNext(issue, as_done, checked = "bad")
          /\ orphaned' = orphaned
      BY <1>1, <2>2 DEF RM!Edge
    <3>2. fetching' + moving' = fetching + moving + i - (c - g) - d
      BY <1>1, <1>2
    <3>3. (c - g) + d <= fetching + moving
      BY <1>1, <1>2
    <3>4. CASE issue
      BY <1>1, <1>2, <1>3, <1>4, <3>1, <3>2, <3>4 DEF RM!InflightNext, RM!CountUp
    <3>5. CASE ~issue
      BY <1>1, <1>2, <1>4, <3>1, <3>2, <3>3, <3>5 DEF RM!InflightNext, RM!CountDown
    <3> QED BY <3>4, <3>5
  <2> QED BY <2>1, <2>2
<1>8. head' \in 0 .. RingLen - 1 /\ (RM!ring_empty /\ ~reset => head' = head) /\ (reset => head' = 0)
  BY <1>1, <1>3, ControlAssumption, SizesAssumption
     DEF RM!Edge, RM!HeadNext, PlaneInv, RegistersInv
<1>9. RM!ring_empty \/ ~enable => fetching' + moving' <= fetching + moving
  BY <1>1, <1>2, <1>3
<1> QED BY <1>1, <1>6, <1>7, <1>8, <1>9 DEF CountsInv, outstanding

(* The registers at an edge: a soft reset, one write, or nothing.          *)
LEMMA RegistersEdge ==
  ASSUME PlaneInv, RegistersNext(ar_offer # None)
  PROVE  /\ reg_ringlen' \in {0, RingLen}
         /\ IF reg_ringlen' = 0 THEN reg_tail' = 0 ELSE reg_tail' \in 0 .. RingLen - 1
         /\ ~commit /\ ~reset => UNCHANGED registers
         /\ ~commit => reg_ctrl' \in {{}, reg_ctrl}
         /\ commit => Addr = awaddr /\ Data = wdata /\ ~reset /\ ~NoWrite
         /\ reset' /\ ~reset => Writes("CTRL") /\ "RESET" \in wdata /\ "ENABLE" \notin wdata /\ ~enable'
<1>1. commit => Addr = awaddr /\ Data = wdata /\ ~reset /\ ~NoWrite /\ OneWrite
  BY DEF commit, aw_pending, w_pending, PlaneInv, BusInv, NoWrite, OneWrite, Addr, Data
<1>2. RegistersInv /\ WriteInv
  BY DEF PlaneInv
<1>3. /\ reg_ringlen' \in {0, RingLen}
      /\ IF reg_ringlen' = 0 THEN reg_tail' = 0 ELSE reg_tail' \in 0 .. RingLen - 1
  <2>1. CASE soft_reset(ar_offer # None)
    BY <2>1 DEF RegistersNext
  <2>2. CASE ~soft_reset(ar_offer # None)
    <3>1. CASE Writes("RINGLEN")
      BY <1>1, <1>2, <2>2, <3>1, ControlAssumption, SizesAssumption
         DEF RegistersNext, Writes, RegistersInv, WriteInv
    <3>2. CASE Writes("TAIL")
      BY <1>1, <1>2, <2>2, <3>2, ControlAssumption, SizesAssumption
         DEF RegistersNext, Writes, RegistersInv, WriteInv
    <3>3. CASE ~Writes("RINGLEN") /\ ~Writes("TAIL")
      BY <1>2, <2>2, <3>3 DEF RegistersNext, RegistersInv
    <3> QED BY <3>1, <3>2, <3>3
  <2> QED BY <2>1, <2>2
<1>4. /\ ~commit /\ ~reset => UNCHANGED registers
      /\ ~commit => reg_ctrl' \in {{}, reg_ctrl}
  BY DEF RegistersNext, soft_reset, Writes, registers
<1>5. reset' /\ ~reset => Writes("CTRL") /\ "RESET" \in wdata /\ "ENABLE" \notin wdata /\ ~enable'
  <2> SUFFICES ASSUME reset', ~reset
               PROVE  Writes("CTRL") /\ "RESET" \in wdata /\ "ENABLE" \notin wdata /\ ~enable'
    OBVIOUS
  <2>1. Writes("CTRL") /\ reg_ctrl' = wdata
    BY DEF RegistersNext, soft_reset, reset
  <2>2. wdata \in CtrlWords
    BY <1>1, <2>1 DEF Writes, OneWrite, WordFor
  <2> QED BY <2>1, <2>2, SizesAssumption DEF reset, enable
<1> QED BY <1>1, <1>3, <1>4, <1>5

(* A RESET stops the engine and keeps it stopped.                          *)
LEMMA ResetEdge ==
  ASSUME PlaneInv, HwEdge
  PROVE  ResetInv'
<1> SUFFICES ASSUME reset' PROVE ~enable' /\ (bvalid' \/ head' = 0)
  BY DEF ResetInv
<1>0. PICK aw_shown, w_shown, bready, rready, ready, as_done \in BOOLEAN, checked \in Outcomes :
        Clock(aw_shown, w_shown, bready, rready, ready, checked, as_done)
  BY DEF HwEdge
<1>1. RegistersNext(ar_offer # None) /\ (commit => bvalid')
  BY <1>0 DEF Clock, Hardware, Edge, WriteChannelNext
<1>2. CASE reset
  <2>1. ~enable /\ head' = 0
    BY <1>2, EngineEdge DEF PlaneInv, ResetInv
  <2>2. ~commit
    BY <1>1, <1>2, RegistersEdge
  <2>3. ~enable'
    BY <1>1, <2>1, <2>2, RegistersEdge DEF enable
  <2> QED BY <2>1, <2>3
<1>3. CASE ~reset
  <2>1. commit /\ ~enable'
    BY <1>1, <1>3, RegistersEdge DEF Writes
  <2> QED BY <1>1, <2>1
<1> QED BY <1>2, <1>3

(* What the read multiplexer returns.                                      *)
LEMMA ReadWord ==
  ASSUME PlaneInv, ar_offer # None
  PROVE  LET word == ReadData(ar_offer, StatusBits, head)
         IN  "RING_EMPTY" \in word /\ "BUSY" \notin word => RM!ring_empty /\ outstanding <= orphaned
<1>1. ar_offer \in {"CTRL", "STATUS", "IRQ_STATUS"}
  BY SizesAssumption DEF PlaneInv, ReadInv
<1>2. CASE ar_offer = "CTRL"
  <2>1. ReadData(ar_offer, StatusBits, head) \in SUBSET CtrlBits
    BY <1>2 DEF ReadData, PlaneInv, ReadInv, BusInv
  <2> QED BY <2>1 DEF CtrlBits
<1>3. CASE ar_offer = "IRQ_STATUS"
  <2>1. ReadData(ar_offer, StatusBits, head) \in SUBSET IrqBits
    BY <1>3 DEF ReadData, irq_status_word
  <2> QED BY <2>1 DEF IrqBits
<1>4. CASE ar_offer = "STATUS"
  <2>1. ReadData(ar_offer, StatusBits, head)
          = StatusBits \cup (IF reg_status_error THEN {"ERROR"} ELSE {})
    BY <1>4 DEF ReadData
  <2>2. /\ "RING_EMPTY" \in ReadData(ar_offer, StatusBits, head) => RM!ring_empty
        /\ "BUSY" \notin ReadData(ar_offer, StatusBits, head) => ~RM!busy
    BY <2>1 DEF StatusBits
  <2>3. ~RM!busy => outstanding <= orphaned
    BY SizesAssumption DEF RM!busy, PlaneInv, CountsInv, outstanding
  <2> QED BY <2>2, <2>3
<1> QED BY <1>1, <1>2, <1>3, <1>4

(* A poll that is under way stays sound over an edge.                      *)
LEMMA PollEdge ==
  ASSUME PlaneInv, HwEdge
  PROVE  PollSound'
<1> SUFFICES ASSUME rvalid', rdata' # None, "RING_EMPTY" \in rdata', "BUSY" \notin rdata'
             PROVE  outstanding' <= orphaned' /\ RM!ring_empty'
  BY DEF PollSound
<1>0. PICK aw_shown, w_shown, bready, rready, ready, as_done \in BOOLEAN, checked \in Outcomes :
        Clock(aw_shown, w_shown, bready, rready, ready, checked, as_done)
  BY DEF HwEdge
<1>1. RegistersNext(ar_offer # None) /\ ReadChannelNext(ar_offer, rready, StatusBits, head)
  BY <1>0 DEF Clock, Hardware, Edge
<1>2. (ar_offer # None \/ rvalid) /\ RM!ring_empty /\ outstanding <= orphaned
  <2>1. CASE ar_offer # None /\ arready
    <3>1. rdata' = ReadData(ar_offer, StatusBits, head)
      BY <1>1, <2>1 DEF ReadChannelNext
    <3> QED BY <2>1, <3>1, ReadWord
  <2>2. CASE ~(ar_offer # None /\ arready)
    <3>1. rvalid /\ rdata' = rdata
      BY <1>1, <2>2 DEF ReadChannelNext
    <3> QED BY <3>1 DEF PlaneInv, PollSound
  <2> QED BY <2>1, <2>2
<1>3. ~commit /\ ~bvalid /\ ~soft_reset(ar_offer # None)
  BY <1>2 DEF PlaneInv, BusInv, OneWrite, NoWrite, commit, aw_pending, soft_reset
<1>4. reg_tail' = reg_tail
  BY <1>1, <1>3 DEF RegistersNext, Writes
<1>5. head' = head
  BY <1>2, <1>3, EngineEdge DEF PlaneInv, ResetInv
<1>6. /\ outstanding \in Nat /\ outstanding' \in Nat /\ orphaned \in Nat
      /\ outstanding' <= outstanding
      /\ orphaned' = IF reset THEN outstanding' ELSE orphaned
  BY <1>2, EngineEdge DEF PlaneInv, CountsInv, outstanding
<1>7. outstanding' <= orphaned'
  <2> DEFINE now == outstanding
             next == outstanding'
  <2>1. /\ now \in Nat /\ next \in Nat /\ orphaned \in Nat
        /\ now <= orphaned /\ next <= now
        /\ orphaned' = IF reset THEN next ELSE orphaned
    BY <1>2, <1>6
  <2> HIDE DEF now, next
  <2>2. next <= orphaned'
    BY <2>1
  <2> QED BY <2>2 DEF next
<1> QED BY <1>2, <1>4, <1>5, <1>7 DEF RM!ring_empty

(* The read channel over an edge.                                          *)
LEMMA ReadbackEdge ==
  ASSUME PlaneInv, HwEdge
  PROVE  ctrl_readback' = None \/ ctrl_readback' \in SUBSET CtrlBits
<1>0. PICK aw_shown, w_shown, bready, rready, ready, as_done \in BOOLEAN, checked \in Outcomes :
        Clock(aw_shown, w_shown, bready, rready, ready, checked, as_done)
  BY DEF HwEdge
<1>1. PulsesNext(ar_offer, bready)
  BY <1>0 DEF Clock, Hardware, Edge
<1>2. Writes("CTRL") => wdata \in SUBSET CtrlBits
  BY ControlAssumption
     DEF Writes, commit, aw_pending, w_pending, PlaneInv, BusInv, NoWrite, OneWrite, WordFor, Addr, Data
<1> QED BY <1>1, <1>2 DEF PulsesNext, PlaneInv, ReadInv

(* Every edge, whatever software does at it.                               *)
LEMMA ClockEdge ==
  ASSUME PlaneInv, HwEdge
  PROVE  /\ CountsInv' /\ RegistersInv' /\ ResetInv' /\ PollSound'
         /\ ctrl_readback' = None \/ ctrl_readback' \in SUBSET CtrlBits
<1>0. PICK aw_shown, w_shown, bready, rready, ready, as_done \in BOOLEAN, checked \in Outcomes :
        Clock(aw_shown, w_shown, bready, rready, ready, checked, as_done)
  BY DEF HwEdge
<1>1. RegistersNext(ar_offer # None)
  BY <1>0 DEF Clock, Hardware, Edge
<1>2. RegistersInv'
  BY <1>1, RegistersEdge, EngineEdge DEF RegistersInv
<1>3. CountsInv'
  BY EngineEdge
<1>4. ResetInv'
  BY ResetEdge
<1>5. PollSound'
  BY PollEdge
<1>6. ctrl_readback' = None \/ ctrl_readback' \in SUBSET CtrlBits
  BY ReadbackEdge
<1> QED BY <1>2, <1>3, <1>4, <1>5, <1>6
-----------------------------------------------------------------------------
(* Software: a write in progress keeps its meaning until it commits.       *)
LEMMA PlaneWait ==
  ASSUME PlaneInv, HwEdge, NEW aw_shown \in BOOLEAN, NEW w_shown \in BOOLEAN, NEW bready \in BOOLEAN,
         NEW rready \in BOOLEAN, NEW ready \in BOOLEAN, NEW as_done \in BOOLEAN, NEW checked \in Outcomes,
         Wait(aw_shown, w_shown, bready, rready, ready, checked, as_done)
  PROVE  PlaneInv'
<1>1. /\ CountsInv' /\ RegistersInv' /\ ResetInv' /\ PollSound'
      /\ ctrl_readback' = None \/ ctrl_readback' \in SUBSET CtrlBits
  BY ClockEdge
<1>2. ReadInv'
  BY <1>1 DEF Wait, Left, ReadInv, PlaneInv
<1>3. /\ BusInv' /\ (commit => NoWrite')
      /\ ~commit => Addr' = Addr /\ Data' = Data
  BY BusWait DEF PlaneInv
<1>4. CASE commit
  <2>1. Addr' = None
    BY <1>3, <1>4 DEF NoWrite, Addr
  <2>2. WriteInv'
    BY <2>1, ControlAssumption DEF WriteInv
  <2> QED BY <1>1, <1>2, <1>3, <2>2 DEF PlaneInv
<1>5. CASE ~commit
  <2>1. ~reset => UNCHANGED registers
    BY <1>5, RegistersEdge DEF Wait, Clock, Hardware, Edge
  <2>2. Addr' = "TAIL" => ~reset' /\ reg_ringlen' = RingLen /\ Data' \in 0 .. RingLen - 1
    BY <1>3, <1>5, <2>1 DEF PlaneInv, WriteInv, registers, reset
  <2>3. Addr' = "RINGLEN" => Data' = RingLen
    BY <1>3, <1>5 DEF PlaneInv, WriteInv
  <2>4. WriteInv'
    BY <2>2, <2>3 DEF WriteInv
  <2> QED BY <1>1, <1>2, <1>3, <2>4 DEF PlaneInv
<1> QED BY <1>4, <1>5

(* The start of an access.                                                 *)
LEMMA PlaneStart ==
  ASSUME PlaneInv, BusInv', HwEdge, NEW bready \in BOOLEAN, NEW rready \in BOOLEAN, NEW ready \in BOOLEAN,
         NEW as_done \in BOOLEAN, NEW checked \in Outcomes,
         Start(bready, rready, ready, checked, as_done)
  PROVE  /\ NoWrite /\ awaddr' = None /\ wdata' = None
         /\ ~reset => UNCHANGED registers
         /\ WriteInv' /\ ar_offer' \in Readable \cup {None} => PlaneInv'
<1>1. /\ CountsInv' /\ RegistersInv' /\ ResetInv' /\ PollSound'
      /\ ctrl_readback' = None \/ ctrl_readback' \in SUBSET CtrlBits
  BY ClockEdge
<1>2. NoWrite /\ ~commit /\ awaddr' = None /\ wdata' = None /\ RegistersNext(ar_offer # None)
  BY StartFree DEF PlaneInv
<1>3. ~reset => UNCHANGED registers
  BY <1>2, RegistersEdge
<1>4. WriteInv' /\ ar_offer' \in Readable \cup {None} => PlaneInv'
  BY <1>1 DEF PlaneInv, ReadInv
<1> QED BY <1>2, <1>3, <1>4

(* Every step keeps the invariant.                                         *)
LEMMA PlaneStep == PlaneInv /\ [Next]_vars => PlaneInv'
<1> SUFFICES ASSUME PlaneInv, [Next]_vars PROVE PlaneInv'
  OBVIOUS
<1>1. CASE UNCHANGED vars
  <2>1. BusInv'
    BY BusStep DEF PlaneInv
  <2>2. CountsInv' /\ RegistersInv' /\ ResetInv'
    BY <1>1 DEF PlaneInv, vars, csrVars, registers, channels, rmVars, datapath, software,
       CountsInv, RegistersInv, ResetInv, outstanding, reset, enable
  <2>3. WriteInv' /\ ReadInv' /\ PollSound'
    BY <1>1 DEF PlaneInv, vars, csrVars, registers, channels, pulses, rmVars, datapath, software,
       WriteInv, ReadInv, PollSound, outstanding, reset, enable, Addr, Data, RM!ring_empty
  <2> QED BY <2>1, <2>2, <2>3 DEF PlaneInv
<1>2. CASE Next
  <2>1. BusInv' /\ HwEdge
    BY <1>2, BusStep, StepIsEdge DEF PlaneInv, HwEdge
  <2>2. PICK bready, rready, ready, as_done \in BOOLEAN, checked \in Outcomes :
          \/ \E aw_shown, w_shown \in BOOLEAN :
               Wait(aw_shown, w_shown, bready, rready, ready, checked, as_done)
          \/ Read(bready, rready, ready, checked, as_done)
          \/ Configure(bready, rready, ready, checked, as_done)
          \/ Post(bready, rready, ready, checked, as_done)
          \/ Control(bready, rready, ready, checked, as_done)
          \/ Acknowledge(bready, rready, ready, checked, as_done)
    BY <1>2 DEF Next
  <2>3. CASE \E aw_shown, w_shown \in BOOLEAN :
               Wait(aw_shown, w_shown, bready, rready, ready, checked, as_done)
    BY <2>1, <2>3, PlaneWait
  <2>4. CASE Read(bready, rready, ready, checked, as_done)
    <3>1. Start(bready, rready, ready, checked, as_done) /\ ar_offer' \in Readable
      BY <2>4 DEF Read
    <3>2. Addr' = None
      BY <2>1, <2>4, <3>1, PlaneStart DEF Read, Addr, NoWrite
    <3>3. WriteInv'
      BY <3>2, ControlAssumption DEF WriteInv
    <3> QED BY <2>1, <3>1, <3>3, PlaneStart
  <2>5. ASSUME NEW register, NEW word, WordFor(register, word), Write(register, word)
        PROVE  Addr' = register /\ Data' = word /\ ar_offer' = None
    BY <2>5, ControlAssumption DEF Write, Addr, Data, WordFor
  <2>6. CASE Configure(bready, rready, ready, checked, as_done)
    <3>1. Addr' = "RINGLEN" /\ Data' = RingLen /\ ar_offer' = None
      BY <2>5, <2>6, ControlAssumption DEF Configure, WordFor
    <3>2. WriteInv'
      BY <3>1 DEF WriteInv
    <3> QED BY <2>1, <2>6, <3>1, <3>2, PlaneStart DEF Configure
  <2>7. CASE Post(bready, rready, ready, checked, as_done)
    <3>1. ~reset /\ reg_ringlen > 0 /\ Write("TAIL", NextSlot)
          /\ Start(bready, rready, ready, checked, as_done)
      BY <2>7 DEF Post
    <3>2. reg_ringlen = RingLen /\ NextSlot \in 0 .. RingLen - 1
      BY <3>1, ControlAssumption, SizesAssumption DEF PlaneInv, RegistersInv, NextSlot
    <3>3. NextSlot \in Nat
      BY <3>2, ControlAssumption
    <3>4. Addr' = "TAIL" /\ Data' = NextSlot /\ ar_offer' = None
      BY <2>5, <3>1, <3>3 DEF WordFor
    <3>5. UNCHANGED registers
      BY <2>1, <3>1, PlaneStart
    <3>6. WriteInv'
      BY <3>1, <3>2, <3>4, <3>5 DEF WriteInv, registers, reset
    <3> QED BY <2>1, <3>1, <3>4, <3>6, PlaneStart
  <2>8. CASE Control(bready, rready, ready, checked, as_done)
    <3>1. PICK word \in CtrlWords : Write("CTRL", word)
      BY <2>8 DEF Control
    <3>2. Start(bready, rready, ready, checked, as_done)
      BY <2>8 DEF Control
    <3>3. Addr' = "CTRL" /\ Data' = word /\ ar_offer' = None
      BY <2>5, <3>1 DEF WordFor
    <3>4. WriteInv'
      BY <3>3 DEF WriteInv
    <3> QED BY <2>1, <3>2, <3>3, <3>4, PlaneStart
  <2>9. CASE Acknowledge(bready, rready, ready, checked, as_done)
    <3>1. PICK word \in ClearWords : Write("IRQ_CLEAR", word)
      BY <2>9 DEF Acknowledge
    <3>2. Start(bready, rready, ready, checked, as_done)
      BY <2>9 DEF Acknowledge
    <3>3. Addr' = "IRQ_CLEAR" /\ ar_offer' = None
      BY <2>5, <3>1 DEF WordFor
    <3>4. WriteInv'
      BY <3>3 DEF WriteInv
    <3> QED BY <2>1, <3>2, <3>3, <3>4, PlaneStart
  <2> QED BY <2>2, <2>3, <2>4, <2>6, <2>7, <2>8, <2>9
<1> QED BY <1>1, <1>2

(* The registers stay in range: RINGLEN and TAIL only hold what software   *)
(* wrote, HEAD stays in the ring, and the in-flight counter stays within   *)
(* its limit unless the last reset left descriptors behind.                *)
THEOREM ControlTypes == Spec => []TypeOK
<1>1. PlaneInv => TypeOK
  BY DEF PlaneInv, BusInv, RegistersInv, CountsInv, TypeOK
<1> QED BY <1>1, PlaneInit, PlaneStep, PTL DEF Spec

(* RING_EMPTY without BUSY in the word software holds means that there is  *)
(* no more in the engine than the last reset left there, when STATUS was   *)
(* sampled and when the word is taken.                                     *)
THEOREM PollIsSound == Spec => []PollSound
<1>1. PlaneInv => PollSound
  BY DEF PlaneInv
<1> QED BY <1>1, PlaneInit, PlaneStep, PTL DEF Spec
=============================================================================
