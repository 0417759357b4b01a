------------------------ MODULE DescriptorRingProofs ------------------------
(***************************************************************************)
(* Theorems about DescriptorRing for every ring length, in-flight limit    *)
(* and set of descriptors, and for resets at any time, with any amount of  *)
(* work in the datapath.                                                   *)
(*                                                                         *)
(* The first part is about the in-flight counter: over an edge without a   *)
(* reset it keeps covering the work it knows of, and an edge with one      *)
(* zeroes it and makes all work an orphan.                                 *)
(*                                                                         *)
(* The second part is about the slots of the ring: software that keeps as  *)
(* many of them free as the ring manager may have descriptors in flight    *)
(* never overwrites one that is still to be fetched (IssuedIntact).  The   *)
(* handles waiting to be fetched name the slots just behind HEAD, the      *)
(* youngest the nearest; together with the descriptors between HEAD and    *)
(* TAIL they fit into the ring.  Software writes at TAIL, which then is    *)
(* neither of them.  And the slots from HEAD to TAIL implement             *)
(* BoundedQueue (RingIsQueue), for every reserve software keeps.           *)
(***************************************************************************)
EXTENDS DescriptorRing, SequenceTheorems, TLAPS

(* What one clock edge does to the typed state, whichever action clocks.   *)
LEMMA ClockTypes ==
  ASSUME TypeOK,
         NEW ready \in BOOLEAN, NEW fetch \in BOOLEAN,
         NEW as_done \in BOOLEAN, NEW error_clear \in BOOLEAN,
         Clock(ready, fetch, as_done, error_clear)
  PROVE  /\ IF ringlen = 0 \/ reset THEN head' = 0 ELSE head' \in 0 .. ringlen - 1
         /\ inflight_count' \in 0 .. COUNT_RANGE - 1
         /\ was_empty' \in BOOLEAN /\ int_status_error' \in BOOLEAN
         /\ issued' \in Seq(Handles)
         /\ moving' \in Nat /\ orphaned' \in Nat
<1> DEFINE issue    == fetch_req_valid /\ ready
           df_error == fetch /\ Fetched \in Bad
<1>1. Edge(issue, as_done, df_error, error_clear) /\ DatapathMoves(issue, fetch, as_done)
  BY DEF Clock
<1>2. IF ringlen = 0 \/ reset THEN head' = 0 ELSE head' \in 0 .. ringlen - 1
  BY <1>1, RingAssumption DEF TypeOK, Edge, HeadNext, fetch_req_valid
<1>3. inflight_count' \in 0 .. COUNT_RANGE - 1
  BY <1>1, RingAssumption DEF TypeOK, Edge, InflightNext, CountUp, CountDown
<1>4. was_empty' \in BOOLEAN /\ int_status_error' \in BOOLEAN
  BY <1>1 DEF TypeOK, Edge, ring_empty, StatusErrorNext
<1>5. issued' \in Seq(Handles)
  <2>1. fetch => Tail(issued) \in Seq(Handles)
    BY <1>1 DEF TypeOK, DatapathMoves
  <2>2. issue => [slot |-> head, desc |-> memory[head]] \in Handles
    <3> SUFFICES ASSUME issue PROVE [slot |-> head, desc |-> memory[head]] \in Handles
      OBVIOUS
    <3>1. ringlen \in RingLens /\ head \in 0 .. ringlen - 1
      BY DEF TypeOK, fetch_req_valid
    <3>2. head \in Slots
      BY <3>1 DEF Slots
    <3> QED BY <3>2 DEF TypeOK, Handles
  <2> QED BY <1>1, <2>1, <2>2 DEF TypeOK, DatapathMoves
<1>6. moving' \in Nat
  BY <1>1 DEF TypeOK, DatapathMoves
<1>7. orphaned' \in Nat
  <2>1. orphaned' = IF reset THEN outstanding' ELSE orphaned
    BY DEF Clock
  <2>2. outstanding' \in Nat
    BY <1>5, <1>6 DEF outstanding
  <2> QED BY <2>1, <2>2 DEF TypeOK
<1> QED BY <1>2, <1>3, <1>4, <1>5, <1>6, <1>7

(* Every action keeps the types.                                           *)
LEMMA TypePreserved == TypeOK /\ [Next]_vars => TypeOK'
<1> SUFFICES ASSUME TypeOK, [Next]_vars PROVE TypeOK'
  OBVIOUS
<1>1. CASE UNCHANGED vars
  BY <1>1 DEF TypeOK, vars, rm, csr, datapath
<1>2. CASE Next
  <2>1. PICK ready \in BOOLEAN, fetch \in BOOLEAN, as_done \in BOOLEAN :
          \/ Wait(ready, fetch, as_done)
          \/ \E n \in RingLens : Configure(n, ready, fetch, as_done)
          \/ \E d \in Descs : Post(d, ready, fetch, as_done)
          \/ SetEnable(ready, fetch, as_done)
          \/ ClearError(ready, fetch, as_done)
          \/ WriteReset(ready, fetch, as_done)
          \/ HoldReset(ready, fetch, as_done)
          \/ FinishReset(ready, fetch, as_done)
    BY <1>2, Zenon DEF Next
  <2>a. PICK c \in BOOLEAN : Clock(ready, fetch, as_done, c)
    BY <2>1 DEF Wait, Configure, Post, SetEnable, ClearError, WriteReset, HoldReset, FinishReset
  <2>b. /\ IF ringlen = 0 \/ reset THEN head' = 0 ELSE head' \in 0 .. ringlen - 1
        /\ inflight_count' \in 0 .. COUNT_RANGE - 1
        /\ was_empty' \in BOOLEAN /\ int_status_error' \in BOOLEAN
        /\ issued' \in Seq(Handles)
        /\ moving' \in Nat /\ orphaned' \in Nat
    BY <2>a, ClockTypes
  <2>2. CASE Wait(ready, fetch, as_done)
    BY <2>2, <2>b DEF Wait, TypeOK, csr
  <2>3. CASE \E n \in RingLens : Configure(n, ready, fetch, as_done)
    BY <2>3, <2>b, RingAssumption DEF Configure, TypeOK
  <2>4. CASE \E d \in Descs : Post(d, ready, fetch, as_done)
    <3>1. PICK d \in Descs : Post(d, ready, fetch, as_done)
      BY <2>4
    <3>2. ringlen # 0 /\ ringlen \in Nat /\ tail \in 0 .. ringlen - 1
      BY <3>1, RingAssumption DEF Post, TypeOK, pending
    <3>3. memory' \in [Slots -> Descs]
      BY <3>1 DEF Post, TypeOK
    <3>4. tail' \in 0 .. ringlen - 1
      BY <3>1, <3>2 DEF Post, NextSlot
    <3> QED BY <3>1, <3>2, <3>3, <3>4, <2>b DEF Post, TypeOK
  <2>5. CASE SetEnable(ready, fetch, as_done)
    BY <2>5, <2>b DEF SetEnable, TypeOK
  <2>6. CASE ClearError(ready, fetch, as_done)
    BY <2>6, <2>b DEF ClearError, TypeOK, csr
  <2>7. CASE WriteReset(ready, fetch, as_done)
    BY <2>7, <2>b DEF WriteReset, TypeOK
  <2>8. CASE HoldReset(ready, fetch, as_done)
    BY <2>8, <2>b, RingAssumption DEF HoldReset, TypeOK, csr
  <2>9. CASE FinishReset(ready, fetch, as_done)
    BY <2>9, <2>b DEF FinishReset, TypeOK
  <2> QED BY <2>1, <2>2, <2>3, <2>4, <2>5, <2>6, <2>7, <2>8, <2>9
<1> QED BY <1>1, <1>2

(* Reset values have their types.                                          *)
LEMMA InitTyped == Init => TypeOK
<1> SUFFICES ASSUME Init PROVE TypeOK
  OBVIOUS
<1>1. issued \in Seq(Handles)
  BY DEF Init
<1>2. inflight_count \in 0 .. COUNT_RANGE - 1 /\ moving \in Nat /\ orphaned \in Nat
  BY RingAssumption DEF Init
<1>3. /\ was_empty \in BOOLEAN /\ int_status_error \in BOOLEAN
      /\ enable \in BOOLEAN /\ reset \in BOOLEAN
  BY DEF Init
<1>4. ringlen = 0 /\ head = 0 /\ tail = 0 /\ memory \in [Slots -> Descs]
  BY DEF Init
<1> QED BY <1>1, <1>2, <1>3, <1>4 DEF TypeOK

(* Every register keeps a value its width allows, and HEAD and TAIL never  *)
(* leave the ring that RINGLEN describes.                                  *)
THEOREM TypeCorrect == Spec => []TypeOK
<1>1. Init => TypeOK
  BY InitTyped
<1>2. TypeOK /\ [Next]_vars => TypeOK'
  BY TypePreserved
<1> QED BY <1>1, <1>2, PTL DEF Spec
-----------------------------------------------------------------------------
(* How one clock edge changes the number of descriptors the datapath holds. *)
LEMMA OutstandingStep ==
  ASSUME TypeOK,
         NEW ready \in BOOLEAN, NEW fetch \in BOOLEAN,
         NEW as_done \in BOOLEAN, NEW error_clear \in BOOLEAN,
         Clock(ready, fetch, as_done, error_clear)
  PROVE  /\ outstanding \in Nat /\ outstanding' \in Nat
         /\ outstanding' = outstanding
                             + (IF fetch_req_valid /\ ready THEN 1 ELSE 0)
                             - (IF fetch /\ Fetched \in Bad THEN 1 ELSE 0)
                             - (IF as_done THEN 1 ELSE 0)
<1> DEFINE issue == fetch_req_valid /\ ready
           rest  == IF fetch THEN Tail(issued) ELSE issued
<1>1. DatapathMoves(issue, fetch, as_done)
  BY DEF Clock
<1>2. issued' \in Seq(Handles) /\ moving' \in Nat
  BY ClockTypes
<1>3. fetch => issued # <<>> /\ Fetched \in Descs
  <2> SUFFICES ASSUME fetch PROVE issued # <<>> /\ Fetched \in Descs
    OBVIOUS
  <2>1. issued # <<>>
    BY <1>1 DEF DatapathMoves
  <2>2. Head(issued) \in Handles
    BY <2>1 DEF TypeOK
  <2> QED BY <2>1, <2>2 DEF Handles, TypeOK, Fetched
<1>4. rest \in Seq(Handles) /\ Len(rest) = Len(issued) - (IF fetch THEN 1 ELSE 0)
  BY <1>3 DEF TypeOK
<1>5. Len(issued') = Len(rest) + (IF issue THEN 1 ELSE 0)
  <2>1. CASE issue
    <3>1. issued' = Append(rest, [slot |-> head, desc |-> memory[head]])
      BY <1>1, <2>1 DEF DatapathMoves
    <3> QED BY <3>1, <2>1, <1>4
  <2>2. CASE ~issue
    <3>1. issued' = rest
      BY <1>1, <2>2 DEF DatapathMoves
    <3> HIDE DEF issue, rest
    <3> QED BY <3>1, <2>2, <1>4
  <2> QED BY <2>1, <2>2
<1>6. moving' = moving + (IF fetch /\ Fetched \in Good THEN 1 ELSE 0)
                       - (IF as_done THEN 1 ELSE 0)
  BY <1>1 DEF DatapathMoves
<1>7. fetch => (Fetched \in Good <=> ~(Fetched \in Bad))
  BY <1>3, RingAssumption DEF Descs
<1>8. Len(issued) \in Nat /\ moving \in Nat /\ Len(issued') \in Nat
  BY <1>2 DEF TypeOK
<1>9. (IF fetch THEN 1 ELSE 0)
        = (IF fetch /\ Fetched \in Good THEN 1 ELSE 0) + (IF fetch /\ Fetched \in Bad THEN 1 ELSE 0)
  BY <1>7
<1>10. Len(issued') = Len(issued) - (IF fetch THEN 1 ELSE 0) + (IF issue THEN 1 ELSE 0)
  BY <1>4, <1>5, <1>8
<1> DEFINE i == IF issue THEN 1 ELSE 0
           g == IF fetch /\ Fetched \in Good THEN 1 ELSE 0
           b == IF fetch /\ Fetched \in Bad THEN 1 ELSE 0
           d == IF as_done THEN 1 ELSE 0
<1>11. i \in Int /\ g \in Int /\ b \in Int /\ d \in Int
  OBVIOUS
<1>12. Len(issued') = Len(issued) - (g + b) + i /\ moving' = moving + g - d
  BY <1>6, <1>9, <1>10
<1>13. /\ outstanding \in Nat /\ outstanding' \in Nat
       /\ outstanding' = outstanding + i - b - d
  <2> HIDE DEF i, g, b, d
  <2> QED BY <1>2, <1>8, <1>11, <1>12 DEF outstanding
<1> QED BY <1>13

(* What leaves the datapath at an edge was in it before.                   *)
LEMMA LeavesHeld ==
  ASSUME TypeOK,
         NEW ready \in BOOLEAN, NEW fetch \in BOOLEAN,
         NEW as_done \in BOOLEAN, NEW error_clear \in BOOLEAN,
         Clock(ready, fetch, as_done, error_clear)
  PROVE  (IF fetch /\ Fetched \in Bad THEN 1 ELSE 0) + (IF as_done THEN 1 ELSE 0) <= outstanding
<1>1. (fetch => issued # <<>>) /\ (as_done => moving > 0)
  BY DEF Clock, DatapathMoves
<1>2. Len(issued) \in Nat /\ (issued # <<>> => Len(issued) > 0) /\ moving \in Nat
  BY DEF TypeOK
<1> QED BY <1>1, <1>2 DEF outstanding

(* The inductive invariant: the counter covers the datapath but for what a *)
(* reset left, leaves a unit free if that is nothing, and a ring manager   *)
(* in reset offers nothing.                                                *)
FlightInv == TypeOK /\ InflightCovers /\ LeakBounded /\ (reset => ~enable)

(* Without a reset, each way issue, as_done and df_error can coincide      *)
(* keeps the counter at or above the work it knows of and, if there are no *)
(* orphans, within its limit, and an empty datapath below it: what is not  *)
(* counted down was in flight with something else, and both were counted.  *)
LEMMA CounterStep ==
  ASSUME FlightInv, ~reset,
         NEW ready \in BOOLEAN, NEW fetch \in BOOLEAN,
         NEW as_done \in BOOLEAN, NEW error_clear \in BOOLEAN,
         Clock(ready, fetch, as_done, error_clear)
  PROVE  InflightCovers' /\ LeakBounded'
<1> DEFINE issue    == fetch_req_valid /\ ready
           df_error == fetch /\ Fetched \in Bad
<1>1. inflight_count' = InflightNext(issue, as_done, df_error) /\ orphaned' = orphaned
  BY DEF Clock, Edge
<1>2. /\ outstanding \in Nat /\ outstanding' \in Nat
      /\ outstanding' = outstanding + (IF issue THEN 1 ELSE 0)
                                     - (IF df_error THEN 1 ELSE 0)
                                     - (IF as_done THEN 1 ELSE 0)
  BY OutstandingStep DEF FlightInv
<1>3. /\ inflight_count \in Nat /\ orphaned \in Nat
      /\ outstanding <= inflight_count + orphaned
      /\ orphaned = 0 => inflight_count <= MAX_INFLIGHT
      /\ MAX_INFLIGHT \in Nat /\ COUNT_RANGE \in Nat /\ MAX_INFLIGHT < COUNT_RANGE
  BY RingAssumption DEF FlightInv, TypeOK, InflightCovers
<1>4. issue => inflight_count < MAX_INFLIGHT
  BY DEF fetch_req_valid
<1>5. orphaned = 0 => inflight_count - outstanding < MAX_INFLIGHT
  BY DEF FlightInv, LeakBounded
<1>6. (IF df_error THEN 1 ELSE 0) + (IF as_done THEN 1 ELSE 0) <= outstanding
  BY LeavesHeld DEF FlightInv
<1> HIDE DEF issue, df_error
<1>7. InflightCovers'
  <2>1. outstanding' <= inflight_count' + orphaned'
    BY <1>1, <1>2, <1>3, <1>4 DEF InflightNext, CountUp, CountDown
  <2>2. orphaned = 0 => inflight_count' <= MAX_INFLIGHT
    BY <1>1, <1>2, <1>3, <1>4, <1>6 DEF InflightNext, CountUp, CountDown
  <2> QED BY <1>1, <2>1, <2>2 DEF InflightCovers
<1>8. LeakBounded'
  BY <1>1, <1>2, <1>3, <1>4, <1>5, <1>6 DEF LeakBounded, InflightNext, CountUp, CountDown
<1> QED BY <1>7, <1>8

(* A reset turns everything the datapath holds into orphans.               *)
LEMMA ResetEdge ==
  ASSUME TypeOK, reset,
         NEW ready \in BOOLEAN, NEW fetch \in BOOLEAN,
         NEW as_done \in BOOLEAN, NEW error_clear \in BOOLEAN,
         Clock(ready, fetch, as_done, error_clear)
  PROVE  /\ outstanding' \in Nat /\ inflight_count' = 0 /\ orphaned' = outstanding'
         /\ InflightCovers' /\ LeakBounded'
<1>1. outstanding' \in Nat
  BY OutstandingStep
<1>2. inflight_count' = 0 /\ orphaned' = outstanding'
  BY DEF Clock, Edge
<1>3. MAX_INFLIGHT \in Nat /\ 0 < MAX_INFLIGHT
  BY RingAssumption
<1>4. InflightCovers'
  <2>1. \A n, m \in Nat : n <= 0 + n /\ 0 <= m
    OBVIOUS
  <2>2. outstanding' <= 0 + outstanding' /\ 0 <= MAX_INFLIGHT
    BY <1>1, <1>3, <2>1, Zenon
  <2>3. outstanding' <= inflight_count' + orphaned' /\ inflight_count' <= MAX_INFLIGHT
    BY <1>2, <2>2, Zenon
  <2> QED BY <2>3, Zenon DEF InflightCovers
<1>5. LeakBounded'
  BY <1>1, <1>2, <1>3 DEF LeakBounded
<1> QED BY <1>1, <1>2, <1>4, <1>5

(* Every action keeps the counter invariant.                               *)
LEMMA FlightPreserved == FlightInv /\ [Next]_vars => FlightInv'
<1> SUFFICES ASSUME FlightInv, [Next]_vars PROVE FlightInv'
  OBVIOUS
<1>1. TypeOK'
  BY TypePreserved DEF FlightInv
<1>2. CASE UNCHANGED vars
  BY <1>2 DEF vars, rm, csr, datapath, FlightInv, TypeOK, InflightCovers, LeakBounded, outstanding
<1>3. CASE Next
  <2>1. PICK ready \in BOOLEAN, fetch \in BOOLEAN, as_done \in BOOLEAN :
          \/ Wait(ready, fetch, as_done)
          \/ \E n \in RingLens : Configure(n, ready, fetch, as_done)
          \/ \E d \in Descs : Post(d, ready, fetch, as_done)
          \/ SetEnable(ready, fetch, as_done)
          \/ ClearError(ready, fetch, as_done)
          \/ WriteReset(ready, fetch, as_done)
          \/ HoldReset(ready, fetch, as_done)
          \/ FinishReset(ready, fetch, as_done)
    BY <1>3, Zenon DEF Next
  <2>2. PICK c \in BOOLEAN : Clock(ready, fetch, as_done, c)
    BY <2>1 DEF Wait, Configure, Post, SetEnable, ClearError, WriteReset, HoldReset, FinishReset
  <2>3. InflightCovers' /\ LeakBounded'
    BY <2>2, CounterStep, ResetEdge DEF FlightInv
  <2>4. reset' => ~enable'
    <3>1. reset \in BOOLEAN /\ enable \in BOOLEAN /\ (reset => ~enable)
      BY DEF FlightInv, TypeOK
    <3>2. \/ reset' = reset /\ enable' = enable
          \/ reset' = reset /\ ~reset
          \/ enable' = FALSE
      BY <2>1, Zenon
      DEF Wait, Configure, Post, SetEnable, ClearError, WriteReset, HoldReset, FinishReset, csr
    <3> QED BY <3>1, <3>2, Zenon
  <2> QED BY <1>1, <2>3, <2>4 DEF FlightInv
<1> QED BY <1>2, <1>3

(* After power-up nothing is in flight.                                    *)
LEMMA InitFlight == Init => FlightInv
<1> SUFFICES ASSUME Init PROVE FlightInv
  OBVIOUS
<1>1. TypeOK
  BY InitTyped
<1>2. outstanding = 0 /\ inflight_count = 0 /\ orphaned = 0 /\ ~reset
  BY DEF Init, outstanding
<1> QED BY <1>1, <1>2, RingAssumption DEF FlightInv, InflightCovers, LeakBounded

(* The counter invariant always holds.                                     *)
LEMMA FlightInvariant == Spec => []FlightInv
<1>1. Init => FlightInv
  BY InitFlight
<1>2. FlightInv /\ [Next]_vars => FlightInv'
  BY FlightPreserved
<1> QED BY <1>1, <1>2, PTL DEF Spec

(* Whatever issue, as_done and df_error pulses coincide, and whenever      *)
(* software resets, the in-flight counter under-reports the datapath by no *)
(* more than the last reset left there; and after one that left nothing it *)
(* never passes its limit, nor does the datapath.                          *)
THEOREM InflightSound == Spec => []InflightCovers
<1>1. FlightInv => InflightCovers
  BY DEF FlightInv
<1> QED BY <1>1, FlightInvariant, PTL

(* However often pulses coincide, and whatever earlier resets did, an      *)
(* empty datapath can be given work if the last reset left nothing in it.  *)
THEOREM LeakIsBounded == Spec => []LeakBounded
<1>1. FlightInv => LeakBounded
  BY DEF FlightInv
<1> QED BY <1>1, FlightInvariant, PTL

(* RING_EMPTY without BUSY, the condition software polls for, means that   *)
(* the engine holds no more than the last reset left in it.                *)
THEOREM DoneIsSound == Spec => []DoneMeansDone
<1>1. FlightInv => DoneMeansDone
  <2> SUFFICES ASSUME FlightInv, ~busy PROVE outstanding <= orphaned
    BY DEF DoneMeansDone
  <2>1. /\ inflight_count = 0 /\ outstanding <= inflight_count + orphaned
        /\ orphaned \in Nat
    BY DEF FlightInv, TypeOK, InflightCovers, busy
  <2>2. outstanding \in Nat
    BY DEF FlightInv, TypeOK, outstanding
  <2> QED BY <2>1, <2>2
<1> QED BY <1>1, FlightInvariant, PTL

(* Whatever software does, the step is an edge of the ring manager.        *)
LEMMA NextIsClock ==
  ASSUME Next
  PROVE  \E ready, fetch, as_done, c \in BOOLEAN : Clock(ready, fetch, as_done, c)
<1>1. PICK ready \in BOOLEAN, fetch \in BOOLEAN, as_done \in BOOLEAN :
        \/ Wait(ready, fetch, as_done)
        \/ \E n \in RingLens : Configure(n, ready, fetch, as_done)
        \/ \E d \in Descs : Post(d, ready, fetch, as_done)
        \/ SetEnable(ready, fetch, as_done)
        \/ ClearError(ready, fetch, as_done)
        \/ WriteReset(ready, fetch, as_done)
        \/ HoldReset(ready, fetch, as_done)
        \/ FinishReset(ready, fetch, as_done)
  BY DEF Next
<1>2. Clock(ready, fetch, as_done, TRUE) \/ Clock(ready, fetch, as_done, FALSE)
  BY <1>1 DEF Wait, Configure, Post, SetEnable, ClearError, WriteReset, HoldReset, FinishReset
<1> QED BY <1>2

(* While CTRL.RESET is up the datapath only drains, although HEAD stands   *)
(* at a slot and TAIL may name another: RESET was written without ENABLE,  *)
(* and nothing sets ENABLE before the reset is over.                       *)
THEOREM ResetDrains == Spec => ResetOnlyDrains
<1>1. FlightInv /\ [Next]_vars => [reset => outstanding' <= outstanding]_vars
  <2> SUFFICES ASSUME FlightInv, Next, reset PROVE outstanding' <= outstanding
    OBVIOUS
  <2>1. PICK ready \in BOOLEAN, fetch \in BOOLEAN, as_done \in BOOLEAN, c \in BOOLEAN :
          Clock(ready, fetch, as_done, c)
    BY NextIsClock
  <2> DEFINE failed == IF fetch /\ Fetched \in Bad THEN 1 ELSE 0
             done   == IF as_done THEN 1 ELSE 0
  <2>2. /\ outstanding \in Nat /\ outstanding' \in Nat
        /\ outstanding' = outstanding + (IF fetch_req_valid /\ ready THEN 1 ELSE 0)
                                       - failed - done
    BY <2>1, OutstandingStep DEF FlightInv
  <2>3. failed \in 0 .. 1 /\ done \in 0 .. 1
    OBVIOUS
  <2>4. ~fetch_req_valid
    BY DEF FlightInv, fetch_req_valid
  <2> HIDE DEF failed, done
  <2> QED BY <2>2, <2>3, <2>4
<1> QED BY <1>1, FlightInvariant, PTL DEF Spec, ResetOnlyDrains

(* Without rejected descriptors the counter is exact: what it loses it     *)
(* loses to df_error pulses that coincide with an issue or an as_done, or  *)
(* to a reset that left descriptors behind.                                *)
THEOREM ExactWithoutErrors ==
  ASSUME Bad = {} PROVE Spec => []CountIsExact
<1>1. Init => CountIsExact
  BY DEF Init, CountIsExact, outstanding
<1>2. FlightInv /\ CountIsExact /\ [Next]_vars => CountIsExact'
  <2> SUFFICES ASSUME FlightInv, CountIsExact, [Next]_vars PROVE CountIsExact'
    OBVIOUS
  <2>1. CASE UNCHANGED vars
    BY <2>1 DEF vars, rm, datapath, CountIsExact, outstanding
  <2>2. CASE Next
    <3>1. PICK ready \in BOOLEAN, fetch \in BOOLEAN, as_done \in BOOLEAN, c \in BOOLEAN :
            Clock(ready, fetch, as_done, c)
      BY <2>2, NextIsClock
    <3> DEFINE issue == fetch_req_valid /\ ready
               bad   == fetch /\ Fetched \in Bad
    <3>2. /\ outstanding \in Nat /\ outstanding' \in Nat
          /\ outstanding' = outstanding + (IF issue THEN 1 ELSE 0)
                              - (IF bad THEN 1 ELSE 0) - (IF as_done THEN 1 ELSE 0)
      BY <3>1, OutstandingStep DEF FlightInv
    <3>3. /\ ~bad
          /\ (IF bad THEN 1 ELSE 0) + (IF as_done THEN 1 ELSE 0) <= outstanding
      BY <3>1, LeavesHeld DEF FlightInv
    <3>4. issue => inflight_count < MAX_INFLIGHT
      BY DEF fetch_req_valid
    <3>5. CASE reset
      BY <3>1, <3>5, ResetEdge DEF CountIsExact, FlightInv
    <3>6. CASE ~reset
      <4>1. inflight_count' = InflightNext(issue, as_done, bad) /\ orphaned' = orphaned
        BY <3>1, <3>6 DEF Clock, Edge
      <4>2. orphaned = 0 => inflight_count = outstanding
        BY DEF CountIsExact
      <4> HIDE DEF issue, bad
      <4> QED BY <3>2, <3>3, <3>4, <4>1, <4>2, RingAssumption
              DEF CountIsExact, InflightNext, CountUp, CountDown
    <3> QED BY <3>5, <3>6
  <2> QED BY <2>1, <2>2
<1> QED BY <1>1, <1>2, FlightInvariant, PTL DEF Spec
-----------------------------------------------------------------------------
(* The slot j places behind h in a ring of n.                              *)
Back(h, n, j) == IF h >= j THEN h - j ELSE h + n - j

Behind ==
  \A k \in 1 .. Len(issued) : issued[k].slot = Back(head, ringlen, Len(issued) - k + 1)

Room == pending + Len(issued) <= ringlen

Intact == \A k \in 1 .. Len(issued) : memory[issued[k].slot] = issued[k].desc

(* All of it holds unless the last reset left handles of the old ring.     *)
SlotInv == FlightInv /\ (orphaned = 0 => Behind /\ Room /\ Intact)
-----------------------------------------------------------------------------
(* One edge drops the oldest handle, or appends one, or both.              *)
LEMMA IssuedStep ==
  ASSUME TypeOK,
         NEW ready \in BOOLEAN, NEW fetch \in BOOLEAN,
         NEW as_done \in BOOLEAN, NEW error_clear \in BOOLEAN,
         Clock(ready, fetch, as_done, error_clear),
         NEW f, f = IF fetch THEN 1 ELSE 0
  PROVE  /\ Len(issued) \in Nat /\ f <= Len(issued) /\ f \in 0 .. 1
         /\ Len(issued') = Len(issued) - f + (IF fetch_req_valid /\ ready THEN 1 ELSE 0)
         /\ \A k \in 1 .. Len(issued) - f : issued'[k] = issued[k + f]
         /\ fetch_req_valid /\ ready =>
              issued'[Len(issued) - f + 1] = [slot |-> head, desc |-> memory[head]]
<1> DEFINE new  == [slot |-> head, desc |-> memory[head]]
           rest == IF fetch THEN Tail(issued) ELSE issued
<1>1. /\ fetch => issued # <<>>
      /\ issued' = IF fetch_req_valid /\ ready THEN Append(rest, new) ELSE rest
  BY DEF Clock, DatapathMoves
<1>2. issued \in Seq(Handles) /\ Len(issued) \in Nat /\ f <= Len(issued) /\ f \in 0 .. 1
  BY <1>1 DEF TypeOK
<1>3. /\ rest \in Seq(Handles)
      /\ Len(rest) = Len(issued) - f
      /\ \A k \in 1 .. Len(issued) - f : rest[k] = issued[k + f]
  <2>1. CASE fetch
    BY <1>1, <1>2, <2>1
  <2>2. CASE ~fetch
    BY <1>2, <2>2
  <2> QED BY <2>1, <2>2
<1>4. issued' \in Seq(Handles)
  BY ClockTypes
<1> HIDE DEF rest, new
<1>5. CASE fetch_req_valid /\ ready
  <2>1. issued' = Append(rest, new)
    BY <1>1, <1>5
  <2>2. Len(issued') = Len(rest) + 1
    BY <1>3, <2>1
  <2>3. issued'[Len(rest) + 1] = new /\ \A k \in 1 .. Len(rest) : issued'[k] = rest[k]
    BY <1>3, <2>1
  <2> QED BY <1>2, <1>3, <1>5, <2>2, <2>3 DEF new
<1>6. CASE ~(fetch_req_valid /\ ready)
  <2>1. issued' = rest
    BY <1>1, <1>6
  <2> QED BY <1>2, <1>3, <1>6, <2>1
<1> QED BY <1>5, <1>6

(* Issuing moves HEAD one slot on, and every slot behind it one further.   *)
LEMMA BackShifts ==
  ASSUME NEW n \in Nat, NEW h \in 0 .. n - 1, NEW j \in 0 .. n - 1
  PROVE  Back(IF h = n - 1 THEN 0 ELSE h + 1, n, j + 1) = IF j = 0 THEN h ELSE Back(h, n, j)
BY DEF Back

(* The handles stay behind HEAD over an edge without a reset.              *)
LEMMA BehindStep ==
  ASSUME SlotInv, orphaned = 0, ~reset, ringlen' = ringlen,
         NEW ready \in BOOLEAN, NEW fetch \in BOOLEAN,
         NEW as_done \in BOOLEAN, NEW error_clear \in BOOLEAN,
         Clock(ready, fetch, as_done, error_clear)
  PROVE  Behind'
<1> DEFINE issue == fetch_req_valid /\ ready
           f     == IF fetch THEN 1 ELSE 0
           n     == Len(issued)
           m     == Len(issued')
<1>1. /\ n \in Nat /\ f <= n /\ f \in 0 .. 1
      /\ m = n - f + (IF issue THEN 1 ELSE 0)
      /\ \A k \in 1 .. n - f : issued'[k] = issued[k + f]
      /\ issue => issued'[n - f + 1] = [slot |-> head, desc |-> memory[head]]
  BY IssuedStep DEF SlotInv, FlightInv
<1>2. TypeOK /\ Behind /\ head' = HeadNext(issue)
  BY DEF SlotInv, FlightInv, Clock, Edge
<1>3. issue => ringlen \in Nat /\ head \in 0 .. ringlen - 1 /\ n < ringlen
  <2> SUFFICES ASSUME issue
               PROVE  ringlen \in Nat /\ head \in 0 .. ringlen - 1 /\ n < ringlen
    OBVIOUS
  <2>1. ringlen \in Nat /\ head \in 0 .. ringlen - 1 /\ tail \in 0 .. ringlen - 1 /\ head # tail
    BY <1>2, RingAssumption DEF TypeOK, fetch_req_valid, ring_empty
  <2>2. pending \in Nat /\ pending > 0
    BY <2>1 DEF pending
  <2>3. pending + n <= ringlen
    BY DEF SlotInv, Room
  <2> HIDE DEF n
  <2> QED BY <1>1, <2>1, <2>2, <2>3
<1> SUFFICES ASSUME NEW k \in 1 .. m
             PROVE  issued'[k].slot = Back(head', ringlen, m - k + 1)
  BY DEF Behind
<1>4. CASE k <= n - f
  <2>1. issued'[k] = issued[k + f] /\ k + f \in 1 .. n
    BY <1>1, <1>4
  <2>2. issued[k + f].slot = Back(head, ringlen, n - (k + f) + 1)
    BY <1>2, <2>1 DEF Behind
  <2> DEFINE j == n - (k + f) + 1
  <2>3. j \in 1 .. n /\ m - k + 1 = j + (IF issue THEN 1 ELSE 0)
    <3> HIDE DEF f, n, m, issue
    <3> QED BY <1>1, <1>4, <2>1
  <2>4. CASE issue
    <3>1. j \in 0 .. ringlen - 1 /\ j # 0
      <4> HIDE DEF j, n, issue
      <4> QED BY <1>1, <1>3, <2>3, <2>4
    <3>2. head' = IF head = ringlen - 1 THEN 0 ELSE head + 1
      BY <1>2, <2>4 DEF HeadNext
    <3> HIDE DEF j, issue
    <3>3. Back(head', ringlen, j + 1) = Back(head, ringlen, j)
      BY <1>3, <2>4, <3>1, <3>2, BackShifts
    <3> QED BY <2>1, <2>2, <2>3, <2>4, <3>3 DEF j
  <2>5. CASE ~issue
    <3>1. m - k + 1 = j /\ head' = head
      <4>1. head' = head
        BY <1>2, <2>5 DEF HeadNext
      <4> HIDE DEF j, m, issue
      <4> QED BY <4>1, <2>3, <2>5
    <3> QED BY <2>1, <2>2, <3>1
  <2> QED BY <2>4, <2>5
<1>5. CASE k > n - f
  <2>1. issue /\ k = n - f + 1 /\ m - k + 1 = 0 + 1
    <3> HIDE DEF f, n, m, issue
    <3> QED BY <1>1, <1>5
  <2>2. issued'[k].slot = head
    <3>1. issued'[k] = [slot |-> head, desc |-> memory[head]]
      BY <1>1, <2>1
    <3> QED BY <3>1
  <2>3. Back(head', ringlen, 0 + 1) = head
    <3>1. head' = IF head = ringlen - 1 THEN 0 ELSE head + 1
      BY <1>2, <2>1 DEF HeadNext
    <3>2. ringlen \in Nat /\ head \in 0 .. ringlen - 1 /\ 0 \in 0 .. ringlen - 1
      <4> HIDE DEF n, issue
      <4> QED BY <1>1, <1>3, <2>1
    <3> QED BY <3>1, <3>2, BackShifts
  <2> QED BY <2>1, <2>2, <2>3
<1> QED
  <2> HIDE DEF n, f, m
  <2> QED BY <1>1, <1>4, <1>5

(* What the invariant says about the numbers of an edge without a reset.   *)
LEMMA Sizes ==
  ASSUME SlotInv, orphaned = 0
  PROVE  /\ ringlen \in Nat /\ head \in Nat /\ tail \in Nat /\ pending \in Nat
         /\ Len(issued) \in Nat /\ Len(issued) <= MAX_INFLIGHT
         /\ pending + Len(issued) <= ringlen
         /\ ringlen > 0 => head < ringlen /\ tail < ringlen
         /\ ringlen = 0 => head = 0 /\ tail = 0 /\ issued = <<>> /\ ~fetch_req_valid
<1>1. TypeOK /\ InflightCovers /\ Room
  BY DEF SlotInv, FlightInv
<1>2. /\ ringlen \in Nat /\ head \in Nat /\ tail \in Nat
      /\ ringlen > 0 => head < ringlen /\ tail < ringlen
      /\ ringlen = 0 => head = 0 /\ tail = 0
  BY <1>1, RingAssumption DEF TypeOK
<1>3. pending \in Nat
  BY <1>2 DEF pending
<1>4. Len(issued) \in Nat /\ moving \in Nat /\ inflight_count \in Nat /\ MAX_INFLIGHT \in Nat
  BY <1>1, RingAssumption DEF TypeOK
<1>5. Len(issued) <= MAX_INFLIGHT
  <2>1. outstanding <= inflight_count + 0 /\ inflight_count <= MAX_INFLIGHT
    BY <1>1 DEF InflightCovers
  <2> QED BY <1>4, <2>1 DEF outstanding
<1>6. pending + Len(issued) <= ringlen
  BY <1>1 DEF Room
<1>7. ringlen = 0 => Len(issued) = 0
  BY <1>2, <1>3, <1>4, <1>6
<1>8. ringlen = 0 => issued = <<>> /\ ~fetch_req_valid
  BY <1>1, <1>7 DEF TypeOK, fetch_req_valid
<1> QED BY <1>2, <1>3, <1>4, <1>5, <1>6, <1>8

(* Software posts only with RESERVE slots free, and the handles need no    *)
(* more of them than MAX_INFLIGHT.                                         *)
LEMMA RoomStep ==
  ASSUME SlotInv, orphaned = 0, RESERVE >= MAX_INFLIGHT, ~reset, ringlen' = ringlen,
         NEW ready \in BOOLEAN, NEW fetch \in BOOLEAN,
         NEW as_done \in BOOLEAN, NEW error_clear \in BOOLEAN,
         Clock(ready, fetch, as_done, error_clear),
         tail' = tail \/ (pending + RESERVE < ringlen /\ tail' = NextSlot(tail))
  PROVE  Room'
<1> DEFINE issue == fetch_req_valid /\ ready
           n     == Len(issued)
           m     == Len(issued')
<1>1. n \in Nat /\ m \in Nat /\ m <= n + (IF issue THEN 1 ELSE 0)
  <2> DEFINE f == IF fetch THEN 1 ELSE 0
  <2>1. /\ n \in Nat /\ f <= n /\ f \in 0 .. 1
        /\ m = n - f + (IF issue THEN 1 ELSE 0)
    BY IssuedStep DEF SlotInv, FlightInv
  <2> HIDE DEF f, n, m, issue
  <2> QED BY <2>1
<1>2. head' = HeadNext(issue)
  BY DEF Clock, Edge
<1>3. issue => head # tail /\ ringlen > 0
  BY DEF fetch_req_valid, ring_empty
<1>4. /\ ringlen \in Nat /\ head \in Nat /\ tail \in Nat /\ n <= MAX_INFLIGHT
      /\ pending + n <= ringlen
      /\ ringlen > 0 => head < ringlen /\ tail < ringlen
      /\ ringlen = 0 => head = 0 /\ tail = 0
  BY Sizes
<1>5. RESERVE \in Nat /\ MAX_INFLIGHT \in Nat
  BY RingAssumption
<1> HIDE DEF issue, n
<1>6. pending' + m <= ringlen
  <2> HIDE DEF m
  <2>1. CASE tail' = tail
    BY <1>1, <1>2, <1>3, <1>4, <1>5, <2>1 DEF HeadNext, pending
  <2>2. CASE pending + RESERVE < ringlen /\ tail' = NextSlot(tail)
    <3>1. pending + n < ringlen /\ ringlen > 0
      BY <1>1, <1>4, <1>5, <2>2 DEF pending
    <3> QED BY <1>1, <1>2, <1>3, <1>4, <3>1, <2>2 DEF HeadNext, NextSlot, pending
  <2> QED BY <2>1, <2>2
<1> QED BY <1>6 DEF Room

(* What software writes goes to the slot of TAIL, which no handle names.   *)
LEMMA IntactStep ==
  ASSUME SlotInv, orphaned = 0, RESERVE >= MAX_INFLIGHT,
         NEW ready \in BOOLEAN, NEW fetch \in BOOLEAN,
         NEW as_done \in BOOLEAN, NEW error_clear \in BOOLEAN,
         Clock(ready, fetch, as_done, error_clear),
         \/ memory' = memory
         \/ pending + RESERVE < ringlen /\ \E d \in Descs : memory' = [memory EXCEPT ![tail] = d]
  PROVE  Intact'
<1> DEFINE issue == fetch_req_valid /\ ready
           f     == IF fetch THEN 1 ELSE 0
           n     == Len(issued)
           m     == Len(issued')
<1>1. /\ n \in Nat /\ f <= n /\ f \in 0 .. 1
      /\ m = n - f + (IF issue THEN 1 ELSE 0)
      /\ \A k \in 1 .. n - f : issued'[k] = issued[k + f]
      /\ issue => issued'[n - f + 1] = [slot |-> head, desc |-> memory[head]]
  <2>1. TypeOK /\ f = IF fetch THEN 1 ELSE 0
    BY DEF SlotInv, FlightInv
  <2> HIDE DEF f
  <2> QED BY <2>1, IssuedStep
<1>2. TypeOK /\ Behind /\ Intact
  BY DEF SlotInv, FlightInv
<1>3. \A i \in Slots : i # tail => memory'[i] = memory[i]
  BY <1>2 DEF TypeOK
<1>4. \A k \in 1 .. n : memory'[issued[k].slot] = issued[k].desc
  <2> SUFFICES ASSUME NEW k \in 1 .. n PROVE memory'[issued[k].slot] = issued[k].desc
    OBVIOUS
  <2>1. memory[issued[k].slot] = issued[k].desc
    BY <1>2 DEF Intact
  <2>2. CASE memory' = memory
    BY <2>1, <2>2
  <2>3. CASE pending + RESERVE < ringlen
    <3>1. issued[k].slot \in Slots
      <4>1. issued[k] \in Handles
        BY <1>2 DEF TypeOK
      <4> QED BY <4>1 DEF Handles
    <3>2. issued[k].slot = Back(head, ringlen, n - k + 1)
      BY <1>2 DEF Behind
    <3>3. /\ ringlen \in Nat /\ head \in Nat /\ tail \in Nat /\ n \in Nat /\ n <= MAX_INFLIGHT
          /\ ringlen > 0 => head < ringlen /\ tail < ringlen
          /\ ringlen = 0 => head = 0 /\ tail = 0
          /\ RESERVE \in Nat /\ MAX_INFLIGHT \in Nat
      BY Sizes, RingAssumption
    <3>4. issued[k].slot # tail
      <4> HIDE DEF n
      <4> QED BY <2>3, <3>2, <3>3 DEF Back, pending
    <3> QED BY <1>3, <2>1, <3>1, <3>4
  <2> QED BY <2>2, <2>3
<1>5. issue => memory'[head] = memory[head]
  <2> SUFFICES ASSUME issue PROVE memory'[head] = memory[head]
    OBVIOUS
  <2>1. head # tail /\ ringlen \in RingLens /\ head \in 0 .. ringlen - 1
    BY <1>2 DEF fetch_req_valid, ring_empty, TypeOK
  <2>2. head \in Slots
    BY <2>1 DEF Slots
  <2> QED BY <1>3, <2>1, <2>2
<1> SUFFICES ASSUME NEW k \in 1 .. m PROVE memory'[issued'[k].slot] = issued'[k].desc
  BY DEF Intact
<1>6. CASE k <= n - f
  <2>1. issued'[k] = issued[k + f] /\ k + f \in 1 .. n
    BY <1>1, <1>6
  <2> QED BY <1>4, <2>1
<1>7. CASE k > n - f
  <2>1. issue /\ k = n - f + 1
    <3> HIDE DEF f, n, m, issue
    <3> QED BY <1>1, <1>7
  <2>2. issued'[k] = [slot |-> head, desc |-> memory[head]]
    BY <1>1, <2>1
  <2> QED BY <1>5, <2>1, <2>2
<1> QED
  <2> HIDE DEF n, f, m
  <2> QED BY <1>1, <1>6, <1>7

(* With no handle waiting there is nothing to overwrite.                   *)
LEMMA EmptyStep ==
  ASSUME TypeOK', issued' = <<>>
  PROVE  Behind' /\ Room' /\ Intact'
<1>1. Len(issued') = 0
  OBVIOUS
<1>2. pending' <= ringlen' /\ pending' \in Nat
  BY RingAssumption DEF TypeOK, pending
<1> QED BY <1>1, <1>2 DEF Behind, Room, Intact

(* Every action keeps the slots apart.                                     *)
LEMMA SlotPreserved ==
  ASSUME RESERVE >= MAX_INFLIGHT
  PROVE  SlotInv /\ [Next]_vars => SlotInv'
<1> SUFFICES ASSUME SlotInv, [Next]_vars PROVE SlotInv'
  OBVIOUS
<1>1. FlightInv'
  BY FlightPreserved DEF SlotInv
<1>2. TypeOK /\ TypeOK'
  BY <1>1 DEF SlotInv, FlightInv
<1>3. CASE UNCHANGED vars
  BY <1>1, <1>3 DEF vars, rm, csr, datapath, SlotInv, Behind, Room, Intact, pending
<1>4. CASE Next
  <2>1. PICK ready \in BOOLEAN, fetch \in BOOLEAN, as_done \in BOOLEAN :
          \/ Wait(ready, fetch, as_done)
          \/ \E n \in RingLens : Configure(n, ready, fetch, as_done)
          \/ \E d \in Descs : Post(d, ready, fetch, as_done)
          \/ SetEnable(ready, fetch, as_done)
          \/ ClearError(ready, fetch, as_done)
          \/ WriteReset(ready, fetch, as_done)
          \/ HoldReset(ready, fetch, as_done)
          \/ FinishReset(ready, fetch, as_done)
    BY <1>4, Zenon DEF Next
  <2>2. PICK c \in BOOLEAN : Clock(ready, fetch, as_done, c)
    BY <2>1 DEF Wait, Configure, Post, SetEnable, ClearError, WriteReset, HoldReset, FinishReset
  <2>3. CASE issued' = <<>>
    BY <1>1, <1>2, <2>3, EmptyStep DEF SlotInv
  <2>4. CASE reset
    <3> SUFFICES ASSUME orphaned' = 0 PROVE issued' = <<>>
      BY <1>1, <2>3 DEF SlotInv
    <3>1. outstanding' = 0
      BY <1>2, <2>2, <2>4, ResetEdge
    <3> QED BY <1>2, <3>1 DEF TypeOK, outstanding
  <2>5. CASE ~reset /\ issued' # <<>>
    <3> SUFFICES ASSUME orphaned' = 0 PROVE Behind' /\ Room' /\ Intact'
      BY <1>1 DEF SlotInv
    <3>1. orphaned = 0
      BY <2>2, <2>5 DEF Clock
    <3>2. ringlen # 0
      <4> SUFFICES ASSUME ringlen = 0 PROVE FALSE
        OBVIOUS
      <4>1. issued = <<>> /\ ~fetch_req_valid
        BY <3>1, Sizes
      <4>2. issued' = <<>>
        BY <2>2, <4>1 DEF Clock, DatapathMoves
      <4> QED BY <2>5, <4>2
    <3>3. /\ ringlen' = ringlen
          /\ \/ tail' = tail /\ memory' = memory
             \/ /\ pending + RESERVE < ringlen
                /\ tail' = NextSlot(tail)
                /\ \E d \in Descs : memory' = [memory EXCEPT ![tail] = d]
      BY <2>1, <2>5, <3>2
      DEF Wait, Configure, Post, SetEnable, ClearError, WriteReset, HoldReset, FinishReset, csr
    <3>4. Behind'
      BY <2>2, <2>5, <3>1, <3>3, BehindStep
    <3>5. Room'
      BY <2>2, <2>5, <3>1, <3>3, RoomStep
    <3>6. Intact'
      BY <2>2, <3>1, <3>3, IntactStep
    <3> QED BY <3>4, <3>5, <3>6
  <2> QED BY <2>3, <2>4, <2>5
<1> QED BY <1>3, <1>4

(* Software that keeps at least MAX_INFLIGHT slots of the ring free never  *)
(* changes a descriptor that was issued and not fetched yet, although HEAD *)
(* has already passed its slot, unless the last reset left descriptors of  *)
(* the old ring in the datapath.                                           *)
THEOREM ReserveSuffices ==
  ASSUME RESERVE >= MAX_INFLIGHT
  PROVE  Spec => []IssuedIntact
<1>1. Init => SlotInv
  <2> SUFFICES ASSUME Init PROVE SlotInv
    OBVIOUS
  <2>1. FlightInv
    BY InitFlight
  <2>2. issued = <<>> /\ Len(issued) = 0 /\ head = 0 /\ tail = 0 /\ ringlen = 0
    BY DEF Init
  <2> QED BY <2>1, <2>2 DEF SlotInv, Behind, Room, Intact, pending
<1>2. SlotInv /\ [Next]_vars => SlotInv'
  BY SlotPreserved
<1>3. SlotInv => IssuedIntact
  BY DEF SlotInv, Intact, IssuedIntact
<1> QED BY <1>1, <1>2, <1>3, PTL DEF Spec
-----------------------------------------------------------------------------
(* The descriptors between HEAD and TAIL, as a queue.                      *)

(* How many of them there are.                                            *)
Waiting == IF reset THEN 0 ELSE pending

(* PendingDescs element by element; stated as a state formula, so that it  *)
(* can be used of the next state too.                                      *)
WaitingAre ==
  TypeOK => /\ Waiting \in Nat
            /\ PendingDescs \in Seq(Descs) /\ Len(PendingDescs) = Waiting
            /\ \A k \in 1 .. Waiting : PendingDescs[k] = memory[SlotFrom(head, ringlen, k)]

(* Numbers of a ring in use.                                               *)
LEMMA RingNumbers ==
  ASSUME TypeOK
  PROVE  /\ ringlen \in Nat /\ head \in Nat /\ tail \in Nat /\ pending \in Nat
         /\ ringlen = 0 => head = 0 /\ tail = 0 /\ pending = 0
         /\ ringlen # 0 => ringlen \in RingLens /\ head < ringlen /\ tail < ringlen /\ pending < ringlen
<1>1. /\ ringlen \in Nat /\ head \in Nat /\ tail \in Nat
      /\ ringlen = 0 => head = 0 /\ tail = 0
      /\ ringlen # 0 => ringlen \in RingLens /\ head < ringlen /\ tail < ringlen
  BY RingAssumption DEF TypeOK
<1>2. pending \in Nat /\ (ringlen = 0 => pending = 0) /\ (ringlen # 0 => pending < ringlen)
  BY <1>1 DEF pending
<1> QED BY <1>1, <1>2

(* It holds of every typed state, ...                                      *)
LEMMA WaitingNow == WaitingAre
<1> SUFFICES ASSUME TypeOK
             PROVE  /\ Waiting \in Nat
                    /\ PendingDescs \in Seq(Descs) /\ Len(PendingDescs) = Waiting
                    /\ \A k \in 1 .. Waiting : PendingDescs[k] = memory[SlotFrom(head, ringlen, k)]
  BY DEF WaitingAre
<1>1. Waiting \in Nat /\ Waiting <= pending
  BY RingNumbers DEF Waiting
<1> DEFINE word(k) == memory[SlotFrom(head, ringlen, k)]
<1>2. PendingDescs = [k \in 1 .. Waiting |-> word(k)]
  BY DEF PendingDescs, Waiting
<1>3. ASSUME NEW k \in 1 .. Waiting PROVE word(k) \in Descs
  <2>1. ringlen \in RingLens /\ head < ringlen /\ pending < ringlen /\ head \in Nat /\ ringlen \in Nat
        /\ k \in Nat /\ pending \in Nat /\ 1 <= k /\ k <= pending
    BY <1>1, <1>3, RingNumbers
  <2>2. SlotFrom(head, ringlen, k) \in 0 .. ringlen - 1
    BY <2>1 DEF SlotFrom
  <2>3. SlotFrom(head, ringlen, k) \in Slots
    BY <2>1, <2>2 DEF Slots
  <2> QED BY <2>3 DEF TypeOK
<1> HIDE DEF word
<1>4. PendingDescs \in Seq(Descs) /\ Len(PendingDescs) = Waiting
  BY <1>1, <1>2, <1>3
<1>5. \A k \in 1 .. Waiting : PendingDescs[k] = memory[SlotFrom(head, ringlen, k)]
  BY <1>2 DEF word
<1> QED BY <1>1, <1>4, <1>5

(* ... the next one included.                                              *)
LEMMA WaitingNext == WaitingAre'
BY WaitingNow, PTL

(* HEAD moving on shifts the slots by one.                                 *)
LEMMA SlotShifts ==
  ASSUME NEW n \in Nat, NEW h \in 0 .. n - 1, NEW k \in 1 .. n - 1
  PROVE  SlotFrom(IF h = n - 1 THEN 0 ELSE h + 1, n, k) = SlotFrom(h, n, k + 1)
BY DEF SlotFrom

(* The slot of TAIL comes after the waiting ones and is none of them.      *)
LEMMA SlotOfTail ==
  ASSUME TypeOK, ringlen # 0
  PROVE  /\ SlotFrom(head, ringlen, pending + 1) = tail
         /\ \A k \in 1 .. pending : SlotFrom(head, ringlen, k) # tail /\ SlotFrom(head, ringlen, k) \in Slots
<1>1. /\ ringlen \in RingLens /\ ringlen \in Nat
      /\ head \in Nat /\ head < ringlen /\ tail \in Nat /\ tail < ringlen
  BY RingNumbers
<1>2. SlotFrom(head, ringlen, pending + 1) = tail
  BY <1>1 DEF SlotFrom, pending
<1>3. ASSUME NEW k \in 1 .. pending
      PROVE  SlotFrom(head, ringlen, k) # tail /\ SlotFrom(head, ringlen, k) \in 0 .. ringlen - 1
  BY <1>1, <1>3 DEF SlotFrom, pending
<1> QED BY <1>1, <1>2, <1>3 DEF Slots

-----------------------------------------------------------------------------
(* One edge takes the oldest descriptor (i = 1) or none (i = 0).           *)
IssueStep(i) ==
  /\ ~reset /\ ~reset'
  /\ i \in {0, 1} /\ (i = 1 => head # tail)
  /\ head' = (IF i = 1 THEN NextSlot(head) ELSE head)
  /\ ringlen' = ringlen /\ ringlen # 0

(* What the edge leaves of the queue.                                      *)
Rest(i) == IF i = 1 THEN Tail(PendingDescs) ELSE PendingDescs

(* Its length and its elements, seen from the new HEAD.                    *)
LEMMA RestIs ==
  ASSUME TypeOK, NEW i, IssueStep(i)
  PROVE  /\ i \in Nat /\ i <= pending /\ (i = 1 => PendingDescs # <<>>)
         /\ PendingDescs \in Seq(Descs) /\ Len(PendingDescs) = pending
         /\ Rest(i) \in Seq(Descs) /\ Len(Rest(i)) = pending - i
         /\ \A k \in 1 .. pending - i : Rest(i)[k] = memory[SlotFrom(head', ringlen, k)]
<1>1. /\ PendingDescs \in Seq(Descs) /\ Len(PendingDescs) = pending
      /\ \A k \in 1 .. pending : PendingDescs[k] = memory[SlotFrom(head, ringlen, k)]
  BY WaitingNow DEF WaitingAre, Waiting, IssueStep
<1>2. /\ ringlen \in Nat /\ head \in Nat /\ tail \in Nat /\ pending \in Nat
      /\ head < ringlen /\ tail < ringlen /\ pending < ringlen
  BY RingNumbers DEF IssueStep
<1>3. CASE i = 0
  <2>1. head' = head /\ Rest(i) = PendingDescs
    BY <1>3 DEF IssueStep, Rest
  <2> QED BY <1>1, <1>2, <1>3, <2>1
<1>4. CASE i = 1
  <2>1. head' = NextSlot(head) /\ head # tail /\ Rest(i) = Tail(PendingDescs)
    BY <1>4 DEF IssueStep, Rest
  <2>2. pending >= 1
    BY <1>2, <2>1 DEF pending
  <2>3. PendingDescs # <<>>
    BY <1>1, <1>2, <2>2
  <2>4. Rest(i) \in Seq(Descs) /\ Len(Rest(i)) = pending - 1
    BY <1>1, <1>2, <2>1, <2>3
  <2>5. \A k \in 1 .. pending - 1 : Rest(i)[k] = PendingDescs[k + 1]
    BY <1>1, <1>2, <2>1, <2>3
  <2>6. ASSUME NEW k \in 1 .. pending - 1
        PROVE  Rest(i)[k] = memory[SlotFrom(head', ringlen, k)]
    <3>1. k + 1 \in 1 .. pending /\ k \in 1 .. ringlen - 1 /\ head \in 0 .. ringlen - 1
      BY <1>2, <2>6
    <3>2. SlotFrom(head', ringlen, k) = SlotFrom(head, ringlen, k + 1)
      BY <1>2, <2>1, <3>1, SlotShifts DEF NextSlot
    <3> QED BY <1>1, <2>5, <3>1, <3>2
  <2> QED BY <1>1, <1>2, <1>4, <2>2, <2>3, <2>4, <2>6
<1> QED BY <1>3, <1>4 DEF IssueStep

(* Without a post the queue is what was left of it.                        *)
LEMMA NotPosted ==
  ASSUME TypeOK, TypeOK', NEW i, IssueStep(i), tail' = tail, memory' = memory
  PROVE  PendingDescs' = Rest(i)
<1>1. /\ PendingDescs' \in Seq(Descs) /\ Len(PendingDescs') = pending'
      /\ \A k \in 1 .. pending' : PendingDescs'[k] = memory[SlotFrom(head', ringlen, k)]
  BY WaitingNext DEF WaitingAre, Waiting, IssueStep
<1>2. /\ i \in Nat /\ i <= pending
      /\ Rest(i) \in Seq(Descs) /\ Len(Rest(i)) = pending - i
      /\ \A k \in 1 .. pending - i : Rest(i)[k] = memory[SlotFrom(head', ringlen, k)]
  BY RestIs
<1>3. /\ ringlen \in Nat /\ head \in Nat /\ tail \in Nat /\ pending \in Nat
      /\ head < ringlen /\ tail < ringlen /\ pending < ringlen
  BY RingNumbers DEF IssueStep
<1>4. pending' = pending - i
  BY <1>3 DEF pending, IssueStep, NextSlot
<1>5. \A k \in 1 .. Len(PendingDescs') : PendingDescs'[k] = Rest(i)[k]
  BY <1>1, <1>2, <1>4
<1> QED BY <1>1, <1>2, <1>4, <1>5, SeqEqual

(* A post appends to it: the slot of TAIL was none of the waiting ones.    *)
LEMMA Posted ==
  ASSUME TypeOK, TypeOK', NEW i, IssueStep(i), NEW d \in Descs,
         pending + RESERVE < ringlen,
         tail' = NextSlot(tail), memory' = [memory EXCEPT ![tail] = d]
  PROVE  PendingDescs' = Append(Rest(i), d)
<1>1. /\ PendingDescs' \in Seq(Descs) /\ Len(PendingDescs') = pending'
      /\ \A k \in 1 .. pending' : PendingDescs'[k] = memory'[SlotFrom(head', ringlen, k)]
  BY WaitingNext DEF WaitingAre, Waiting, IssueStep
<1>2. /\ i \in Nat /\ i <= pending /\ i \in {0, 1}
      /\ Rest(i) \in Seq(Descs) /\ Len(Rest(i)) = pending - i
      /\ \A k \in 1 .. pending - i : Rest(i)[k] = memory[SlotFrom(head', ringlen, k)]
  BY RestIs DEF IssueStep
<1>3. /\ ringlen \in Nat /\ head \in Nat /\ tail \in Nat /\ pending \in Nat
      /\ head < ringlen /\ tail < ringlen /\ pending < ringlen
  BY RingNumbers DEF IssueStep
<1>4. RESERVE \in Nat /\ RESERVE > 0
  BY RingAssumption
<1>5. pending' = pending - i + 1
  BY <1>3, <1>4 DEF pending, IssueStep, NextSlot
<1>6. ASSUME NEW k \in 1 .. pending - i + 1
      PROVE  SlotFrom(head', ringlen, k) = SlotFrom(head, ringlen, k + i)
  <2>1. CASE i = 0
    BY <2>1, <1>6, <1>3 DEF IssueStep
  <2>2. CASE i = 1
    <3>1. k \in 1 .. ringlen - 1 /\ head \in 0 .. ringlen - 1
      BY <1>3, <1>6, <2>2
    <3> QED BY <1>3, <2>2, <3>1, SlotShifts DEF IssueStep, NextSlot
  <2> QED BY <1>2, <2>1, <2>2
<1>7. /\ SlotFrom(head', ringlen, pending - i + 1) = tail /\ tail \in Slots
      /\ \A k \in 1 .. pending - i : SlotFrom(head', ringlen, k) # tail
                                     /\ SlotFrom(head', ringlen, k) \in Slots
  <2>1. /\ SlotFrom(head, ringlen, pending + 1) = tail
        /\ \A k \in 1 .. pending : SlotFrom(head, ringlen, k) # tail /\ SlotFrom(head, ringlen, k) \in Slots
    BY SlotOfTail DEF IssueStep
  <2>2. tail \in Slots
    <3>1. ringlen \in RingLens /\ tail \in 0 .. ringlen - 1
      BY <1>3, RingNumbers DEF IssueStep
    <3> QED BY <3>1 DEF Slots
  <2>3. SlotFrom(head', ringlen, pending - i + 1) = tail
    <3>1. pending - i + 1 \in 1 .. pending - i + 1 /\ (pending - i + 1) + i = pending + 1
      BY <1>2, <1>3
    <3> QED BY <1>6, <2>1, <3>1
  <2>4. ASSUME NEW k \in 1 .. pending - i
        PROVE  SlotFrom(head', ringlen, k) # tail /\ SlotFrom(head', ringlen, k) \in Slots
    <3>1. k \in 1 .. pending - i + 1 /\ k + i \in 1 .. pending
      BY <1>2, <1>3, <2>4
    <3> QED BY <1>6, <2>1, <3>1
  <2> QED BY <2>2, <2>3, <2>4
<1>8. memory'[tail] = d /\ \A s \in Slots : s # tail => memory'[s] = memory[s]
  BY <1>7 DEF TypeOK
<1> DEFINE q == Append(Rest(i), d)
<1>9. /\ q \in Seq(Descs) /\ Len(q) = pending - i + 1
      /\ q[pending - i + 1] = d /\ \A k \in 1 .. pending - i : q[k] = Rest(i)[k]
  BY <1>2, <1>3
<1> HIDE DEF q
<1>10. ASSUME NEW k \in 1 .. pending - i + 1 PROVE PendingDescs'[k] = q[k]
  <2>1. CASE k = pending - i + 1
    <3>1. k \in 1 .. pending' /\ SlotFrom(head', ringlen, k) = tail
      BY <1>5, <1>7, <1>10, <2>1
    <3> QED BY <1>1, <1>8, <1>9, <2>1, <3>1
  <2>2. CASE k # pending - i + 1
    <3>1. k \in 1 .. pending - i /\ k \in 1 .. pending'
      BY <1>2, <1>3, <1>5, <1>10, <2>2
    <3> QED BY <1>1, <1>2, <1>7, <1>8, <1>9, <3>1
  <2> QED BY <2>1, <2>2
<1>11. PendingDescs' = q
  BY <1>1, <1>5, <1>9, <1>10, SeqEqual
<1> QED BY <1>11 DEF q

(* The ring is never longer than the longest one.                          *)
LEMMA Longest ==
  ASSUME NEW n \in RingLens
  PROVE  LongestRing \in Nat /\ n <= LongestRing
<1>1. \E l \in RingLens : \A m \in RingLens : m <= l
  BY RingAssumption
<1>2. LongestRing \in RingLens /\ \A m \in RingLens : m <= LongestRing
  BY <1>1 DEF LongestRing
<1> QED BY <1>2, RingAssumption

(* An edge that neither resets nor configures takes, puts, does both, or   *)
(* leaves the queue alone.                                                 *)
LEMMA QueueStep ==
  ASSUME TypeOK, TypeOK', NEW i, IssueStep(i),
         \/ tail' = tail /\ memory' = memory
         \/ /\ pending + RESERVE < ringlen
            /\ tail' = NextSlot(tail)
            /\ \E d \in Descs : memory' = [memory EXCEPT ![tail] = d]
  PROVE  PostedQueue!Move \/ UNCHANGED PendingDescs
<1>1. i \in {0, 1} /\ Len(PendingDescs) = pending /\ (i = 1 => PendingDescs # <<>>)
  BY RestIs DEF IssueStep
<1>2. CASE tail' = tail /\ memory' = memory
  <2>1. PendingDescs' = Rest(i)
    BY <1>2, NotPosted
  <2>2. CASE i = 0
    BY <2>1, <2>2 DEF Rest
  <2>3. CASE i = 1
    <3>1. PostedQueue!Take
      BY <1>1, <2>1, <2>3 DEF Rest, PostedQueue!Take
    <3> QED BY <3>1 DEF PostedQueue!Move
  <2> QED BY <1>1, <2>2, <2>3
<1>3. CASE /\ pending + RESERVE < ringlen
           /\ tail' = NextSlot(tail)
           /\ \E d \in Descs : memory' = [memory EXCEPT ![tail] = d]
  <2>1. PICK d \in Descs : memory' = [memory EXCEPT ![tail] = d]
    BY <1>3
  <2>2. PendingDescs' = Append(Rest(i), d)
    BY <1>3, <2>1, Posted
  <2>3. CASE i = 0
    <3>1. ringlen \in RingLens /\ ringlen \in Nat /\ pending \in Nat
      BY RingNumbers DEF IssueStep
    <3>2. ringlen <= LongestRing /\ LongestRing \in Nat /\ RESERVE \in Nat /\ RESERVE > 0
      BY <3>1, Longest, RingAssumption
    <3>3. pending < LongestRing - 1
      BY <1>3, <3>1, <3>2
    <3>4. PostedQueue!Put(d)
      BY <1>1, <2>2, <2>3, <3>3 DEF Rest, PostedQueue!Put
    <3> QED BY <3>4 DEF PostedQueue!Move
  <2>4. CASE i = 1
    <3>1. PostedQueue!TakePut(d)
      BY <1>1, <2>2, <2>4 DEF Rest, PostedQueue!TakePut
    <3> QED BY <3>1 DEF PostedQueue!Move
  <2> QED BY <1>1, <2>3, <2>4
<1> QED BY <1>2, <1>3

(* No descriptor waits in an unconfigured ring or during a reset.          *)
LEMMA NoneWait ==
  ASSUME TypeOK, reset \/ ringlen = 0 \/ head = tail
  PROVE  PendingDescs = <<>>
<1>1. Waiting = 0
  <2>1. reset \/ pending = 0
    <3>1. ringlen \in Nat /\ head \in Nat /\ tail \in Nat /\ pending \in Nat
          /\ (ringlen = 0 => pending = 0)
      BY RingNumbers
    <3> QED BY <3>1 DEF pending
  <2> QED BY <2>1 DEF Waiting
<1>2. PendingDescs \in Seq(Descs) /\ Len(PendingDescs) = 0
  BY <1>1, WaitingNow DEF WaitingAre
<1> QED BY <1>2

(* The same as a state formula, for this state and the next.               *)
NoneWaitHere == TypeOK /\ (reset \/ ringlen = 0 \/ head = tail) => PendingDescs = <<>>

(* It holds of every typed state ...                                       *)
LEMMA NoneWaitNow == NoneWaitHere
BY NoneWait DEF NoneWaitHere

(* ... and of the next.                                                    *)
LEMMA NoneWaitNext == NoneWaitHere'
BY NoneWaitNow, PTL

(* Every step of the ring is a step of the queue, or leaves it alone.      *)
LEMMA RingStep ==
  ASSUME TypeOK, [Next]_vars
  PROVE  [PostedQueue!Move \/ (PostedQueue!Flush /\ reset')]_PendingDescs
<1>1. TypeOK'
  BY TypePreserved
<1>2. CASE UNCHANGED vars
  BY <1>2 DEF vars, rm, csr, datapath, PendingDescs, pending
<1>3. CASE Next
  <2>1. PICK ready \in BOOLEAN, fetch \in BOOLEAN, as_done \in BOOLEAN :
          \/ Wait(ready, fetch, as_done)
          \/ \E n \in RingLens : Configure(n, ready, fetch, as_done)
          \/ \E d \in Descs : Post(d, ready, fetch, as_done)
          \/ SetEnable(ready, fetch, as_done)
          \/ ClearError(ready, fetch, as_done)
          \/ WriteReset(ready, fetch, as_done)
          \/ HoldReset(ready, fetch, as_done)
          \/ FinishReset(ready, fetch, as_done)
    BY <1>3, Zenon DEF Next
  <2>2. PICK c \in BOOLEAN : Clock(ready, fetch, as_done, c)
    BY <2>1 DEF Wait, Configure, Post, SetEnable, ClearError, WriteReset, HoldReset, FinishReset
  <2>3. CASE reset
    <3>1. head' = 0 /\ (reset' \/ tail' = 0)
      <4>1. head' = 0
        BY <2>2, <2>3 DEF Clock, Edge
      <4>2. HoldReset(ready, fetch, as_done) \/ FinishReset(ready, fetch, as_done)
        BY <2>1, <2>3 DEF Wait, Configure, Post, SetEnable, ClearError, WriteReset
      <4>3. reset' = reset \/ tail' = 0
        BY <4>2 DEF HoldReset, FinishReset, csr
      <4> QED BY <2>3, <4>1, <4>3
    <3>2. PendingDescs = <<>> /\ PendingDescs' = <<>>
      BY <1>1, <2>3, <3>1, NoneWaitNow, NoneWaitNext DEF NoneWaitHere
    <3> QED BY <3>2
  <2>4. CASE reset'
    <3>1. PendingDescs' = <<>>
      BY <1>1, <2>4, NoneWaitNext DEF NoneWaitHere
    <3> QED BY <2>4, <3>1 DEF PostedQueue!Flush
  <2>5. CASE ~reset /\ ~reset' /\ ringlen = 0
    <3>1. head' = 0
      BY <1>1, <2>2, <2>5, ClockTypes
    <3>2. tail = 0
      BY <2>5, RingNumbers
    <3>3. tail' = 0
      <4>1. ~\E d \in Descs : Post(d, ready, fetch, as_done)
        <5>1. pending = 0 /\ RESERVE \in Nat
          BY <2>5, RingNumbers, RingAssumption
        <5>2. ~(pending + RESERVE < ringlen)
          BY <2>5, <5>1
        <5> QED BY <5>2 DEF Post
      <4> QED BY <2>1, <2>5, <3>2, <4>1
      DEF Wait, Configure, SetEnable, ClearError, WriteReset, HoldReset, FinishReset, csr
    <3>4. PendingDescs = <<>> /\ PendingDescs' = <<>>
      BY <1>1, <2>5, <3>1, <3>3, NoneWaitNow, NoneWaitNext DEF NoneWaitHere
    <3> QED BY <3>4
  <2>6. CASE ~reset /\ ~reset' /\ ringlen # 0
    <3>1. /\ ringlen' = ringlen
          /\ \/ tail' = tail /\ memory' = memory
             \/ /\ pending + RESERVE < ringlen
                /\ tail' = NextSlot(tail)
                /\ \E d \in Descs : memory' = [memory EXCEPT ![tail] = d]
      BY <2>1, <2>6
      DEF Wait, Configure, Post, SetEnable, ClearError, WriteReset, HoldReset, FinishReset, csr
    <3> DEFINE i == IF fetch_req_valid /\ ready THEN 1 ELSE 0
    <3>2. /\ i \in {0, 1} /\ (i = 1 => head # tail)
          /\ head' = (IF i = 1 THEN NextSlot(head) ELSE head)
      <4>1. head' = HeadNext(fetch_req_valid /\ ready)
        BY <2>2, <2>6 DEF Clock, Edge
      <4>2. CASE fetch_req_valid /\ ready
        BY <4>1, <4>2 DEF HeadNext, NextSlot, fetch_req_valid, ring_empty
      <4>3. CASE ~(fetch_req_valid /\ ready)
        BY <4>1, <4>3 DEF HeadNext
      <4> QED BY <4>2, <4>3
    <3>3. IssueStep(i)
      <4> HIDE DEF i
      <4> QED BY <2>6, <3>1, <3>2 DEF IssueStep
    <3>4. PostedQueue!Move \/ UNCHANGED PendingDescs
      <4> HIDE DEF i
      <4> QED BY <1>1, <3>1, <3>3, QueueStep
    <3> QED BY <3>4
  <2> QED BY <2>3, <2>4, <2>5, <2>6
<1> QED BY <1>2, <1>3

(* Descriptors leave the ring in the order software posted them, each      *)
(* once, and only CTRL.RESET drops any: the ring between HEAD and TAIL     *)
(* implements BoundedQueue, whatever RINGLEN, however posting, issuing,    *)
(* enabling and resetting interleave.                                      *)
THEOREM RingImplementsQueue == Spec => RingIsQueue
<1>1. Init => PostedQueue!Init
  <2> SUFFICES ASSUME Init PROVE PostedQueue!Init
    OBVIOUS
  <2>1. TypeOK /\ ringlen = 0
    BY InitTyped DEF Init
  <2> QED BY <2>1, NoneWait DEF PostedQueue!Init
<1>2. TypeOK /\ [Next]_vars
        => [PostedQueue!Move \/ (PostedQueue!Flush /\ reset')]_PendingDescs
  BY RingStep
<1>3. Spec => []TypeOK
  BY TypeCorrect
<1> QED BY <1>1, <1>2, <1>3, PTL DEF Spec, RingIsQueue
=============================================================================
