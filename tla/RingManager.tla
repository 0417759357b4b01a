---------------------------- MODULE RingManager ----------------------------
(***************************************************************************)
(* The ring manager, rtl/ring_manager.sv: four registers, the outputs      *)
(* computed from them and from the CSR registers it reads, and what one    *)
(* rising edge of the clock does.  Registers keep their RTL names.  The    *)
(* module has no behaviour of its own: DescriptorRing puts software and    *)
(* the datapath around it, ControlPlane the CSR and interrupt blocks.      *)
(* sw_rst_enable is left out: the RTL computes it and no output reads it.  *)
(***************************************************************************)
EXTENDS Integers

CONSTANTS
  MAX_INFLIGHT,   (* limit of the ring manager on descriptors in flight      *)
  COUNT_RANGE     (* number of values of the in-flight counter               *)

VARIABLES
  head, inflight_count, was_empty, int_status_error,  (* its registers          *)
  ringlen, tail, enable, reset                        (* CSR registers it reads *)

rm  == <<head, inflight_count, was_empty, int_status_error>>
csr == <<ringlen, tail, enable, reset>>
-----------------------------------------------------------------------------
(* Combinational outputs of the ring manager.                              *)

ring_empty == head = tail

fetch_req_valid ==
  /\ ~ring_empty
  /\ enable
  /\ ringlen > 0
  /\ inflight_count < MAX_INFLIGHT
  /\ ~int_status_error

(* Slip: the last descriptor does not count.                               *)
busy_early == inflight_count > 1

busy == inflight_count > 0

irq_empty_set == ~was_empty /\ ring_empty

(* Next values of its registers.                                           *)

(* Slip: HEAD does not wrap.                                               *)
HeadNextUnwrapped(issue) == IF issue THEN head + 1 ELSE head

HeadNext(issue) ==
  IF ~issue THEN head ELSE IF head = ringlen - 1 THEN 0 ELSE head + 1

CountUp   == IF inflight_count = COUNT_RANGE - 1 THEN 0 ELSE inflight_count + 1
CountDown == IF inflight_count = 0 THEN COUNT_RANGE - 1 ELSE inflight_count - 1

(* Slips: a completion hides an issue; completions do not count while the  *)
(* engine is disabled.                                                     *)
InflightNextDoneFirst(issue, as_done, df_error) ==
  IF as_done \/ df_error THEN CountDown ELSE IF issue THEN CountUp ELSE inflight_count

InflightNextGated(issue, as_done, df_error) ==
  IF ~enable THEN inflight_count
  ELSE IF issue THEN IF as_done THEN inflight_count ELSE CountUp
  ELSE IF as_done \/ df_error THEN CountDown
  ELSE inflight_count

InflightNext(issue, as_done, df_error) ==
  IF issue THEN IF as_done THEN inflight_count ELSE CountUp
  ELSE IF as_done \/ df_error THEN CountDown
  ELSE inflight_count

StatusErrorNext(df_error, error_clear) ==
  (int_status_error \/ df_error) /\ ~error_clear

(* The always_ff block: the CTRL.RESET bit is a synchronous reset.         *)
Edge(issue, as_done, df_error, error_clear) ==
  IF reset
  THEN /\ head' = 0
       /\ inflight_count' = 0
       /\ was_empty' = TRUE
       /\ int_status_error' = FALSE
  ELSE /\ head' = HeadNext(issue)
       /\ inflight_count' = InflightNext(issue, as_done, df_error)
       /\ was_empty' = ring_empty
       /\ int_status_error' = StatusErrorNext(df_error, error_clear)
=============================================================================
