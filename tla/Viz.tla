--------------------------------- MODULE Viz ---------------------------------
(***************************************************************************)
(* The live display (firmware&local/viz.py): a process that reads events   *)
(* from a pipe, in order, at its own pace, and keeps a table of expected   *)
(* and one of actual cells for each memory.  Drawing is left out.          *)
(***************************************************************************)
EXTENDS Sequences, Integers

VARIABLES
  pipe,       (* events the host has sent and the reader not yet handled   *)
  viewing,    (* FALSE once the display is gone: events are dropped        *)
  expected,   (* region -> sequence of cells                               *)
  actual      (* region -> sequence of cells with their status             *)

vizVars == <<pipe, viewing, expected, actual>>

Regions == {"smem", "sram"}

Cell(addr, value, status) == [addr |-> addr, value |-> value, status |-> status]

Send(events) == pipe' = IF viewing THEN pipe \o events ELSE pipe

(* The first cell with the event's address takes value and status.         *)
First(cells, addr) ==
  CHOOSE i \in DOMAIN cells :
    cells[i].addr = addr /\ \A j \in 1 .. i - 1 : cells[j].addr # addr

Has(cells, addr) == \E i \in DOMAIN cells : cells[i].addr = addr

(* Slip: the actual cells of the transfer before stay.                     *)
on_expectedKeep(ev) ==
  expected' = [expected EXCEPT ![ev.region] = ev.cells] /\ UNCHANGED actual

on_expected(ev) ==
  /\ expected' = [expected EXCEPT ![ev.region] = ev.cells]
  /\ actual' = [actual EXCEPT ![ev.region] =
                  [i \in DOMAIN ev.cells |-> Cell(ev.cells[i].addr, 0, "pending")]]

on_actual(ev) ==
  LET filled == Cell(ev.addr, ev.value, "filled")
  IN  /\ actual' = [actual EXCEPT ![ev.region] =
                      IF Has(@, ev.addr) THEN [@ EXCEPT ![First(@, ev.addr)] = filled]
                      ELSE Append(@, filled)]
      /\ UNCHANGED expected

on_terminal(ev) ==
  /\ actual' = [actual EXCEPT ![ev.region] =
                  IF Has(@, ev.addr) THEN [@ EXCEPT ![First(@, ev.addr)].status = ev.type] ELSE @]
  /\ UNCHANGED expected

stdin_reader ==
  /\ pipe # <<>>
  /\ pipe' = Tail(pipe)
  /\ CASE Head(pipe).type = "expected" -> on_expected(Head(pipe))
       [] Head(pipe).type = "actual" -> on_actual(Head(pipe))
       [] Head(pipe).type \in {"match", "fail"} -> on_terminal(Head(pipe))
  /\ UNCHANGED viewing

(* Ctrl-C in the display: the next send finds a broken pipe.               *)
Interrupt == viewing /\ viewing' = FALSE /\ pipe' = <<>> /\ UNCHANGED <<expected, actual>>

vizInit ==
  /\ pipe = <<>> /\ viewing = FALSE
  /\ expected = [r \in Regions |-> <<>>] /\ actual = [r \in Regions |-> <<>>]
=============================================================================
