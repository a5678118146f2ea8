----------------------------- MODULE MCFrameLoop ----------------------------
(* Frames of three cycles with the blanking after two, so that one           *)
(* instruction can pass both; counters of two bits.                          *)
EXTENDS FrameLoop

MCMasks == {{"T1"}, {"CB1"}}
MCPCRs == {[rising |-> b, ca2 |-> FALSE, cb2 |-> FALSE] : b \in BOOLEAN}

\* The line is up: timer 1 has ended, and the blanking has raised CB1.
MCSavePoints ==
  {[t1 |-> 0, t2 |-> 3, t1Lo |-> 1, t1Hi |-> 0, t2Lo |-> 1, t1On |-> FALSE, t2On |-> FALSE,
    t1Due |-> 0, t2Due |-> 0, freeRun |-> FALSE, countPulses |-> FALSE,
    cb1Rising |-> FALSE, ca2Indep |-> FALSE, cb2Indep |-> FALSE, cb1Pin |-> TRUE,
    ifr |-> {"T1", "CB1"}, ier |-> {"T1"}, irqLine |-> TRUE]}
=============================================================================
