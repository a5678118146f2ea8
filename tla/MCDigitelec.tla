----------------------------- MODULE MCDigitelec ----------------------------
(* A modem with a buffer of two bytes, a FIFO of one byte or none, and a    *)
(* line on which a byte takes one cycle or two to come and two to go.         *)
EXTENDS Digitelec

Cmd(d, i, t, e) == [dtr |-> d, ird |-> i, tic |-> t, echo |-> e]
MCCommands == {Cmd(TRUE, FALSE, TRUE, FALSE), Cmd(TRUE, TRUE, FALSE, TRUE),
               Cmd(FALSE, FALSE, FALSE, FALSE)}
MCPeriods == {[rx |-> 1, tx |-> 2], [rx |-> 2, tx |-> 2]}
=============================================================================
