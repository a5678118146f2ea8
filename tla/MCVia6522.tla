------------------------------ MODULE MCVia6522 -----------------------------
(* The VIA with counters of two bits, of which an instruction may take one   *)
(* cycle or three; the program writes two of the 128 masks.                  *)
EXTENDS Via6522

MCMasks == {{"T1", "CB1"}, {"T2", "CA2", "CB2"}}
MCPCRs == {[rising |-> b, ca2 |-> b, cb2 |-> b] : b \in BOOLEAN}
=============================================================================
