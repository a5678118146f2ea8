---------------------------- MODULE BlockTransfer ----------------------------
(* What a disk command promises the program that issued it: the bytes it asks *)
(* for move in order, each once, and then the command ends exactly once.  It  *)
(* may end early only when the program itself interrupted it.                 *)
EXTENDS Naturals, Sequences

CONSTANT Requests  \* the sequences of bytes, by place, a command can ask for

VARIABLES
  busy,     \* a command is under way
  asked,    \* the bytes it has to move
  moved,    \* the bytes moved so far
  aborted   \* the program interrupted it

vars == <<busy, asked, moved, aborted>>

Init == ~busy /\ asked = <<>> /\ moved = <<>> /\ ~aborted

Begin ==
  /\ ~busy /\ busy'
  /\ asked' \in Requests /\ moved' = <<>> /\ aborted' = FALSE

Move ==
  /\ busy /\ ~aborted /\ Len(moved) < Len(asked)
  /\ moved' = Append(moved, asked[Len(moved) + 1])
  /\ UNCHANGED <<busy, asked, aborted>>

Abort == busy /\ aborted' = TRUE /\ UNCHANGED <<busy, asked, moved>>

End ==
  /\ busy /\ ~busy'
  /\ aborted \/ moved = asked
  /\ UNCHANGED <<asked, moved, aborted>>

Next == Begin \/ Move \/ Abort \/ End

Spec == Init /\ [][Next]_vars
=============================================================================
