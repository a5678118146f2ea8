----------------------------- MODULE MCMicrodisc -----------------------------
(* The disk controller under an arbitrary program: two drives, one of them   *)
(* empty, a disk of one side, two tracks and two sectors of two bytes.       *)
EXTENDS Microdisc

MCDisk == [d \in Drives |->
             IF d = 0 THEN [sides |-> 1, tracks |-> 2, sectors |-> 2]
                      ELSE [sides |-> 0, tracks |-> 0, sectors |-> 0]]

MCDelay == [d \in Delays |-> IF d = "write" THEN 2 ELSE 1]

Byte(i, s, d) == [intena |-> i, romdis |-> TRUE, diskrom |-> TRUE, side |-> s, drive |-> d]
MCControls == {Byte(FALSE, 0, 0), Byte(TRUE, 1, 0), Byte(TRUE, 0, 1)}

\* A transfer of more sectors before the last byte of the first one, with the
\* INTRQ of the seek before it at the CPU.
MCSavePoints ==
  {[status |-> {"DRQ"}, track |-> 0, sector |-> 1, data |-> 1, outward |-> FALSE, cTrack |-> 0,
    op |-> "READ_SECTORS", offset |-> 1, dInt |-> 0, diStatus |-> {"DRQ"}, dDrq |-> 0,
    drq |-> TRUE, intrq |-> TRUE, control |-> Byte(TRUE, 1, 0)]}
=============================================================================
