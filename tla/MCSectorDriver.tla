--------------------------- MODULE MCSectorDriver ---------------------------
(* The protocol-keeping program on one disk of two tracks and two sectors of  *)
(* two bytes, and an empty drive.                                             *)
EXTENDS SectorDriver

MCDisk == [d \in Drives |->
             IF d = 0 THEN [sides |-> 1, tracks |-> 2, sectors |-> 2]
                      ELSE [sides |-> 0, tracks |-> 0, sectors |-> 0]]

\* Ordered as the delays of disk.c: seek = end = id < last = byte < read < next < write.
MCDelay == [d \in Delays |-> CASE d \in {"seek", "end", "id"} -> 1
                               [] d \in {"last", "byte"} -> 2
                               [] OTHER -> 3]

Byte(i, s, d) == [intena |-> i, romdis |-> TRUE, diskrom |-> TRUE, side |-> s, drive |-> d]
MCControls == {Byte(FALSE, 0, 0), Byte(TRUE, 1, 0), Byte(TRUE, 0, 1), Byte(TRUE, 0, 0)}

\* Two moments between commands: after a seek to track 1, and after a sector of
\* track 0 was read, its offset past the end.
AtRest(status0, track0, offset0, bits) ==
  [status |-> status0, track |-> track0, sector |-> 1, data |-> 1, outward |-> FALSE,
   cTrack |-> track0, op |-> "NONE", offset |-> offset0, dInt |-> 0, diStatus |-> bits,
   dDrq |-> 0, drq |-> FALSE, intrq |-> FALSE, control |-> Byte(TRUE, 0, 0)]
MCSavePoints == {AtRest({"DRQ"}, 1, 0, {"DRQ"}), AtRest({}, 0, 2, {})}
=============================================================================
