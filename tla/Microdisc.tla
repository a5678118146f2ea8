------------------------------ MODULE Microdisc ------------------------------
(***************************************************************************)
(* The disk side of the Oric: the WD1793 floppy controller of              *)
(* src/storage/disk.c behind the Microdisc interface of src/io/microdisc.c, *)
(* driven by an arbitrary 6502/65C816 program.  Every register access of    *)
(* the program is one action; Tick is the fdc_ticktock call that the frame  *)
(* loop makes after each CPU instruction.  The user saves states (F2), loads *)
(* the last one (F4) and resets the CPU (F5).                               *)
(*                                                                          *)
(* The status register is the set of the bits that are set, so the bit that *)
(* means PULSE after a Type I command and DRQ during a transfer is one and  *)
(* the same ("DRQ"), and so is SEEK_ERR / NOT_FOUND.  The HEADL and TRK0    *)
(* bits are written and never read by the code: they are left out.  The     *)
(* bytes of a sector are abstracted to their place on the disk; a byte read *)
(* from the disk may be any of Bytes.                                       *)
(***************************************************************************)
EXTENDS Integers

CONSTANTS
  Drives,      \* drive numbers, 0..3
  Disk,        \* geometry of the image mounted in each drive; 0 tracks: none
  SectorLen,   \* bytes of a sector, 256
  RegMax,      \* largest value of an 8-bit register, 255
  Bytes,       \* the bytes the program writes and the disks hold
  Controls,    \* the bytes, decoded, the program writes to $0314
  Delay,       \* cycles before each kind of INTRQ or DRQ
  StepCycles,  \* cycles an instruction of the program may take
  NoSector,    \* the NULL sector pointer
  SavePoints   \* bound of the model: the states of the controller the user saves

\* The delays of disk.c: INTRQ after a seek (20), after the last sector of a
\* track (20), after the last byte of a transfer (32), after an address field
\* (20); DRQ for the next byte (32), the next sector (180), the first byte
\* read (60) and the first byte written (500).
Delays == {"seek", "end", "last", "id", "byte", "next", "read", "write"}

Geometries == [sides : Nat, tracks : Nat, sectors : Nat]
ControlBytes == [intena : BOOLEAN, romdis : BOOLEAN, diskrom : BOOLEAN,
                 side : {0, 1}, drive : Drives]

Cells == Drives \X {0, 1} \X Nat \X Nat  \* <<drive, side, track, sector>>

ASSUME MicrodiscAssumption ==
  /\ 0 \in Drives
  /\ SectorLen \in Nat \ {0}
  /\ RegMax \in Nat /\ RegMax >= 1
  /\ Disk \in [Drives -> Geometries]
  /\ \A d \in Drives : Disk[d].tracks <= RegMax /\ Disk[d].sectors < RegMax
  /\ Bytes \subseteq 0..RegMax
  /\ Controls \subseteq ControlBytes
  /\ Delay \in [Delays -> Nat \ {0}]
  /\ StepCycles \subseteq Nat \ {0}
  /\ NoSector \notin Cells

VARIABLES
  status,     \* fdc.status, as the set of its bits
  track,      \* fdc.track, the track register
  sector,     \* fdc.sector, the sector register
  data,       \* fdc.data, the data register
  outward,    \* fdc.direction
  cTrack,     \* fdc.c_track, the head's position: one for all the drives
  op,         \* fdc.currentop
  cur,        \* fdc.cur_sector_data: the sector it points to, or NoSector
  offset,     \* fdc.cur_offset
  dInt,       \* fdc.delayed_int: cycles until INTRQ, 0 when none is due
  diStatus,   \* fdc.di_status, the status that INTRQ will set
  dDrq,       \* fdc.delayed_drq: cycles until DRQ, 0 when none is due
  drq,        \* md.drq is active
  intrq,      \* md.intrq is active
  control,    \* md.status, decoded: the last byte written to $0314
  cpuIrq,     \* IRQF_DISK is set in the CPU's irq
  file        \* the saved state: one Snapshot, or none

regs  == <<track, sector, data, outward, cTrack>>
xfer  == <<op, cur, offset>>
delay == <<dInt, diStatus, dDrq>>
lines == <<drq, intrq, control, cpuIrq>>
controller == <<status, regs, xfer, delay, lines>>
vars  == <<controller, file>>

Bits == {"BUSY", "DRQ", "NOT_FOUND", "NOT_READY"}
Reads  == {"READ_SECTOR", "READ_SECTORS"}
Writes == {"WRITE_SECTOR", "WRITE_SECTORS"}
Multi  == {"READ_SECTORS", "WRITE_SECTORS"}
Ops == Reads \cup Writes \cup {"NONE", "READ_ADDRESS", "READ_TRACK", "WRITE_TRACK"}

-----------------------------------------------------------------------------
\* The image the selected drive holds, and the sector of it with a given id on
\* the track and the side under the head.
Mounted == Disk[control.drive]
HasDisk == Mounted.tracks > 0

FindSectorAnySide(id) ==  \* faulty: no check against the size of the image
  IF cTrack < Mounted.tracks /\ id \in 1..Mounted.sectors
  THEN <<control.drive, control.side, cTrack, id>>
  ELSE NoSector

FindSector(id) ==
  IF cTrack < Mounted.tracks /\ id \in 1..Mounted.sectors /\ control.side < Mounted.sides
  THEN <<control.drive, control.side, cTrack, id>>
  ELSE NoSector

\* The two lines of the interface: INTRQ reaches the CPU only through INTENA.
SetIntrq == intrq' = TRUE /\ cpuIrq' = (cpuIrq \/ control.intena)
ClrIntrq == intrq' = FALSE /\ cpuIrq' = FALSE
\* A command clears INTRQ before it does anything; some then set it at once.
ClrThenSetIntrq == intrq' = TRUE /\ cpuIrq' = control.intena

Init ==
  /\ status = {} /\ track = 0 /\ sector = 0 /\ data = 0 /\ outward = FALSE
  /\ cTrack = 0 /\ op = "NONE" /\ cur = NoSector /\ offset = 0
  /\ dInt = 0 /\ diStatus = {} /\ dDrq = 0
  /\ drq = FALSE /\ intrq = FALSE /\ cpuIrq = FALSE /\ file = {}
  /\ control = [intena |-> FALSE, romdis |-> TRUE, diskrom |-> TRUE, side |-> 0, drive |-> 0]

-----------------------------------------------------------------------------
(* Type I commands *)

\* fdc_seek_track on a drive that holds a disk: the target is clamped and the
\* INTRQ that ends the command is put off.
SeekOnDisk(target) ==
  LET t == IF target < Mounted.tracks THEN target ELSE Mounted.tracks - 1
  IN  /\ cTrack' = t /\ track' = t
      /\ diStatus' = IF target < Mounted.tracks THEN {"DRQ"} ELSE {"NOT_FOUND"}
      /\ dInt' = Delay["seek"]
      /\ status' = {"BUSY"}
      /\ ClrIntrq

\* ... and on an empty drive: the command fails at once.
SeekNoDisk ==
  /\ track' = 0
  /\ status' = {"NOT_READY", "NOT_FOUND"}
  /\ ClrThenSetIntrq
  /\ UNCHANGED <<cTrack, dInt, diStatus>>

SeekTrack(target) ==
  /\ IF HasDisk THEN SeekOnDisk(target) ELSE SeekNoDisk
  /\ op' = "NONE"
  /\ UNCHANGED <<sector, data, cur, offset, dDrq, drq, control>>

Inward  == cTrack + 1
Outward == IF cTrack > 0 THEN cTrack - 1 ELSE 0

Restore == SeekTrack(0) /\ UNCHANGED outward
Seek    == SeekTrack(data) /\ UNCHANGED outward
Step    == SeekTrack(IF outward THEN Outward ELSE Inward) /\ UNCHANGED outward
StepIn  == SeekTrack(Inward) /\ outward' = FALSE

\* Step-out seeks only when the head is off track 0: on track 0 the command
\* sets BUSY and nothing is left that would clear it.
StepOut ==
  /\ outward' = TRUE
  /\ \/ cTrack > 0 /\ SeekTrack(Outward)
     \/ /\ cTrack = 0
        /\ status' = {"BUSY"}
        /\ op' = "NONE"
        /\ ClrIntrq
        /\ UNCHANGED <<track, sector, data, cTrack, cur, offset, delay, drq, control>>

-----------------------------------------------------------------------------
(* Type II and III commands *)

NoRecord ==
  /\ status' = {"NOT_FOUND"} /\ drq' = FALSE /\ op' = "NONE"
  /\ ClrThenSetIntrq
  /\ UNCHANGED dDrq

Accept(newOp, firstDrq) ==
  /\ status' = {"BUSY", "NOT_READY"} /\ dDrq' = firstDrq /\ op' = newOp
  /\ ClrIntrq
  /\ UNCHANGED drq

SectorCommand(newOp, firstDrq) ==
  /\ offset' = 0
  /\ cur' = FindSector(sector)
  /\ IF cur' = NoSector THEN NoRecord ELSE Accept(newOp, firstDrq)
  /\ UNCHANGED <<regs, dInt, diStatus, control>>

ReadSector(o)  == o \in Reads /\ SectorCommand(o, Delay["read"])
WriteSector(o) == o \in Writes /\ SectorCommand(o, Delay["write"])

ReadAddress ==
  /\ offset' = 0
  /\ cur' = FindSector(1)
  /\ IF cur' = NoSector
     THEN NoRecord
     ELSE /\ status' = {"BUSY", "NOT_READY", "DRQ"} /\ drq' = TRUE
          /\ op' = "READ_ADDRESS"
          /\ ClrIntrq
          /\ UNCHANGED dDrq
  /\ UNCHANGED <<regs, dInt, diStatus, control>>

ForceInterrupt ==
  /\ status' = {} /\ drq' = FALSE /\ dInt' = 0 /\ dDrq' = 0 /\ op' = "NONE"
  /\ ClrThenSetIntrq
  /\ UNCHANGED <<regs, cur, offset, diStatus, control>>

ReadTrack ==
  /\ Accept("READ_TRACK", Delay["read"])
  /\ UNCHANGED <<regs, cur, offset, dInt, diStatus, control>>

WriteTrack ==
  /\ status' = {"BUSY", "NOT_READY"} /\ drq' = FALSE
  /\ dInt' = 0 /\ dDrq' = Delay["write"] /\ op' = "WRITE_TRACK"
  /\ ClrIntrq
  /\ UNCHANGED <<regs, cur, offset, diStatus, control>>

-----------------------------------------------------------------------------
(* The data register *)

\* The transfer finds its sector pointer NULL and gives up, with no INTRQ.
LosePointer ==
  /\ status' = (status \ {"DRQ"}) \cup {"NOT_FOUND"}
  /\ drq' = FALSE /\ op' = "NONE"
  /\ UNCHANGED <<sector, cur, offset, delay>>

MoreBytesLate == offset < SectorLen  \* faulty: off by one
MoreBytes == offset + 1 < SectorLen

\* The sector register is eight bits wide.
NextSectorSame == sector      \* faulty: the increment is forgotten
NextSector == (sector + 1) % (RegMax + 1)

DropDrq == drq' = FALSE /\ status' = status \ {"DRQ"}

\* The last byte is gone: INTRQ will come with a clear status.
EndAtOnceUnannounced(d) ==  \* faulty: no INTRQ is scheduled
  op' = "NONE" /\ diStatus' = {} /\ UNCHANGED <<dInt, dDrq>>
EndAfter(d) == dInt' = d /\ diStatus' = {} /\ op' = "NONE" /\ UNCHANGED dDrq

\* One byte of a sector has moved: DRQ drops, and the next byte, the next
\* sector or the end of the command is scheduled.
MoveByte ==
  /\ DropDrq
  /\ \/ /\ MoreBytes
        /\ offset' = offset + 1 /\ dDrq' = Delay["byte"]
        /\ UNCHANGED <<sector, cur, op, dInt, diStatus>>
     \/ /\ ~MoreBytes /\ op \in Multi
        /\ sector' = NextSector
        /\ offset' = 0
        /\ cur' = FindSector(NextSector)
        /\ IF cur' # NoSector
           THEN dDrq' = Delay["next"] /\ UNCHANGED <<op, dInt, diStatus>>
           ELSE EndAfter(Delay["end"])
     \/ /\ ~MoreBytes /\ op \notin Multi
        /\ offset' = offset + 1
        /\ EndAfter(Delay["last"])
        /\ UNCHANGED <<sector, cur>>

TransferByte == IF cur = NoSector THEN LosePointer ELSE MoveByte

\* The address field that the code makes up for Read Address, six bytes.  With a
\* NULL sector pointer the field does not advance, and DRQ comes again for ever.
IdLen == 6
IdField == <<cTrack, control.side, sector, 1, 0, 0>>

MoveIdByte ==
  /\ IF cur = NoSector
     THEN UNCHANGED <<data, offset>>
     ELSE data' = IdField[offset + 1] /\ offset' = offset + 1
  /\ DropDrq
  /\ IF offset' >= IdLen
     THEN EndAfter(Delay["id"])
     ELSE dDrq' = Delay["byte"] /\ UNCHANGED <<op, dInt, diStatus>>
  /\ UNCHANGED <<sector, cur>>

ReadData ==
  /\ \/ op \in Reads /\ TransferByte
        /\ IF cur = NoSector THEN data' = data ELSE data' \in Bytes
     \/ op = "READ_ADDRESS" /\ MoveIdByte
  /\ UNCHANGED <<track, outward, cTrack, intrq, control, cpuIrq>>

\* A write to the data register always latches; it moves a byte only during a
\* write.  Outside, the value is what a later Seek will take as its target.
WriteData(b) ==
  /\ data' = b
  /\ \/ op \in Writes /\ TransferByte
     \/ op \notin Writes /\ UNCHANGED <<status, sector, xfer, delay, drq>>
  /\ UNCHANGED <<track, outward, cTrack, intrq, control, cpuIrq>>

-----------------------------------------------------------------------------
(* The other registers, and time *)

ReadStatus == ClrIntrq /\ UNCHANGED <<status, regs, xfer, delay, drq, control>>

WriteTrackReg(b) ==
  track' = b /\ UNCHANGED <<status, sector, data, outward, cTrack, xfer, delay, lines>>

WriteSectorReg(b) ==
  sector' = b /\ UNCHANGED <<status, track, data, outward, cTrack, xfer, delay, lines>>

\* $0314: the side and the drive change under whatever the controller is doing.
WriteControlKeepsIrq(c) ==  \* faulty: clearing INTENA does not release the CPU
  /\ control' = c
  /\ cpuIrq' = (cpuIrq \/ (c.intena /\ intrq))
  /\ UNCHANGED <<status, regs, xfer, delay, drq, intrq>>

WriteControl(c) ==
  /\ control' = c
  /\ cpuIrq' = (c.intena /\ intrq)
  /\ UNCHANGED <<status, regs, xfer, delay, drq, intrq>>

Fires(d, n) == d > 0 /\ d <= n
Left(d, n)  == IF d > n THEN d - n ELSE 0

\* fdc_ticktock: a due INTRQ replaces the status first, then a due DRQ adds its
\* bit to whatever status is left.
TickKeepsStatus(n) ==  \* faulty: INTRQ does not bring its status
  /\ dInt > 0 \/ dDrq > 0
  /\ dInt' = Left(dInt, n) /\ dDrq' = Left(dDrq, n)
  /\ status' = status \cup (IF Fires(dDrq, n) THEN {"DRQ"} ELSE {})
  /\ drq' = (drq \/ Fires(dDrq, n))
  /\ IF Fires(dInt, n) THEN SetIntrq ELSE UNCHANGED <<intrq, cpuIrq>>
  /\ UNCHANGED <<regs, xfer, diStatus, control>>

Tick(n) ==
  /\ dInt > 0 \/ dDrq > 0
  /\ dInt' = Left(dInt, n) /\ dDrq' = Left(dDrq, n)
  /\ status' = (IF Fires(dInt, n) THEN diStatus ELSE status)
                 \cup (IF Fires(dDrq, n) THEN {"DRQ"} ELSE {})
  /\ drq' = (drq \/ Fires(dDrq, n))
  /\ IF Fires(dInt, n) THEN SetIntrq ELSE UNCHANGED <<intrq, cpuIrq>>
  /\ UNCHANGED <<regs, xfer, diStatus, control>>

-----------------------------------------------------------------------------
(* The user's keys, between two frames *)

\* What the FDC and MDC sections hold: not the sector pointer, and of the CPU
\* that runs not even its interrupt bits.
Snapshot ==
  [status |-> status, track |-> track, sector |-> sector, data |-> data, outward |-> outward,
   cTrack |-> cTrack, op |-> op, offset |-> offset, dInt |-> dInt, diStatus |-> diStatus,
   dDrq |-> dDrq, drq |-> drq, intrq |-> intrq, control |-> control]

\* F2: the file is written over.
Save == Snapshot \in SavePoints /\ file' = {Snapshot} /\ UNCHANGED controller

\* F4: the controller is the one that was saved, its sector pointer is NULL, and
\* the CPU keeps the interrupt bits of the moment before.
Load ==
  /\ \E s \in file :
       /\ status' = s.status /\ track' = s.track /\ sector' = s.sector /\ data' = s.data
       /\ outward' = s.outward /\ cTrack' = s.cTrack /\ op' = s.op /\ offset' = s.offset
       /\ dInt' = s.dInt /\ diStatus' = s.diStatus /\ dDrq' = s.dDrq
       /\ drq' = s.drq /\ intrq' = s.intrq /\ control' = s.control
  /\ cur' = NoSector
  /\ UNCHANGED <<cpuIrq, file>>

\* F5: cpu816_reset, of the CPU alone.
Reset == cpuIrq' = FALSE /\ UNCHANGED <<status, regs, xfer, delay, drq, intrq, control, file>>

-----------------------------------------------------------------------------
Command ==
  \/ Restore \/ Seek \/ Step \/ StepIn \/ StepOut
  \/ \E o \in Reads : ReadSector(o)
  \/ \E o \in Writes : WriteSector(o)
  \/ ReadAddress \/ ForceInterrupt \/ ReadTrack \/ WriteTrack

Program ==
  \/ Command
  \/ ReadStatus
  \/ ReadData
  \/ \E b \in Bytes : WriteData(b) \/ WriteTrackReg(b) \/ WriteSectorReg(b)
  \/ \E c \in Controls : WriteControl(c)
  \/ \E n \in StepCycles : Tick(n)

Next ==
  \/ Program /\ UNCHANGED file
  \/ Save \/ Load \/ Reset

Spec == Init /\ [][Next]_vars

-----------------------------------------------------------------------------
(* Properties *)

FileStates ==
  [status : SUBSET Bits, track : 0..RegMax, sector : 0..RegMax, data : 0..RegMax,
   outward : BOOLEAN, cTrack : 0..(RegMax - 1), op : Ops, offset : Nat, dInt : Nat,
   diStatus : SUBSET Bits, dDrq : Nat, drq : BOOLEAN, intrq : BOOLEAN, control : ControlBytes]

\* The type of every variable.
TypeOK ==
  /\ status \subseteq Bits /\ diStatus \subseteq Bits
  /\ track \in 0..RegMax /\ sector \in 0..RegMax /\ data \in 0..RegMax
  /\ cTrack \in 0..(RegMax - 1)
  /\ outward \in BOOLEAN /\ drq \in BOOLEAN /\ intrq \in BOOLEAN /\ cpuIrq \in BOOLEAN
  /\ op \in Ops
  /\ cur \in Cells \cup {NoSector}
  /\ offset \in Nat /\ dInt \in Nat /\ dDrq \in Nat
  /\ control \in ControlBytes
  /\ file \subseteq FileStates

\* Whatever a program does to the registers, in any order and at any moment,
\* and wherever a saved state is loaded, a transfer never runs past the bytes
\* of its sector or of the address field: fdc_read and fdc_write index the
\* sector and the field with no check, so it is the bookkeeping of the
\* commands that must keep the offset in bounds.
TransferInBounds ==
  /\ op \in Reads \cup Writes => offset < SectorLen
  /\ op = "READ_ADDRESS" => offset < IdLen

\* The sector a transfer moves bytes of is a sector of an image that is really
\* mounted: the pointer is kept when the program selects another drive or side
\* in the middle, and it must still point into an image.
PointerInImage ==
  cur # NoSector =>
    LET g == Disk[cur[1]]
    IN  cur[2] < g.sides /\ cur[3] < g.tracks /\ cur[4] \in 1..g.sectors

\* The CPU's disk interrupt follows INTRQ gated by INTENA, however INTENA, status
\* reads, commands and delayed completions interleave: a step that moves the
\* interrupt or the gated line leaves them equal.  F4 and F5 do not: the one loads
\* the line and leaves the CPU's bit, the other clears the bit and leaves the line;
\* the two are apart then until something moves them.
Line == intrq /\ control.intena
CpuIrqFollows ==
  [][Load \/ Reset \/ cpuIrq' = Line' \/ UNCHANGED <<cpuIrq, Line>>]_vars

=============================================================================
