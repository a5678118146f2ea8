----------------------------- MODULE DiskProofs -----------------------------
(* The disk controller, for every set of drives, every disk geometry, every    *)
(* sector length and every delay: its invariants under any program; and, under *)
(* a program that keeps to the protocol, that a command that is over leaves    *)
(* nothing due, and that the two of them implement BlockTransfer.              *)
EXTENDS SectorDriver, TLAPS, SequenceTheorems

-----------------------------------------------------------------------------
(* The controller under any program *)

\* Inductive as it stands: the bytes of the address field are register values
\* only while the offset is in bounds, so the conjuncts need one another.
\* The saved state is one the controller was in: its transfer is in bounds too.
FileInBounds ==
  \A s \in file : /\ s.op \in Reads \cup Writes => s.offset < SectorLen
                  /\ s.op = "READ_ADDRESS" => s.offset < IdLen
IInv == TypeOK /\ TransferInBounds /\ PointerInImage /\ FileInBounds

-----------------------------------------------------------------------------
\* What fdc_find_sector returns is NULL or a sector of the mounted image.
LEMMA FindSectorInImage ==
  ASSUME TypeOK, NEW id \in 0..RegMax
  PROVE  /\ FindSector(id) \in Cells \cup {NoSector}
         /\ FindSector(id) # NoSector =>
              LET f == FindSector(id)
                  g == Disk[f[1]]
              IN  f[2] < g.sides /\ f[3] < g.tracks /\ f[4] \in 1..g.sectors
BY MicrodiscAssumption
   DEF TypeOK, FindSector, Mounted, Cells, ControlBytes, Geometries

\* fdc_seek_track, whatever its target, leaves the head on a track.
LEMMA SeekTrackInv ==
  ASSUME IInv, NEW target \in 0..RegMax, SeekTrack(target), outward' \in BOOLEAN, UNCHANGED file
  PROVE  IInv'
<1>. USE MicrodiscAssumption DEF IInv, SeekTrack, SeekOnDisk, SeekNoDisk, HasDisk, Mounted,
         ClrIntrq, ClrThenSetIntrq
<1>1. Mounted \in Geometries /\ Mounted.tracks <= RegMax
  BY DEF TypeOK, ControlBytes
<1>2. TypeOK'
  <2>1. status' \subseteq Bits /\ diStatus' \subseteq Bits
    BY DEF TypeOK, Bits
  <2>2. /\ track' \in 0..RegMax
        /\ cTrack' \in 0..(RegMax - 1)
    BY <1>1 DEF TypeOK, Geometries
  <2>3. dInt' \in Nat
    BY DEF TypeOK, Delays
  <2>4. UNCHANGED <<sector, data, cur, offset, dDrq, drq, control>> /\ op' \in Ops
    BY DEF Ops
  <2>5. intrq' \in BOOLEAN /\ cpuIrq' \in BOOLEAN
    BY DEF TypeOK, ControlBytes
  <2>. QED BY <2>1, <2>2, <2>3, <2>4, <2>5 DEF TypeOK
<1>3. TransferInBounds'
  BY DEF TransferInBounds, Reads, Writes
<1>4. PointerInImage'
  BY DEF PointerInImage
<1>5. FileInBounds'
  BY DEF FileInBounds
<1>. QED BY <1>2, <1>3, <1>4, <1>5

\* Step-out, on track 0 and off it.
LEMMA StepOutInv == IInv /\ StepOut /\ UNCHANGED file => IInv'
<1>1. ASSUME IInv, outward' = TRUE, cTrack > 0, SeekTrack(Outward), UNCHANGED file PROVE IInv'
  <2>1. Outward \in 0..RegMax
    BY <1>1, MicrodiscAssumption DEF Outward, IInv, TypeOK
  <2>. QED BY <1>1, <2>1, SeekTrackInv
<1>2. ASSUME IInv, StepOut, cTrack = 0, status' = {"BUSY"}, op' = "NONE", ClrIntrq,
             outward' = TRUE, UNCHANGED file,
             UNCHANGED <<track, sector, data, cTrack, cur, offset, delay, drq, control>>
      PROVE  IInv'
  BY <1>2 DEF IInv, TypeOK, TransferInBounds, PointerInImage, FileInBounds, ClrIntrq, delay,
              Bits, Ops, Reads, Writes
<1>. QED BY <1>1, <1>2 DEF StepOut

\* Read Sector and Write Sector, single and multiple.
LEMMA SectorCommandInv ==
  ASSUME IInv, NEW o \in Reads \cup Writes, NEW first \in Nat, SectorCommand(o, first),
         UNCHANGED file
  PROVE  IInv'
<1>. USE MicrodiscAssumption DEF IInv, SectorCommand, NoRecord, Accept, regs,
         ClrIntrq, ClrThenSetIntrq
<1>1. cur' \in Cells \cup {NoSector} /\ PointerInImage'
  BY FindSectorInImage, FindSector(sector) = cur' DEF TypeOK, PointerInImage
<1>2. TypeOK'
  <2>1. status' \subseteq Bits /\ op' \in Ops
    BY DEF Bits, Ops
  <2>2. intrq' \in BOOLEAN /\ cpuIrq' \in BOOLEAN /\ drq' \in BOOLEAN
    BY DEF TypeOK, ControlBytes
  <2>3. offset' \in Nat /\ dDrq' \in Nat
    BY DEF TypeOK
  <2>. QED BY <1>1, <2>1, <2>2, <2>3 DEF TypeOK
<1>3. TransferInBounds'
  BY DEF TransferInBounds, Reads, Writes
<1>4. FileInBounds'
  BY DEF FileInBounds
<1>. QED BY <1>1, <1>2, <1>3, <1>4

\* Read Address, which looks for sector 1 of the track whatever the register says.
LEMMA ReadAddressInv == IInv /\ ReadAddress /\ UNCHANGED file => IInv'
<1>. SUFFICES ASSUME IInv, ReadAddress, UNCHANGED file PROVE IInv'
  OBVIOUS
<1>. USE MicrodiscAssumption DEF IInv, ReadAddress, NoRecord, regs, ClrIntrq, ClrThenSetIntrq
<1>1. cur' \in Cells \cup {NoSector} /\ PointerInImage'
  BY FindSectorInImage, FindSector(1) = cur' DEF TypeOK, PointerInImage
<1>2. TypeOK'
  <2>1. status' \subseteq Bits /\ op' \in Ops
    BY DEF Bits, Ops
  <2>2. intrq' \in BOOLEAN /\ cpuIrq' \in BOOLEAN /\ drq' \in BOOLEAN
    BY DEF TypeOK, ControlBytes
  <2>. QED BY <1>1, <2>1, <2>2 DEF TypeOK
<1>3. TransferInBounds'
  BY DEF TransferInBounds, Reads, Writes, IdLen
<1>4. FileInBounds'
  BY DEF FileInBounds
<1>. QED BY <1>1, <1>2, <1>3, <1>4

\* The commands that move no byte: they leave the sector pointer alone.
LEMMA OtherCommandsInv ==
  IInv /\ (ForceInterrupt \/ ReadTrack \/ WriteTrack) /\ UNCHANGED file => IInv'
<1>. SUFFICES ASSUME IInv, ForceInterrupt \/ ReadTrack \/ WriteTrack, UNCHANGED file PROVE IInv'
  OBVIOUS
<1>. USE MicrodiscAssumption DEF IInv, ForceInterrupt, ReadTrack, WriteTrack, Accept, regs,
         ClrIntrq, ClrThenSetIntrq
<1>1. TypeOK'
  <2>1. status' \subseteq Bits /\ op' \in Ops
    BY DEF Bits, Ops
  <2>2. intrq' \in BOOLEAN /\ cpuIrq' \in BOOLEAN /\ drq' \in BOOLEAN
    BY DEF TypeOK, ControlBytes
  <2>3. dInt' \in Nat /\ dDrq' \in Nat
    BY DEF TypeOK, Delays
  <2>. QED BY <2>1, <2>2, <2>3 DEF TypeOK
<1>2. TransferInBounds'
  BY DEF TransferInBounds, Reads, Writes
<1>3. PointerInImage' /\ FileInBounds'
  BY DEF PointerInImage, FileInBounds
<1>. QED BY <1>1, <1>2, <1>3

-----------------------------------------------------------------------------
\* A byte of a sector moves: whether it is the last of the sector or not, the
\* offset that is left is in bounds and the pointer is in an image.
LEMMA TransferByteInv ==
  ASSUME IInv, op \in Reads \cup Writes, TransferByte,
         data' \in 0..RegMax,
         UNCHANGED <<track, outward, cTrack, intrq, control, cpuIrq, file>>
  PROVE  IInv'
<1>. USE MicrodiscAssumption DEF IInv, TransferByte
<1>1. CASE cur = NoSector
  BY <1>1 DEF LosePointer, delay, TypeOK, TransferInBounds, PointerInImage, FileInBounds,
              Bits, Ops, Reads, Writes
<1>2. CASE cur # NoSector
  <2>. USE <1>2 DEF MoveByte, DropDrq
  <2>1. sector' \in 0..RegMax
    BY DEF TypeOK, NextSector
  <2>2. NextSector \in 0..RegMax
    BY DEF TypeOK, NextSector
  <2>3. cur' \in Cells \cup {NoSector} /\ PointerInImage'
    <3>1. CASE UNCHANGED cur
      BY <3>1 DEF TypeOK, PointerInImage
    <3>2. CASE cur' = FindSector(NextSector)
      BY <3>2, <2>2, FindSectorInImage DEF PointerInImage
    <3>. QED BY <3>1, <3>2
  <2>4. TypeOK'
    <3>1. status' \subseteq Bits /\ drq' \in BOOLEAN /\ op' \in Ops
      BY DEF TypeOK, EndAfter, Ops
    <3>2. dInt' \in Nat /\ dDrq' \in Nat /\ offset' \in Nat /\ diStatus' \subseteq Bits
      BY DEF TypeOK, EndAfter, Delays
    <3>. QED BY <2>1, <2>3, <3>1, <3>2 DEF TypeOK
  <2>5. TransferInBounds'
    BY DEF TransferInBounds, TypeOK, MoreBytes, EndAfter, Reads, Writes, Multi
  <2>6. FileInBounds'
    BY DEF FileInBounds
  <2>. QED BY <2>3, <2>4, <2>5, <2>6
<1>. QED BY <1>1, <1>2

\* A byte of the address field moves: all six of them are register values.
LEMMA MoveIdByteInv ==
  ASSUME IInv, op = "READ_ADDRESS", MoveIdByte,
         UNCHANGED <<track, outward, cTrack, intrq, control, cpuIrq, file>>
  PROVE  IInv'
<1>. USE MicrodiscAssumption DEF IInv, MoveIdByte, DropDrq
<1>1. data' \in 0..RegMax
  <2>1. CASE cur = NoSector
    BY <2>1 DEF TypeOK
  <2>2. CASE cur # NoSector
    <3>1. offset + 1 \in 1..6
      BY DEF TypeOK, TransferInBounds, IdLen
    <3>2. \A i \in 1..6 : IdField[i] \in {cTrack, control.side, sector, 1, 0}
      BY DEF IdField
    <3>3. {cTrack, control.side, sector, 1, 0} \subseteq 0..RegMax
      BY DEF TypeOK, ControlBytes
    <3>. QED BY <2>2, <3>1, <3>2, <3>3
  <2>. QED BY <2>1, <2>2
<1>2. TypeOK'
  <2>1. status' \subseteq Bits /\ drq' \in BOOLEAN /\ op' \in Ops
    BY DEF TypeOK, EndAfter, Ops
  <2>2. dInt' \in Nat /\ dDrq' \in Nat /\ offset' \in Nat /\ diStatus' \subseteq Bits
    BY DEF TypeOK, EndAfter, Delays
  <2>. QED BY <1>1, <2>1, <2>2 DEF TypeOK
<1>3. TransferInBounds'
  BY DEF TransferInBounds, TypeOK, EndAfter, Reads, Writes, IdLen
<1>4. PointerInImage' /\ FileInBounds'
  BY DEF PointerInImage, FileInBounds
<1>. QED BY <1>2, <1>3, <1>4

\* A read of the data register, whichever transfer it serves.
LEMMA ReadDataInv == IInv /\ ReadData /\ UNCHANGED file => IInv'
<1>. SUFFICES ASSUME IInv, ReadData, UNCHANGED file PROVE IInv'
  OBVIOUS
<1>1. CASE op \in Reads /\ TransferByte
  <2>1. data' \in 0..RegMax
    BY <1>1, MicrodiscAssumption DEF ReadData, IInv, TypeOK, Reads
  <2>. QED BY <1>1, <2>1, TransferByteInv DEF ReadData
<1>2. CASE op = "READ_ADDRESS" /\ MoveIdByte
  BY <1>2, MoveIdByteInv DEF ReadData
<1>. QED BY <1>1, <1>2 DEF ReadData

\* A write of the data register, in a transfer or as the target of a seek.
LEMMA WriteDataInv ==
  ASSUME IInv, NEW b \in Bytes, WriteData(b), UNCHANGED file
  PROVE  IInv'
<1>1. data' \in 0..RegMax
  BY MicrodiscAssumption DEF WriteData
<1>2. CASE op \in Writes /\ TransferByte
  BY <1>1, <1>2, TransferByteInv DEF WriteData
<1>3. CASE op \notin Writes /\ UNCHANGED <<status, sector, xfer, delay, drq>>
  BY <1>1, <1>3 DEF WriteData, IInv, TypeOK, TransferInBounds, PointerInImage, FileInBounds,
                    xfer, delay
<1>. QED BY <1>2, <1>3 DEF WriteData

-----------------------------------------------------------------------------
\* The registers the controller only latches, and the status read.
LEMMA RegisterInv ==
  ASSUME IInv,
         \/ ReadStatus
         \/ \E b \in Bytes : WriteTrackReg(b) \/ WriteSectorReg(b),
         UNCHANGED file
  PROVE  IInv'
<1>. USE MicrodiscAssumption DEF IInv, TypeOK, TransferInBounds, PointerInImage, FileInBounds,
         regs, xfer, delay, lines
<1>1. CASE ReadStatus
  BY <1>1 DEF ReadStatus, ClrIntrq
<1>2. ASSUME NEW b \in Bytes, WriteTrackReg(b) \/ WriteSectorReg(b) PROVE IInv'
  BY <1>2 DEF WriteTrackReg, WriteSectorReg
<1>. QED BY <1>1, <1>2

\* The interface's control register: INTENA with INTRQ already up, drive and side.
LEMMA WriteControlInv ==
  ASSUME IInv, NEW c \in Controls, WriteControl(c), UNCHANGED file
  PROVE  IInv'
BY MicrodiscAssumption
   DEF WriteControl, ControlBytes, regs, xfer, delay,
       IInv, TypeOK, TransferInBounds, PointerInImage, FileInBounds

\* fdc_ticktock: the delayed DRQ and the delayed INTRQ, one, both or neither.
LEMMA TickInv ==
  ASSUME IInv, NEW n \in StepCycles, Tick(n), UNCHANGED file
  PROVE  IInv'
<1>. USE MicrodiscAssumption DEF IInv, Tick, SetIntrq, regs, xfer
<1>1. dInt' \in Nat /\ dDrq' \in Nat
  BY DEF TypeOK, Left
<1>2. status' \subseteq Bits
  BY DEF TypeOK, Bits
<1>3. drq' \in BOOLEAN /\ intrq' \in BOOLEAN /\ cpuIrq' \in BOOLEAN
  <2>1. Fires(dDrq, n) \in BOOLEAN
    BY DEF Fires
  <2>. QED BY <2>1 DEF TypeOK, ControlBytes
<1>4. TypeOK'
  BY <1>1, <1>2, <1>3 DEF TypeOK
<1>5. TransferInBounds' /\ PointerInImage'
  BY DEF TransferInBounds, PointerInImage
<1>6. FileInBounds'
  BY DEF FileInBounds
<1>. QED BY <1>4, <1>5, <1>6

-----------------------------------------------------------------------------
(* The user's keys *)

\* The file takes a state whose fields have their types and whose transfer is in
\* bounds.
LEMMA SaveInv == IInv /\ Save => IInv'
<1>. SUFFICES ASSUME IInv, Save PROVE IInv'
  OBVIOUS
<1>1. UNCHANGED controller /\ file' = {Snapshot}
  BY DEF Save
<1>2. Snapshot \in FileStates
  BY DEF Snapshot, FileStates, IInv, TypeOK
<1>3. TypeOK'
  BY <1>1, <1>2 DEF controller, regs, xfer, delay, lines, IInv, TypeOK
<1>4. TransferInBounds' /\ PointerInImage'
  BY <1>1 DEF controller, regs, xfer, delay, lines, IInv, TransferInBounds, PointerInImage
<1>5. FileInBounds'
  BY <1>1 DEF Snapshot, IInv, TransferInBounds, FileInBounds
<1>. QED BY <1>3, <1>4, <1>5 DEF IInv

\* And gives back such a one, with no sector pointer at all.
LEMMA LoadInv == IInv /\ Load => IInv'
<1>. SUFFICES ASSUME IInv, Load PROVE IInv'
  OBVIOUS
<1>1. PICK s \in file :
        /\ status' = s.status /\ track' = s.track /\ sector' = s.sector /\ data' = s.data
        /\ outward' = s.outward /\ cTrack' = s.cTrack /\ op' = s.op /\ offset' = s.offset
        /\ dInt' = s.dInt /\ diStatus' = s.diStatus /\ dDrq' = s.dDrq
        /\ drq' = s.drq /\ intrq' = s.intrq /\ control' = s.control
  BY DEF Load
<1>2. cur' = NoSector /\ UNCHANGED <<cpuIrq, file>>
  BY DEF Load
<1>3. s \in FileStates
  BY DEF IInv, TypeOK
<1>4. TypeOK'
  BY <1>1, <1>2, <1>3 DEF IInv, TypeOK, FileStates
<1>5. TransferInBounds'
  <2>1. /\ s.op \in Reads \cup Writes => s.offset < SectorLen
        /\ s.op = "READ_ADDRESS" => s.offset < IdLen
    BY DEF IInv, FileInBounds
  <2>. QED BY <1>1, <2>1 DEF TransferInBounds
<1>6. PointerInImage' /\ FileInBounds'
  BY <1>2 DEF PointerInImage, FileInBounds, IInv
<1>. QED BY <1>4, <1>5, <1>6 DEF IInv

\* The CPU's reset clears its own bit and no more.
LEMMA ResetInv == IInv /\ Reset => IInv'
BY DEF Reset, IInv, TypeOK, TransferInBounds, PointerInImage, FileInBounds, regs, xfer, delay

-----------------------------------------------------------------------------
\* Every byte written to the command register.
LEMMA CommandInv == IInv /\ Command /\ UNCHANGED file => IInv'
<1>. SUFFICES ASSUME IInv, Command, UNCHANGED file PROVE IInv'
  OBVIOUS
<1>1. ASSUME NEW t \in 0..RegMax, SeekTrack(t), outward' \in BOOLEAN PROVE IInv'
  BY <1>1, SeekTrackInv
<1>2. /\ 0 \in 0..RegMax /\ data \in 0..RegMax
      /\ Inward \in 0..RegMax /\ Outward \in 0..RegMax
      /\ outward \in BOOLEAN
  BY MicrodiscAssumption DEF IInv, TypeOK, Inward, Outward
<1>3. CASE Restore \/ Seek \/ StepIn
  BY <1>1, <1>2, <1>3 DEF Restore, Seek, StepIn
<1>4. CASE Step
  BY <1>1, <1>2, <1>4 DEF Step
<1>5. CASE StepOut
  BY <1>5, StepOutInv
<1>6. ASSUME NEW o \in Reads, ReadSector(o) PROVE IInv'
  BY <1>6, SectorCommandInv, MicrodiscAssumption DEF ReadSector, Delays
<1>7. ASSUME NEW o \in Writes, WriteSector(o) PROVE IInv'
  BY <1>7, SectorCommandInv, MicrodiscAssumption DEF WriteSector, Delays
<1>8. CASE ReadAddress
  BY <1>8, ReadAddressInv
<1>9. CASE ForceInterrupt \/ ReadTrack \/ WriteTrack
  BY <1>9, OtherCommandsInv
<1>. QED BY <1>3, <1>4, <1>5, <1>6, <1>7, <1>8, <1>9 DEF Command

LEMMA InitInv == Init => IInv
<1>1. ASSUME Init PROVE TypeOK
  <2>1. control \in ControlBytes
    BY <1>1, MicrodiscAssumption DEF Init, ControlBytes
  <2>2. /\ track \in 0..RegMax /\ sector \in 0..RegMax /\ data \in 0..RegMax
        /\ cTrack \in 0..(RegMax - 1)
        /\ offset \in Nat /\ dInt \in Nat /\ dDrq \in Nat
    BY <1>1, MicrodiscAssumption DEF Init
  <2>3. /\ status \subseteq Bits /\ diStatus \subseteq Bits
        /\ op \in Ops /\ cur \in Cells \cup {NoSector}
        /\ outward \in BOOLEAN /\ drq \in BOOLEAN /\ intrq \in BOOLEAN /\ cpuIrq \in BOOLEAN
    BY <1>1 DEF Init, Ops
  <2>4. file \subseteq FileStates
    BY <1>1 DEF Init
  <2>. QED BY <2>1, <2>2, <2>3, <2>4 DEF TypeOK
<1>2. ASSUME Init PROVE TransferInBounds /\ PointerInImage /\ FileInBounds
  <2>1. op = "NONE" /\ cur = NoSector /\ file = {}
    BY <1>2 DEF Init
  <2>2. op \notin Reads \cup Writes
    BY <2>1 DEF Reads, Writes
  <2>3. TransferInBounds
    BY <2>1, <2>2 DEF TransferInBounds
  <2>4. PointerInImage
    BY <2>1 DEF PointerInImage
  <2>5. FileInBounds
    BY <2>1 DEF FileInBounds
  <2>. QED BY <2>3, <2>4, <2>5
<1>. QED BY <1>1, <1>2 DEF IInv

\* Every step of the controller, and of time, keeps the invariant.
LEMMA StepInv == IInv /\ [Next]_vars => IInv'
<1>. SUFFICES ASSUME IInv, [Next]_vars PROVE IInv'
  OBVIOUS
<1>1. ASSUME Program, UNCHANGED file PROVE IInv'
  <2>1. CASE Command
    BY <1>1, <2>1, CommandInv
  <2>2. CASE ReadStatus
    BY <1>1, <2>2, RegisterInv
  <2>3. CASE ReadData
    BY <1>1, <2>3, ReadDataInv
  <2>4. ASSUME NEW b \in Bytes, WriteData(b) \/ WriteTrackReg(b) \/ WriteSectorReg(b) PROVE IInv'
    BY <1>1, <2>4, WriteDataInv, RegisterInv
  <2>5. ASSUME NEW c \in Controls, WriteControl(c) PROVE IInv'
    BY <1>1, <2>5, WriteControlInv
  <2>6. ASSUME NEW n \in StepCycles, Tick(n) PROVE IInv'
    BY <1>1, <2>6, TickInv
  <2>. QED BY <1>1, <2>1, <2>2, <2>3, <2>4, <2>5, <2>6 DEF Program
<1>2. CASE Save \/ Load \/ Reset
  BY <1>2, SaveInv, LoadInv, ResetInv
<1>3. CASE UNCHANGED vars
  BY <1>3 DEF vars, controller, regs, xfer, delay, lines, IInv, TypeOK, TransferInBounds,
              PointerInImage, FileInBounds
<1>. QED BY <1>1, <1>2, <1>3 DEF Next

\* The inductive invariant of the controller.
THEOREM Invariance == Spec => []IInv
BY InitInv, StepInv, PTL DEF Spec

\* No program, with or without states saved and loaded in the middle of transfers,
\* makes the controller run past a sector or an address field.
THEOREM Bounds == Spec => []TransferInBounds
BY Invariance, PTL DEF IInv

\* No program makes the controller keep a sector pointer outside every image.
THEOREM Pointers == Spec => []PointerInImage
BY Invariance, PTL DEF IInv

\* An access of the program and a tick leave the CPU's bit equal to the gated line,
\* or both as they were.
Follows == cpuIrq' = Line' \/ UNCHANGED <<cpuIrq, Line>>

LEMMA CommandFollows == TypeOK /\ Command => Follows
<1>. SUFFICES ASSUME TypeOK, Command PROVE Follows
  OBVIOUS
<1>0. control.intena \in BOOLEAN
  BY DEF TypeOK, ControlBytes
<1>. USE <1>0 DEF Follows, Line, ClrIntrq, ClrThenSetIntrq
<1>1. ASSUME NEW t, SeekTrack(t) PROVE Follows
  BY <1>1 DEF SeekTrack, SeekOnDisk, SeekNoDisk
<1>2. CASE Restore \/ Seek \/ Step \/ StepIn
  BY <1>1, <1>2 DEF Restore, Seek, Step, StepIn
<1>3. CASE StepOut
  BY <1>1, <1>3 DEF StepOut
<1>4. ASSUME NEW o, NEW first, SectorCommand(o, first) PROVE Follows
  BY <1>4 DEF SectorCommand, NoRecord, Accept
<1>5. CASE (\E o \in Reads : ReadSector(o)) \/ (\E o \in Writes : WriteSector(o))
  BY <1>4, <1>5 DEF ReadSector, WriteSector
<1>6. CASE ReadAddress
  BY <1>6 DEF ReadAddress, NoRecord
<1>7. CASE ForceInterrupt \/ ReadTrack \/ WriteTrack
  BY <1>7 DEF ForceInterrupt, ReadTrack, WriteTrack, Accept
<1>. QED BY <1>2, <1>3, <1>5, <1>6, <1>7 DEF Command

LEMMA TickFollows == ASSUME TypeOK, NEW n, Tick(n) PROVE Follows
<1>1. control' = control /\ cpuIrq \in BOOLEAN /\ control.intena \in BOOLEAN
  BY DEF Tick, TypeOK, ControlBytes
<1>2. CASE SetIntrq
  BY <1>1, <1>2, Zenon DEF SetIntrq, Follows, Line
<1>3. CASE UNCHANGED <<intrq, cpuIrq>>
  BY <1>1, <1>3 DEF Follows, Line
<1>. QED BY <1>2, <1>3 DEF Tick

LEMMA ProgramFollows == TypeOK /\ Program => Follows
<1>. SUFFICES ASSUME TypeOK, Program PROVE Follows
  OBVIOUS
<1>1. CASE ReadStatus
  BY <1>1 DEF ReadStatus, ClrIntrq, Follows, Line
<1>2. CASE ReadData \/ \E b \in Bytes : WriteData(b)
  BY <1>2 DEF ReadData, WriteData, Follows, Line
<1>3. CASE \E b \in Bytes : WriteTrackReg(b) \/ WriteSectorReg(b)
  BY <1>3 DEF WriteTrackReg, WriteSectorReg, lines, Follows, Line
<1>4. ASSUME NEW c \in Controls, WriteControl(c) PROVE Follows
  BY <1>4 DEF WriteControl, Follows, Line
<1>. QED BY <1>1, <1>2, <1>3, <1>4, CommandFollows, TickFollows DEF Program

\* Under every program, and whatever states are saved and loaded, the CPU's disk
\* interrupt follows the gated line; only F4 and F5 part them.
THEOREM Interrupts == Spec => CpuIrqFollows
<1>1. TypeOK /\ [Next]_vars
        => [Load \/ Reset \/ cpuIrq' = Line' \/ UNCHANGED <<cpuIrq, Line>>]_vars
  <2>. SUFFICES ASSUME TypeOK, Next
                PROVE  Load \/ Reset \/ cpuIrq' = Line' \/ UNCHANGED <<cpuIrq, Line>>
    OBVIOUS
  <2>1. CASE Program
    BY <2>1, ProgramFollows DEF Follows
  <2>2. CASE Save
    BY <2>2 DEF Save, controller, lines, Line
  <2>. QED BY <2>1, <2>2 DEF Next
<1>2. IInv => TypeOK
  BY DEF IInv
<1>. QED BY <1>1, <1>2, Invariance, PTL DEF Spec, CpuIrqFollows

\* The registers keep their width and every variable its type.
THEOREM Types == Spec => []TypeOK
BY Invariance, PTL DEF IInv

-----------------------------------------------------------------------------
(* The controller under a program that keeps to the protocol *)

\* Only one thing is due at a time: the next DRQ of a transfer, or the INTRQ that
\* ends the command.  The program's job is the transfer the controller is in.
OneThingDue ==
  /\ intrq \/ dInt > 0 \/ aborted \/ job = "none" => op = "NONE"
  /\ op = "NONE" => ~drq /\ dDrq = 0
  /\ drq => dDrq = 0
  /\ intrq => dInt = 0 /\ "BUSY" \notin status
  /\ dInt > 0 => "BUSY" \notin diStatus
  /\ op \in Reads \cup {"READ_ADDRESS"} => job = "read"
  /\ op \in Writes => job = "write"
  /\ op \in Tracks => job = "track"
\* The saved state is one between two commands.
FileAtRest ==
  \A s \in file : /\ s.op = "NONE" /\ "BUSY" \notin s.status
                  /\ ~s.drq /\ ~s.intrq /\ s.dInt = 0 /\ s.dDrq = 0
RestInv == IInv /\ OneThingDue /\ RestAfterCommand /\ FileAtRest

\* What a transfer has still to move, and where that is on the disk.
Remaining == IF op = "READ_ADDRESS" THEN IdLen - offset
             ELSE (LastSector(op, sector) - sector + 1) * SectorLen - offset
Place(k) == IF op = "READ_ADDRESS" THEN <<cur, offset + k>>
            ELSE <<FindSector(sector + (offset + k) \div SectorLen), (offset + k) % SectorLen>>

\* The bytes moved are the first ones asked for; those still to come are where the
\* controller points and behind; and nothing is left when the command is over.
InTransfer == busy /\ ~aborted /\ op # "NONE" /\ op \notin Tracks
Progress ==
  /\ asked \in Requests /\ moved \in Requests
  /\ busy /\ ~aborted /\ (op = "NONE" \/ op \in Tracks) => moved = asked
  /\ op \in Reads \cup Writes => cur = FindSector(sector) /\ cur # NoSector
  /\ op = "READ_ADDRESS" => cur = FindSector(1) /\ cur # NoSector
  /\ InTransfer =>
       /\ \A i \in 1..Len(moved) : moved[i] = asked[i]
       /\ Len(asked) = Len(moved) + Remaining
       /\ \A k \in 0..(Remaining - 1) : asked[Len(moved) + 1 + k] = Place(k)

-----------------------------------------------------------------------------
\* The program's steps are steps of the controller, so its invariant holds here.
LEMMA DriverSteps == DriverNext => Next
<1>1. Prepare => Program /\ UNCHANGED file
  BY DEF Prepare, Program
<1>2. StartSeek \/ StartRead \/ StartWrite \/ StartReadAddress \/ StartTrack \/ Abort
        => Command /\ UNCHANGED file
  BY DEF StartSeek, StartRead, StartWrite, StartReadAddress, StartTrack, Start, Abort, Command
<1>3. MoveOne \/ TrackByte \/ Acknowledge => Program /\ UNCHANGED file
  BY DEF MoveOne, TrackByte, Acknowledge, Program
<1>4. Pass => Program /\ UNCHANGED file
  BY DEF Pass, Program
<1>5. Saves => Save \/ Load
  BY DEF Saves
<1>6. Command => Program
  BY DEF Program
<1>. QED BY <1>1, <1>2, <1>3, <1>4, <1>5, <1>6 DEF DriverNext, Next

LEMMA DelaysPositive == \A d \in Delays : Delay[d] \in Nat /\ Delay[d] > 0
<1>1. Delay \in [Delays -> Nat \ {0}]
  BY MicrodiscAssumption
<1>. QED BY <1>1

-----------------------------------------------------------------------------
(* One thing is due at a time *)

\* A seek, on a disk or on an empty drive, from rest.
LEMMA SeekRest ==
  ASSUME RestInv, ~busy, busy', job' = "none", ~aborted', NEW t, SeekTrack(t)
  PROVE  OneThingDue'
BY DelaysPositive DEF RestInv, OneThingDue, RestAfterCommand, SeekTrack, SeekOnDisk, SeekNoDisk, ClrIntrq,
       ClrThenSetIntrq, Reads, Writes, Tracks, Delays

LEMMA StartSeekRest == RestInv /\ StartSeek => OneThingDue' /\ busy'
<1>. SUFFICES ASSUME RestInv, StartSeek PROVE OneThingDue' /\ busy'
  OBVIOUS
<1>1. ~busy /\ busy' /\ job' = "none" /\ ~aborted'
  BY DEF StartSeek, Start
<1>2. (\E t : SeekTrack(t)) => OneThingDue'
  BY <1>1, SeekRest
<1>3. CASE Restore \/ Seek \/ Step \/ StepIn
  BY <1>1, <1>2, <1>3 DEF Restore, Seek, Step, StepIn
<1>4. CASE StepOut
  <2>1. CASE SeekTrack(Outward)
    BY <1>1, <1>2, <2>1
  <2>2. CASE ~SeekTrack(Outward)
    BY <1>1, <1>4, <2>2 DEF StepOut, RestInv, OneThingDue, RestAfterCommand, ClrIntrq, delay,
       Reads, Writes, Tracks
  <2>. QED BY <2>1, <2>2
<1>. QED BY <1>1, <1>3, <1>4 DEF StartSeek

\* A transfer, found or not, from rest.
LEMMA StartTransferRest ==
  RestInv /\ (StartRead \/ StartWrite \/ StartReadAddress) => OneThingDue' /\ busy'
<1>. SUFFICES ASSUME RestInv, StartRead \/ StartWrite \/ StartReadAddress
              PROVE  OneThingDue' /\ busy'
  OBVIOUS
<1>. USE DelaysPositive DEF RestInv, OneThingDue, RestAfterCommand, Start, SectorCommand, NoRecord,
         Accept, ClrIntrq, ClrThenSetIntrq, Reads, Writes, Tracks
<1>1. ASSUME NEW o \in Reads, Start("read", SectorBytes(o, sector)), ReadSector(o)
      PROVE  OneThingDue' /\ busy'
  BY <1>1 DEF ReadSector
<1>2. ASSUME NEW o \in Writes, Start("write", SectorBytes(o, sector)), WriteSector(o)
      PROVE  OneThingDue' /\ busy'
  BY <1>2 DEF WriteSector
<1>3. CASE StartReadAddress
  BY <1>3 DEF StartReadAddress, ReadAddress
<1>. QED BY <1>1, <1>2, <1>3 DEF StartRead, StartWrite

\* A track command waits for a DRQ, and then stays with it.
LEMMA TrackRest == RestInv /\ (StartTrack \/ TrackByte) => OneThingDue' /\ busy'
<1>1. ASSUME RestInv, StartTrack PROVE OneThingDue' /\ busy'
  BY <1>1, DelaysPositive DEF StartTrack, Start, ReadTrack, WriteTrack, Accept, ClrIntrq, RestInv, OneThingDue,
     RestAfterCommand, Reads, Writes, Tracks, Delays
<1>2. ASSUME RestInv, TrackByte PROVE OneThingDue' /\ busy'
  <2>1. PICK b \in Bytes : WriteData(b)
    BY <1>2 DEF TrackByte
  <2>2. op \notin Writes
    BY <1>2 DEF TrackByte, RestInv, OneThingDue
  <2>. QED BY <1>2, <2>1, <2>2 DEF TrackByte, WriteData, driver, delay, xfer, RestInv, OneThingDue
<1>. QED BY <1>1, <1>2

\* One byte: the next one, or the end of the command, is all that is due.
LEMMA MoveRest == RestInv /\ MoveOne => OneThingDue' /\ busy'
<1>. SUFFICES ASSUME RestInv, MoveOne PROVE OneThingDue' /\ busy'
  OBVIOUS
<1>. USE DelaysPositive DEF RestInv, OneThingDue
<1>0. /\ drq /\ op # "NONE" /\ dDrq = 0 /\ ~intrq /\ ~(dInt > 0) /\ busy' /\ UNCHANGED <<job, aborted, intrq>>
      /\ dInt \in Nat
  BY DEF MoveOne, ReadData, WriteData, IInv, TypeOK
<1>1. CASE op \in Reads \cup Writes /\ TransferByte
  <2>1. CASE cur = NoSector
    BY <1>0, <1>1, <2>1 DEF TransferByte, LosePointer, delay, Reads, Writes, Tracks
  <2>2. CASE cur # NoSector
    BY <1>0, <1>1, <2>2 DEF TransferByte, MoveByte, DropDrq, EndAfter, Delays, Reads, Writes, Tracks
  <2>. QED BY <2>1, <2>2
<1>2. CASE op = "READ_ADDRESS" /\ MoveIdByte
  BY <1>0, <1>2 DEF MoveIdByte, DropDrq, EndAfter, Delays, Reads, Writes, Tracks
<1>3. \/ op \in Reads \cup Writes /\ TransferByte
      \/ op = "READ_ADDRESS" /\ MoveIdByte
  BY <1>0 DEF MoveOne, ReadData, WriteData, Reads, Writes, Tracks, IInv, TypeOK, Ops
<1>. QED BY <1>1, <1>2, <1>3

\* Time: what was due comes, and nothing with it.
LEMMA PassRest == RestInv /\ Pass => OneThingDue' /\ busy' /\ busy
<1>. SUFFICES ASSUME RestInv, NEW n \in StepCycles, Tick(n), UNCHANGED driver
              PROVE  OneThingDue' /\ busy' /\ busy
  BY DEF Pass
<1>. USE DEF RestInv, OneThingDue, RestAfterCommand, Tick, driver, regs, xfer
<1>0. n \in Nat /\ n > 0 /\ dInt \in Nat /\ dDrq \in Nat
  BY MicrodiscAssumption DEF IInv, TypeOK
<1>1. busy /\ busy'
  BY <1>0
<1>2. CASE dInt > 0
  <2>1. op = "NONE" /\ ~drq /\ dDrq = 0 /\ ~intrq
    BY <1>2
  <2>2. dDrq' = 0 /\ ~drq'
    <3>1. Left(dDrq, n) = 0 /\ ~Fires(dDrq, n)
      BY <2>1, <1>0 DEF Left, Fires
    <3>. QED BY <2>1, <3>1
  <2>3. CASE dInt <= n
    BY <1>0, <1>2, <2>1, <2>2, <2>3 DEF Left, Fires, SetIntrq, Reads, Writes
  <2>4. CASE dInt > n
    BY <1>0, <1>2, <2>1, <2>2, <2>4 DEF Left, Fires, Reads, Writes
  <2>. QED BY <1>0, <2>3, <2>4, <1>1
<1>3. CASE dInt = 0
  <2>1. dDrq > 0 /\ op # "NONE" /\ ~intrq /\ ~drq
    BY <1>0, <1>3
  <2>2. dInt' = 0 /\ intrq' = intrq
    BY <1>0, <1>3 DEF Left, Fires
  <2>3. drq' => dDrq' = 0
    <3>1. Fires(dDrq, n) => Left(dDrq, n) = 0
      BY <1>0 DEF Left, Fires
    <3>. QED BY <2>1, <3>1
  <2>. QED BY <1>1, <2>1, <2>2, <2>3
<1>. QED BY <1>0, <1>2, <1>3

\* The command is over: nothing was due but its INTRQ, which the status read clears.
LEMMA AcknowledgeRest == RestInv /\ Acknowledge => OneThingDue' /\ RestAfterCommand'
<1>. SUFFICES ASSUME RestInv, Acknowledge PROVE OneThingDue' /\ RestAfterCommand'
  OBVIOUS
<1>. QED BY DEF Acknowledge, ReadStatus, ClrIntrq, RestInv, OneThingDue, RestAfterCommand, regs, xfer, delay,
       Reads, Writes

LEMMA OthersRest ==
  /\ RestInv /\ Prepare => OneThingDue' /\ RestAfterCommand'
  /\ RestInv /\ Abort => OneThingDue' /\ busy'
  /\ "busy" \notin SavesAt /\ RestInv /\ Saves => OneThingDue' /\ RestAfterCommand' /\ FileAtRest'
<1>. USE DEF RestInv, OneThingDue, RestAfterCommand, driver, regs, xfer, delay, lines, Reads, Writes
<1>1. ASSUME RestInv, Prepare PROVE OneThingDue' /\ RestAfterCommand'
  <2>1. ASSUME NEW c \in Controls, ~busy, WriteControl(c), UNCHANGED driver
        PROVE  OneThingDue' /\ RestAfterCommand'
    BY <1>1, <2>1 DEF WriteControl
  <2>2. ASSUME NEW b \in Bytes, ~busy, WriteData(b) \/ WriteSectorReg(b), UNCHANGED driver
        PROVE  OneThingDue' /\ RestAfterCommand'
    BY <1>1, <2>2 DEF WriteData, WriteSectorReg
  <2>. QED BY <1>1, <2>1, <2>2 DEF Prepare
<1>2. ASSUME RestInv, Abort PROVE OneThingDue' /\ busy'
  BY <1>2 DEF Abort, ForceInterrupt, ClrThenSetIntrq, Tracks
<1>3. ASSUME "busy" \notin SavesAt, RestInv, Saves PROVE OneThingDue' /\ RestAfterCommand' /\ FileAtRest'
  <2>1. ~busy /\ UNCHANGED driver
    BY <1>3 DEF Saves
  <2>2. CASE Save
    <3>1. file' = {Snapshot} /\ UNCHANGED controller
      BY <2>2 DEF Save
    <3>2. FileAtRest'
      BY <1>3, <2>1, <3>1 DEF FileAtRest, Snapshot
    <3>. QED BY <1>3, <2>1, <3>1, <3>2 DEF controller
  <2>3. CASE Load
    <3>1. /\ op' = "NONE" /\ "BUSY" \notin status' /\ ~drq' /\ ~intrq' /\ dInt' = 0 /\ dDrq' = 0
          /\ UNCHANGED <<cpuIrq, file>>
      BY <1>3, <2>3 DEF Load, FileAtRest
    <3>2. FileAtRest'
      BY <1>3, <3>1 DEF FileAtRest
    <3>3. UNCHANGED driver /\ ~cpuIrq'
      BY <1>3, <2>1, <3>1
    <3>. QED BY <3>1, <3>2, <3>3 DEF Tracks
  <2>. QED BY <1>3, <2>2, <2>3 DEF Saves
<1>. QED BY <1>1, <1>2, <1>3

LEMMA RestStep ==
  ASSUME "busy" \notin SavesAt, RestInv, [DriverNext]_allVars
  PROVE  RestInv'
<1>1. IInv'
  <2>1. [Next]_vars
    BY DriverSteps DEF allVars
  <2>. QED BY <2>1, StepInv DEF RestInv
<1>2. OneThingDue' /\ RestAfterCommand'
  <2>1. busy' => RestAfterCommand'
    BY DEF RestAfterCommand
  <2>2. CASE StartSeek \/ StartRead \/ StartWrite \/ StartReadAddress \/ StartTrack
    BY <2>1, <2>2, StartSeekRest, StartTransferRest, TrackRest
  <2>3. CASE MoveOne \/ TrackByte \/ Abort \/ Pass
    BY <2>1, <2>3, MoveRest, TrackRest, PassRest, OthersRest
  <2>4. CASE Acknowledge \/ Prepare \/ Saves
    BY <2>4, AcknowledgeRest, OthersRest
  <2>5. CASE UNCHANGED allVars
    BY <2>5 DEF allVars, vars, controller, driver, regs, xfer, delay, lines, RestInv, OneThingDue, RestAfterCommand
  <2>. QED BY <2>2, <2>3, <2>4, <2>5 DEF DriverNext
<1>3. FileAtRest'
  <2>1. CASE Saves
    BY <2>1, OthersRest
  <2>2. CASE StartSeek \/ StartRead \/ StartWrite \/ StartReadAddress \/ StartTrack
    BY <2>2 DEF StartSeek, StartRead, StartWrite, StartReadAddress, StartTrack, Start, RestInv, FileAtRest
  <2>3. CASE Prepare \/ MoveOne \/ TrackByte \/ Acknowledge \/ Abort \/ Pass
    BY <2>3 DEF Prepare, MoveOne, TrackByte, Acknowledge, Abort, Pass, RestInv, FileAtRest
  <2>4. CASE UNCHANGED allVars
    BY <2>4 DEF allVars, vars, RestInv, FileAtRest
  <2>. QED BY <2>1, <2>2, <2>3, <2>4 DEF DriverNext
<1>. QED BY <1>1, <1>2, <1>3 DEF RestInv

\* A command that has been ended by the program's status read leaves the controller
\* at rest, whatever the command was and however it went, and so does a state saved
\* between two commands and loaded between two others.
THEOREM Rest == ASSUME "busy" \notin SavesAt PROVE DriverSpec => []RestAfterCommand
<1>1. DriverInit => RestInv
  BY InitInv DEF DriverInit, Init, RestInv, OneThingDue, RestAfterCommand, FileAtRest, Reads, Writes, Tracks
<1>2. RestInv => RestAfterCommand
  BY DEF RestInv
<1>3. RestInv /\ [DriverNext]_allVars => RestInv'
  BY RestStep
<1>. QED BY <1>1, <1>2, <1>3, PTL DEF DriverSpec

-----------------------------------------------------------------------------
(* Places of bytes *)

\* Quotient and remainder are the only ones there are.
LEMMA DivModUnique ==
  ASSUME NEW L \in Nat \ {0}, NEW x \in Nat, NEW q \in Nat, NEW r \in 0..(L - 1), x = L * q + r
  PROVE  x \div L = q /\ x % L = r
OBVIOUS

\* The byte SectorLen further is at the same offset of the next sector.
LEMMA NextSectorPlace ==
  ASSUME NEW L \in Nat \ {0}, NEW k \in Nat
  PROVE  (L + k) \div L = 1 + (k \div L) /\ (L + k) % L = k % L
<1>1. k \div L \in Nat /\ k % L \in 0..(L - 1) /\ k = L * (k \div L) + (k % L)
  OBVIOUS
<1>2. L + k = L * (1 + (k \div L)) + (k % L)
  BY <1>1
<1>3. L + k \in Nat /\ 1 + (k \div L) \in Nat
  BY <1>1
<1>. QED BY <1>1, <1>2, <1>3, DivModUnique

LEMMA PlaceInSectors ==
  ASSUME NEW L \in Nat \ {0}, NEW n \in Nat, NEW k \in Nat, k < n * L
  PROVE  k \div L \in Nat /\ k \div L < n /\ k % L \in Nat
<1>1. k \div L \in Nat /\ k % L \in Nat
  OBVIOUS
<1>2. k \div L < n
  OBVIOUS
<1>. QED BY <1>1, <1>2

\* A sector that is found has the rest of its track behind it.
LEMMA TrackBehind ==
  ASSUME IInv, NEW id \in 0..RegMax, FindSector(id) # NoSector
  PROVE  /\ Mounted.sectors \in Nat /\ Mounted.sectors < RegMax /\ id \in 1..Mounted.sectors
         /\ \A j \in id..Mounted.sectors : FindSector(j) \in Cells /\ FindSector(j) # NoSector
         /\ FindSector(Mounted.sectors + 1) = NoSector
<1>1. Mounted \in Geometries /\ Mounted.sectors < RegMax
  BY MicrodiscAssumption DEF Mounted, IInv, TypeOK, ControlBytes
<1>2. id \in 1..Mounted.sectors /\ cTrack < Mounted.tracks /\ control.side < Mounted.sides
  BY DEF FindSector
<1>3. ASSUME NEW j \in id..Mounted.sectors PROVE FindSector(j) \in Cells /\ FindSector(j) # NoSector
  <2>1. FindSector(j) = <<control.drive, control.side, cTrack, j>> /\ j \in Nat
    BY <1>1, <1>2 DEF FindSector, Geometries
  <2>2. <<control.drive, control.side, cTrack, j>> \in Cells
    BY <2>1, MicrodiscAssumption DEF Cells, IInv, TypeOK, ControlBytes
  <2>. QED BY <2>1, <2>2, MicrodiscAssumption
<1>4. FindSector(Mounted.sectors + 1) = NoSector
  BY <1>1 DEF FindSector, Geometries
<1>. QED BY <1>1, <1>2, <1>3, <1>4 DEF Geometries

\* What a sector command asks for, byte by byte.
LEMMA SectorBytesPlaces ==
  ASSUME IInv, NEW o \in Reads \cup Writes, NEW id \in 0..RegMax
  PROVE  /\ SectorBytes(o, id) \in Requests
         /\ FindSector(id) # NoSector =>
              /\ Len(SectorBytes(o, id)) = (LastSector(o, id) - id + 1) * SectorLen
              /\ \A k \in 0..((LastSector(o, id) - id + 1) * SectorLen - 1) :
                   SectorBytes(o, id)[1 + k] = <<FindSector(id + k \div SectorLen), k % SectorLen>>
<1>1. CASE FindSector(id) = NoSector
  BY <1>1, EmptySeq DEF SectorBytes, Requests
<1>2. CASE FindSector(id) # NoSector
  <2>. DEFINE n == LastSector(o, id) - id + 1
              place(i) == <<FindSector(id + (i - 1) \div SectorLen), (i - 1) % SectorLen>>
              bytes == [i \in 1..n * SectorLen |-> place(i)]
  <2>1. SectorBytes(o, id) = bytes
    BY <1>2 DEF SectorBytes
  <2>2. n \in Nat /\ id \in Nat /\ \A j \in 0..(n - 1) : FindSector(id + j) \in Cells
    BY <1>2, TrackBehind DEF LastSector
  <2>3. SectorLen \in Nat \ {0}
    BY MicrodiscAssumption
  <2>. HIDE DEF n
  <2>4. n * SectorLen \in Nat
    BY <2>2, <2>3
  <2>5. ASSUME NEW i \in 1..n * SectorLen PROVE place(i) \in Cells \X Nat
    <3>1. i - 1 \in Nat /\ i - 1 < n * SectorLen
      BY <2>4
    <3>2. n \in Nat
      BY <2>2
    <3>3. /\ (i - 1) \div SectorLen \in Nat /\ (i - 1) \div SectorLen < n
          /\ (i - 1) % SectorLen \in Nat
      BY <2>3, <3>1, <3>2, PlaceInSectors
    <3>4. (i - 1) \div SectorLen \in 0..(n - 1)
      BY <3>2, <3>3
    <3>. QED BY <2>2, <3>3, <3>4
  <2>. HIDE DEF place
  <2>6. bytes \in Seq(Cells \X Nat) /\ Len(bytes) = n * SectorLen
    <3>1. bytes \in [1..n * SectorLen -> Cells \X Nat]
      BY <2>5
    <3>. HIDE DEF bytes
    <3>. QED BY <2>4, <3>1, SeqDef, LenProperties
  <2>7. ASSUME NEW k \in 0..(n * SectorLen - 1)
        PROVE  bytes[1 + k] = <<FindSector(id + k \div SectorLen), k % SectorLen>>
    <3>1. 1 + k \in 1..n * SectorLen /\ (1 + k) - 1 = k
      BY <2>4
    <3>2. bytes[1 + k] = place(1 + k)
      BY <3>1
    <3>. QED BY <3>1, <3>2 DEF place
  <2>. QED BY <1>2, <2>1, <2>6, <2>7 DEF Requests, n
<1>. QED BY <1>1, <1>2

\* And what Read Address asks for.
LEMMA IdBytesPlaces ==
  ASSUME IInv
  PROVE  /\ IdBytes \in Requests
         /\ FindSector(1) # NoSector =>
              Len(IdBytes) = IdLen /\ \A k \in 0..(IdLen - 1) : IdBytes[1 + k] = <<FindSector(1), k>>
<1>1. CASE FindSector(1) = NoSector
  BY <1>1, EmptySeq DEF IdBytes, Requests
<1>2. CASE FindSector(1) # NoSector
  <2>1. FindSector(1) \in Cells
    BY <1>2, FindSectorInImage, MicrodiscAssumption DEF IInv
  <2>. DEFINE bytes == [i \in 1..IdLen |-> <<FindSector(1), i - 1>>]
  <2>2. IdBytes = bytes
    BY <1>2 DEF IdBytes
  <2>3. bytes \in Seq(Cells \X Nat) /\ Len(bytes) = IdLen
    <3>1. bytes \in [1..IdLen -> Cells \X Nat] /\ IdLen \in Nat
      BY <2>1 DEF IdLen
    <3>. QED BY <3>1, SeqDef, LenProperties
  <2>4. \A k \in 0..(IdLen - 1) : bytes[1 + k] = <<FindSector(1), k>>
    BY DEF IdLen
  <2>. QED BY <2>2, <2>3, <2>4 DEF Requests
<1>. QED BY <1>1, <1>2

-----------------------------------------------------------------------------
(* A transfer makes progress *)

ProgInv == RestInv /\ Progress

LEMMA DriverTypes == IInv => /\ SectorLen \in Nat \ {0} /\ offset \in Nat /\ sector \in 0..RegMax
                             /\ RegMax \in Nat /\ cur \in Cells \cup {NoSector} /\ NoSector \notin Cells
BY MicrodiscAssumption DEF IInv, TypeOK

\* A command that finds its sector has the sector, or the track, before it.
LEMMA StartSectorProgress ==
  ASSUME ProgInv, NEW o \in Reads \cup Writes, NEW newJob, NEW first,
         Start(newJob, SectorBytes(o, sector)), SectorCommand(o, first)
  PROVE  Progress'
<1>1. /\ cTrack' = cTrack /\ control' = control /\ sector' = sector
      /\ asked' = SectorBytes(o, sector) /\ moved' = <<>>
      /\ offset' = 0 /\ cur' = FindSector(sector)
  BY DEF Start, SectorCommand, regs
<1>2. asked' \in Requests /\ moved' \in Requests /\ Len(moved') = 0
  BY <1>1, DriverTypes, SectorBytesPlaces, EmptySeq DEF ProgInv, RestInv, Requests
<1>3. CASE FindSector(sector) = NoSector
  <2>1. op' = "NONE" /\ asked' = <<>>
    BY <1>1, <1>3 DEF SectorCommand, NoRecord, SectorBytes
  <2>. QED BY <1>1, <1>2, <2>1 DEF Progress, InTransfer, Reads, Writes
<1>4. CASE FindSector(sector) # NoSector
  <2>1. op' = o /\ o \notin {"NONE", "READ_ADDRESS"} \cup Tracks
    BY <1>1, <1>4 DEF SectorCommand, Accept, Reads, Writes, Tracks
  <2>2. /\ Len(asked') = (LastSector(o, sector) - sector + 1) * SectorLen
        /\ \A k \in 0..((LastSector(o, sector) - sector + 1) * SectorLen - 1) :
             asked'[1 + k] = <<FindSector(sector + k \div SectorLen), k % SectorLen>>
    BY <1>1, <1>4, DriverTypes, SectorBytesPlaces DEF ProgInv, RestInv
  <2>3. Remaining' = (LastSector(o, sector) - sector + 1) * SectorLen - 0
    BY <1>1, <2>1 DEF Remaining, LastSector, Mounted
  <2>4. \A k \in Nat : Place(k)' = <<FindSector(sector + (0 + k) \div SectorLen), (0 + k) % SectorLen>>
    BY <1>1, <2>1 DEF Place, FindSector, Mounted
  <2>. DEFINE n == (LastSector(o, sector) - sector + 1) * SectorLen
  <2>5. n \in Nat
    <3>1. LastSector(o, sector) - sector + 1 \in Nat /\ SectorLen \in Nat
      BY <1>4, DriverTypes, TrackBehind DEF ProgInv, RestInv, LastSector
    <3>. HIDE DEF n
    <3>2. \A a \in Nat : a * SectorLen \in Nat
      BY <3>1
    <3>. QED BY <3>1, <3>2 DEF n
  <2>6. /\ Len(asked') = n /\ Remaining' = n
        /\ \A k \in 0..(n - 1) : asked'[1 + k] = Place(k)'
    <3>1. Len(asked') = n /\ Remaining' = n - 0
      BY <2>2, <2>3
    <3>2. \A k \in 0..(n - 1) : asked'[1 + k] = <<FindSector(sector + k \div SectorLen), k % SectorLen>>
      BY <2>2
    <3>. HIDE DEF n
    <3>3. ASSUME NEW k \in 0..(n - 1) PROVE asked'[1 + k] = Place(k)'
      <4>1. k \in Nat /\ 0 + k = k
        BY <2>5
      <4>2. Place(k)' = <<FindSector(sector + k \div SectorLen), k % SectorLen>>
        BY <2>4, <4>1
      <4>. QED BY <3>2, <4>2
    <3>. QED BY <2>5, <3>1, <3>3
  <2>. HIDE DEF n
  <2>7. cur' = FindSector(sector)' /\ cur' # NoSector
    BY <1>1, <1>4 DEF FindSector, Mounted
  <2>8. /\ \A i \in 1..Len(moved') : moved'[i] = asked'[i]
        /\ Len(asked') = Len(moved') + Remaining'
        /\ \A k \in 0..(Remaining' - 1) : asked'[Len(moved') + 1 + k] = Place(k)'
    BY <1>2, <2>5, <2>6
  <2>. QED BY <1>2, <2>1, <2>7, <2>8 DEF Progress
<1>. QED BY <1>3, <1>4

\* Read Address, the same with the six bytes of an address field.
LEMMA StartReadAddressProgress == ProgInv /\ StartReadAddress => Progress'
<1>. SUFFICES ASSUME ProgInv, StartReadAddress PROVE Progress'
  OBVIOUS
<1>1. /\ cTrack' = cTrack /\ control' = control
      /\ asked' = IdBytes /\ moved' = <<>> /\ offset' = 0 /\ cur' = FindSector(1)
  BY DEF StartReadAddress, Start, ReadAddress, regs
<1>2. asked' \in Requests /\ moved' \in Requests /\ Len(moved') = 0
  BY <1>1, IdBytesPlaces, EmptySeq DEF ProgInv, RestInv, Requests
<1>3. CASE FindSector(1) = NoSector
  <2>1. op' = "NONE" /\ asked' = <<>>
    BY <1>1, <1>3 DEF StartReadAddress, ReadAddress, NoRecord, IdBytes
  <2>. QED BY <1>1, <1>2, <2>1 DEF Progress, InTransfer, Reads, Writes
<1>4. CASE FindSector(1) # NoSector
  <2>1. op' = "READ_ADDRESS"
    BY <1>1, <1>4 DEF StartReadAddress, ReadAddress
  <2>2. Len(asked') = 6 /\ \A k \in 0..5 : asked'[1 + k] = <<FindSector(1), k>>
    BY <1>1, <1>4, IdBytesPlaces DEF ProgInv, RestInv, IdLen
  <2>3. Remaining' = 6 /\ \A k \in Nat : Place(k)' = <<FindSector(1), k>>
    BY <1>1, <2>1 DEF Remaining, Place, IdLen
  <2>4. cur' = FindSector(1)' /\ cur' # NoSector
    BY <1>1, <1>4 DEF FindSector, Mounted
  <2>. QED BY <1>2, <2>1, <2>2, <2>3, <2>4 DEF Progress, Reads, Writes, Tracks
<1>. QED BY <1>3, <1>4

\* Arithmetic of a transfer that is at byte f of the first of m sectors.
LEMMA BytesLeft ==
  ASSUME NEW L \in Nat \ {0}, NEW m \in Nat \ {0}, NEW f \in Nat, f < L
  PROVE  /\ m * L - f \in Nat /\ m * L - f >= 1
         /\ f \div L = 0 /\ f % L = f
         /\ f + 1 = L => (m - 1) * L = (m * L - f) - 1
<1>1. m * L >= L /\ m * L \in Nat
  OBVIOUS
<1>2. f + 1 = L => (m - 1) * L = (m * L - f) - 1
  OBVIOUS
<1>3. f = L * 0 + f /\ f \in 0..(L - 1) /\ 0 \in Nat
  OBVIOUS
<1>4. f \div L = 0 /\ f % L = f
  BY <1>3, DivModUnique
<1>. QED BY <1>1, <1>2, <1>4

\* What one byte of a transfer does: the byte is the one due, and either all that
\* is left moves up by one, or nothing was left and the transfer is over.
ByteMoved ==
  /\ Remaining \in Nat /\ Remaining >= 1
  /\ <<cur, offset>> = Place(0)
  /\ UNCHANGED <<cTrack, control>>
  /\ \/ /\ op' = op /\ Remaining' = Remaining - 1
        /\ \A k \in Nat : Place(k)' = Place(k + 1)
        /\ op' \in Reads \cup Writes => cur' = FindSector(sector)' /\ cur' # NoSector
        /\ op' = "READ_ADDRESS" => cur' = FindSector(1)' /\ cur' # NoSector
     \/ op' = "NONE" /\ Remaining = 1

LEMMA MoveSectorByte ==
  ASSUME ProgInv, op \in Reads \cup Writes, TransferByte, UNCHANGED <<cTrack, control>>
  PROVE  ByteMoved
<1>. DEFINE m == LastSector(op, sector) - sector + 1
            L == SectorLen
<1>1. /\ cur = FindSector(sector) /\ cur # NoSector /\ op # "READ_ADDRESS"
      /\ offset < L /\ L \in Nat \ {0} /\ offset \in Nat /\ sector \in 0..RegMax /\ RegMax \in Nat
  BY DriverTypes DEF ProgInv, RestInv, IInv, TransferInBounds, Progress, Reads, Writes
<1>2. /\ Mounted.sectors \in Nat /\ Mounted.sectors < RegMax /\ sector \in 1..Mounted.sectors
      /\ \A j \in sector..Mounted.sectors : FindSector(j) # NoSector
      /\ FindSector(Mounted.sectors + 1) = NoSector
  BY <1>1, TrackBehind DEF ProgInv, RestInv
<1>3. m \in Nat \ {0}
  BY <1>1, <1>2 DEF LastSector
<1>4. MoveByte
  BY <1>1 DEF TransferByte
<1>5. Remaining = m * L - offset
  BY <1>1 DEF Remaining
<1>6. \A k \in Nat : Place(k) = <<FindSector(sector + (offset + k) \div L), (offset + k) % L>>
  BY <1>1 DEF Place
<1>7. Remaining \in Nat /\ Remaining >= 1 /\ <<cur, offset>> = Place(0)
  <2>1. \A a \in Nat \ {0} : a * L - offset \in Nat /\ a * L - offset >= 1
    BY <1>1, BytesLeft
  <2>2. offset \div L = 0 /\ offset % L = offset
    BY <1>1, BytesLeft, 1 \in Nat \ {0}
  <2>3. Place(0) = <<FindSector(sector + (offset + 0) \div L), (offset + 0) % L>>
    BY <1>6
  <2>4. offset + 0 = offset /\ sector + 0 = sector
    BY <1>1
  <2>. HIDE DEF m
  <2>5. Place(0) = <<FindSector(sector + offset \div L), offset % L>>
    BY <2>3, <2>4
  <2>6. Place(0) = <<FindSector(sector), offset>>
    BY <2>2, <2>4, <2>5
  <2>7. Remaining \in Nat /\ Remaining >= 1
    BY <1>3, <1>5, <2>1
  <2>. QED BY <1>1, <2>6, <2>7
<1>8. CASE MoreBytes /\ offset' = offset + 1 /\ UNCHANGED <<sector, cur, op, dInt, diStatus>>
  <2>1. op' = op /\ Remaining' = m * L - (offset + 1)
    BY <1>1, <1>8 DEF Remaining, LastSector, Mounted
  <2>2. \A k \in Nat : Place(k)' = <<FindSector(sector + ((offset + 1) + k) \div L), ((offset + 1) + k) % L>>
    BY <1>1, <1>8 DEF Place, FindSector, Mounted
  <2>3. ASSUME NEW k \in Nat PROVE Place(k)' = Place(k + 1)
    <3>1. (offset + 1) + k = offset + (k + 1) /\ k + 1 \in Nat
      BY <1>1
    <3>. QED BY <1>6, <2>2, <3>1
  <2>4. Remaining' = Remaining - 1
    <3>1. \A a \in Int : a - (offset + 1) = (a - offset) - 1
      BY <1>1
    <3>2. m * L \in Int
      <4>. HIDE DEF m, L
      <4>. QED BY <1>1, <1>3
    <3>. QED BY <1>5, <2>1, <3>1, <3>2
  <2>5. cur' = FindSector(sector)' /\ cur' # NoSector
    BY <1>1, <1>8 DEF FindSector, Mounted
  <2>. QED BY <1>1, <1>7, <2>1, <2>3, <2>4, <2>5 DEF ByteMoved
<1>9. CASE ~MoreBytes /\ op \in Multi /\ sector' = NextSector /\ offset' = 0
           /\ cur' = FindSector(NextSector)
           /\ IF cur' # NoSector
              THEN dDrq' = Delay["next"] /\ UNCHANGED <<op, dInt, diStatus>>
              ELSE EndAfter(Delay["end"])
  <2>1. offset + 1 = L /\ LastSector(op, sector) = Mounted.sectors /\ m = Mounted.sectors - sector + 1
    BY <1>1, <1>9 DEF MoreBytes, LastSector
  <2>2. NextSector = sector + 1
    <3>1. sector + 1 \in Nat /\ sector + 1 < RegMax + 1
      BY <1>1, <1>2
    <3>2. (sector + 1) % (RegMax + 1) = sector + 1
      BY <1>1, <3>1
    <3>. QED BY <3>2 DEF NextSector
  <2>3. CASE cur' # NoSector
    <3>1. op' = op /\ op' \in Multi
      BY <1>9, <2>3
    <3>2. Remaining' = (Mounted.sectors - (sector + 1) + 1) * L - 0
      BY <1>1, <1>9, <2>2, <3>1 DEF Remaining, LastSector, Mounted
    <3>3. Remaining' = Remaining - 1
      <4>1. Mounted.sectors - (sector + 1) + 1 = m - 1
        BY <1>1, <1>2, <2>1
      <4>. HIDE DEF m
      <4>2. (m - 1) * L = (m * L - offset) - 1
        BY <1>1, <1>3, <2>1, BytesLeft
      <4>3. (m * L - offset) - 1 = ((m * L - offset) - 1) - 0
        BY <1>5, <1>7
      <4>. QED BY <1>5, <3>2, <4>1, <4>2, <4>3
    <3>4. \A k \in Nat : Place(k)' = <<FindSector((sector + 1) + (0 + k) \div L), (0 + k) % L>>
      BY <1>1, <1>9, <2>2, <3>1 DEF Place, FindSector, Mounted
    <3>5. ASSUME NEW k \in Nat PROVE Place(k)' = Place(k + 1)
      <4>1. 0 + k = k /\ offset + (k + 1) = L + k /\ k + 1 \in Nat
        BY <1>1, <2>1
      <4>2. (L + k) \div L = 1 + (k \div L) /\ (L + k) % L = k % L
        BY <1>1, NextSectorPlace
      <4>3. (sector + 1) + (k \div L) = sector + (1 + (k \div L))
        <5>1. k \div L \in Nat
          BY <1>1
        <5>. QED BY <1>1, <5>1
      <4>4. Place(k)' = <<FindSector((sector + 1) + (k \div L)), k % L>>
        BY <3>4, <4>1
      <4>5. Place(k + 1) = <<FindSector(sector + ((L + k) \div L)), (L + k) % L>>
        BY <1>6, <4>1
      <4>. QED BY <4>2, <4>3, <4>4, <4>5
    <3>6. cur' = FindSector(sector)' /\ op' # "READ_ADDRESS"
      BY <1>9, <3>1 DEF FindSector, Mounted, Multi
    <3>. QED BY <1>7, <2>3, <3>1, <3>3, <3>5, <3>6 DEF ByteMoved
  <2>4. CASE cur' = NoSector
    <3>1. op' = "NONE"
      BY <1>9, <2>4 DEF EndAfter
    <3>2. sector = Mounted.sectors
      <4>1. FindSector(sector + 1) = NoSector
        BY <1>9, <2>2, <2>4
      <4>2. sector + 1 \notin sector..Mounted.sectors
        BY <1>2, <4>1
      <4>. QED BY <1>1, <1>2, <4>2
    <3>3. Remaining = 1
      BY <1>1, <1>5, <2>1, <3>2
    <3>. QED BY <1>7, <3>1, <3>3 DEF ByteMoved
  <2>. QED BY <2>3, <2>4
<1>10. CASE ~MoreBytes /\ op \notin Multi /\ EndAfter(Delay["last"])
  <2>1. offset + 1 = L /\ m = 1
    BY <1>1, <1>10 DEF MoreBytes, LastSector
  <2>2. Remaining = 1
    BY <1>1, <1>5, <2>1
  <2>. QED BY <1>7, <1>10, <2>2 DEF ByteMoved, EndAfter
<1>. QED BY <1>4, <1>8, <1>9, <1>10 DEF MoveByte

LEMMA MoveIdByteMoved ==
  ASSUME ProgInv, op = "READ_ADDRESS", MoveIdByte, UNCHANGED <<cTrack, control>>
  PROVE  ByteMoved
<1>1. cur = FindSector(1) /\ cur # NoSector /\ offset \in Nat /\ offset < 6
  BY DriverTypes DEF ProgInv, RestInv, IInv, TransferInBounds, Progress, IdLen
<1>2. Remaining = 6 - offset /\ \A k \in Nat : Place(k) = <<cur, offset + k>>
  BY DEF Remaining, Place, IdLen
<1>3. Remaining \in Nat /\ Remaining >= 1 /\ <<cur, offset>> = Place(0)
  BY <1>1, <1>2
<1>4. offset' = offset + 1 /\ cur' = cur
  BY <1>1 DEF MoveIdByte
<1>5. CASE offset + 1 >= 6
  BY <1>1, <1>2, <1>3, <1>4, <1>5 DEF MoveIdByte, EndAfter, ByteMoved, IdLen
<1>6. CASE ~(offset + 1 >= 6)
  <2>1. op' = op
    BY <1>4, <1>6 DEF MoveIdByte, IdLen
  <2>2. Remaining' = 6 - (offset + 1) /\ \A k \in Nat : Place(k)' = <<cur, (offset + 1) + k>>
    BY <1>4, <2>1 DEF Remaining, Place, IdLen
  <2>3. Remaining' = Remaining - 1
    BY <1>1, <1>2, <2>2
  <2>5. ASSUME NEW k \in Nat PROVE Place(k)' = Place(k + 1)
    <3>1. (offset + 1) + k = offset + (k + 1) /\ k + 1 \in Nat
      BY <1>1
    <3>. QED BY <1>2, <2>2, <3>1
  <2>4. cur' = FindSector(1)'
    BY <1>1, <1>4 DEF FindSector, Mounted
  <2>. QED BY <1>1, <1>3, <1>4, <2>1, <2>3, <2>4, <2>5 DEF ByteMoved, Reads, Writes
<1>. QED BY <1>5, <1>6

\* A byte moved keeps the bookkeeping, and is the next one of the request.
LEMMA MoveProgress ==
  ASSUME ProgInv, MoveOne
  PROVE  Progress' /\ Abstract!Move
<1>1. /\ drq /\ busy /\ op # "NONE" /\ op \notin Tracks /\ ~aborted /\ UNCHANGED <<busy, asked, aborted, cTrack, control>>
      /\ moved' = Append(moved, <<cur, offset>>)
  BY DEF MoveOne, ReadData, WriteData, ProgInv, RestInv, OneThingDue
<1>2. ByteMoved
  <2>1. \/ op \in Reads \cup Writes /\ TransferByte
        \/ op = "READ_ADDRESS" /\ MoveIdByte
    BY <1>1 DEF MoveOne, ReadData, WriteData, ProgInv, RestInv, OneThingDue, Reads, Writes, IInv, TypeOK, Ops, Tracks
  <2>. QED BY <1>1, <2>1, MoveSectorByte, MoveIdByteMoved
<1>3. /\ asked \in Requests /\ moved \in Requests
      /\ \A i \in 1..Len(moved) : moved[i] = asked[i]
      /\ Len(asked) = Len(moved) + Remaining
      /\ \A k \in 0..(Remaining - 1) : asked[Len(moved) + 1 + k] = Place(k)
  BY <1>1 DEF ProgInv, Progress, InTransfer
<1>4. Len(moved) \in Nat /\ Len(asked) \in Nat /\ Remaining \in Nat /\ Remaining >= 1
  BY <1>2, <1>3, LenProperties DEF ByteMoved, Requests
<1>5. <<cur, offset>> = asked[Len(moved) + 1]
  <2>1. 0 \in 0..(Remaining - 1) /\ Len(moved) + 1 + 0 = Len(moved) + 1
    BY <1>4
  <2>2. asked[Len(moved) + 1 + 0] = Place(0)
    BY <1>3, <2>1
  <2>. QED BY <1>2, <2>1, <2>2 DEF ByteMoved
<1>6. Abstract!Move
  <2>1. Len(moved) < Len(asked)
    BY <1>3, <1>4
  <2>. QED BY <1>1, <1>5, <2>1 DEF Abstract!Move
<1>7. /\ moved' \in Requests /\ Len(moved') = Len(moved) + 1
      /\ \A i \in 1..Len(moved') : moved'[i] = asked[i]
  <2>1. asked[Len(moved) + 1] \in Cells \X Nat
    <3>1. Len(moved) + 1 \in 1..Len(asked)
      BY <1>3, <1>4
    <3>. QED BY <1>3, <3>1, ElementOfSeq DEF Requests
  <2>2. /\ moved' \in Requests /\ Len(moved') = Len(moved) + 1
        /\ \A i \in 1..Len(moved) : moved'[i] = moved[i]
        /\ moved'[Len(moved) + 1] = asked[Len(moved) + 1]
    <3>. DEFINE e == asked[Len(moved) + 1]
    <3>1. moved' = Append(moved, e) /\ moved \in Seq(Cells \X Nat) /\ e \in Cells \X Nat
      BY <1>1, <1>3, <1>5, <2>1 DEF Requests
    <3>. HIDE DEF e
    <3>2. /\ moved' \in Seq(Cells \X Nat) /\ Len(moved') = Len(moved) + 1
          /\ \A i \in 1..Len(moved) : moved'[i] = moved[i]
          /\ moved'[Len(moved) + 1] = e
      BY <3>1, AppendProperties
    <3>. QED BY <3>2 DEF Requests, e
  <2>. QED BY <1>3, <1>4, <2>2
<1>8. CASE /\ op' = op /\ Remaining' = Remaining - 1
           /\ \A k \in Nat : Place(k)' = Place(k + 1)
           /\ op' \in Reads \cup Writes => cur' = FindSector(sector)' /\ cur' # NoSector
           /\ op' = "READ_ADDRESS" => cur' = FindSector(1)' /\ cur' # NoSector
  <2>1. ASSUME NEW k \in 0..(Remaining' - 1) PROVE asked'[Len(moved') + 1 + k] = Place(k)'
    <3>1. /\ k \in Nat /\ k + 1 \in 0..(Remaining - 1)
          /\ Len(moved') + 1 + k = Len(moved) + 1 + (k + 1)
      BY <1>4, <1>7, <1>8
    <3>2. asked[Len(moved) + 1 + (k + 1)] = Place(k + 1)
      BY <1>3, <3>1
    <3>. QED BY <1>1, <1>8, <3>1, <3>2
  <2>2. Len(asked') = Len(moved') + Remaining'
    BY <1>1, <1>3, <1>4, <1>7, <1>8
  <2>. QED BY <1>1, <1>3, <1>6, <1>7, <1>8, <2>1, <2>2 DEF Progress
<1>9. CASE op' = "NONE" /\ Remaining = 1
  <2>1. Len(moved') = Len(asked)
    BY <1>3, <1>4, <1>7, <1>9
  <2>2. moved' = asked
    BY <1>3, <1>7, <2>1, SeqEqual DEF Requests
  <2>. QED BY <1>1, <1>3, <1>6, <1>7, <1>9, <2>2 DEF Progress, InTransfer, Reads, Writes
<1>. QED BY <1>2, <1>6, <1>8, <1>9 DEF ByteMoved

\* The steps that move nothing leave the bookkeeping as it is.
LEMMA StillProgress ==
  ASSUME ProgInv, UNCHANGED <<busy, asked, moved, aborted, op, cur, offset, sector, cTrack, control>>
  PROVE  Progress'
<1>1. (op \in Reads \cup Writes => cur = FindSector(sector) /\ cur # NoSector)'
  BY DEF ProgInv, Progress, FindSector, Mounted
<1>2. (op = "READ_ADDRESS" => cur = FindSector(1) /\ cur # NoSector)'
  BY DEF ProgInv, Progress, FindSector, Mounted
<1>3. Remaining' = Remaining /\ \A k \in Nat : Place(k)' = Place(k)
  BY DEF Remaining, Place, LastSector, FindSector, Mounted
<1>4. ASSUME InTransfer'
      PROVE  (/\ \A i \in 1..Len(moved) : moved[i] = asked[i]
              /\ Len(asked) = Len(moved) + Remaining
              /\ \A k \in 0..(Remaining - 1) : asked[Len(moved) + 1 + k] = Place(k))'
  <2>1. InTransfer
    BY <1>4 DEF InTransfer
  <2>2. ASSUME NEW k \in 0..(Remaining' - 1) PROVE k \in Nat /\ k \in 0..(Remaining - 1)
    BY <1>3, <2>2
  <2>. QED BY <1>3, <2>1, <2>2 DEF ProgInv, Progress
<1>5. (/\ asked \in Requests /\ moved \in Requests
       /\ busy /\ ~aborted /\ (op = "NONE" \/ op \in Tracks) => moved = asked)'
  BY DEF ProgInv, Progress, Requests, Cells
<1>. QED BY <1>1, <1>2, <1>4, <1>5 DEF Progress

\* With no command under way, or none that moves, there is little to keep.
LEMMA NoTransferProgress ==
  ASSUME ProgInv, op' = "NONE" \/ op' \in Tracks, UNCHANGED <<asked, moved>>,
         busy' => aborted' \/ moved = asked
  PROVE  Progress'
BY DEF ProgInv, Progress, InTransfer, Reads, Writes, Requests, Cells, Tracks

-----------------------------------------------------------------------------
(* The refinement *)

\* Every step of the program and the controller is a step of BlockTransfer, or
\* none, provided no state is loaded in the middle of a command.
LEMMA TransferStep ==
  ASSUME "busy" \notin SavesAt, ProgInv, [DriverNext]_allVars
  PROVE  Progress' /\ [Abstract!Next]_(Abstract!vars)
<1>. USE DEF Abstract!Next, Abstract!vars
<1>1. CASE StartSeek
  <2>1. op' = "NONE" /\ asked' = <<>> /\ moved' = <<>>
    BY <1>1 DEF StartSeek, Start, Restore, Seek, Step, StepIn, StepOut, SeekTrack
  <2>2. <<>> \in Requests
    BY EmptySeq DEF Requests
  <2>3. Progress'
    BY <2>1, <2>2 DEF Progress, InTransfer, Reads, Writes
  <2>4. Abstract!Begin
    BY <1>1, <2>1, <2>2 DEF StartSeek, Start, Abstract!Begin
  <2>. QED BY <2>3, <2>4
<1>2. CASE StartRead \/ StartWrite \/ StartReadAddress
  <2>1. Progress'
    <3>1. ASSUME NEW o \in Reads, Start("read", SectorBytes(o, sector)), ReadSector(o) PROVE Progress'
      BY <3>1, StartSectorProgress DEF ReadSector
    <3>2. ASSUME NEW o \in Writes, Start("write", SectorBytes(o, sector)), WriteSector(o) PROVE Progress'
      BY <3>2, StartSectorProgress DEF WriteSector
    <3>. QED BY <1>2, <3>1, <3>2, StartReadAddressProgress DEF StartRead, StartWrite
  <2>2. ~busy /\ busy' /\ moved' = <<>> /\ aborted' = FALSE
    BY <1>2 DEF StartRead, StartWrite, StartReadAddress, Start
  <2>3. Abstract!Begin
    BY <2>1, <2>2 DEF Progress, Abstract!Begin, Requests, Cells
  <2>. QED BY <2>1, <2>3
<1>3. CASE MoveOne
  BY <1>3, MoveProgress
<1>10. CASE StartTrack
  <2>1. op' \in Tracks /\ asked' = <<>> /\ moved' = <<>>
    BY <1>10 DEF StartTrack, Start, ReadTrack, WriteTrack, Accept, Tracks
  <2>2. <<>> \in Requests
    BY EmptySeq DEF Requests
  <2>3. Progress'
    BY <2>1, <2>2 DEF Progress, InTransfer, Reads, Writes, Tracks
  <2>4. Abstract!Begin
    BY <1>10, <2>1, <2>2 DEF StartTrack, Start, Abstract!Begin
  <2>. QED BY <2>3, <2>4
<1>11. CASE TrackByte
  <2>1. PICK b \in Bytes : WriteData(b)
    BY <1>11 DEF TrackByte
  <2>2. op \notin Writes /\ UNCHANGED <<busy, asked, moved, aborted>>
    BY <1>11 DEF TrackByte, driver, ProgInv, RestInv, OneThingDue
  <2>3. UNCHANGED <<op, cur, offset, sector, cTrack, control>>
    BY <2>1, <2>2 DEF WriteData, xfer
  <2>. QED BY <2>2, <2>3, StillProgress
<1>4. CASE Acknowledge
  <2>1. /\ op = "NONE" /\ op' = op /\ busy /\ ~busy' /\ UNCHANGED <<asked, moved, aborted>>
    BY <1>4 DEF Acknowledge, ReadStatus, xfer, ProgInv, RestInv, OneThingDue
  <2>2. aborted \/ moved = asked
    BY <2>1 DEF ProgInv, Progress
  <2>. QED BY <2>1, <2>2, NoTransferProgress DEF Abstract!End
<1>5. CASE Abort
  BY <1>5, NoTransferProgress DEF Abort, ForceInterrupt, Abstract!Abort
<1>6. CASE Prepare
  <2>1. ~busy /\ op = "NONE" /\ UNCHANGED <<busy, asked, moved, aborted>>
    BY <1>6 DEF Prepare, driver, ProgInv, RestInv, RestAfterCommand
  <2>2. op' = op
    BY <1>6, <2>1 DEF Prepare, WriteControl, WriteData, WriteSectorReg, xfer, Writes
  <2>. QED BY <2>1, <2>2, NoTransferProgress
<1>7. CASE Pass
  <2>1. UNCHANGED <<busy, asked, moved, aborted, op, cur, offset, sector, cTrack, control>>
    BY <1>7 DEF Pass, Tick, driver, regs, xfer
  <2>. QED BY <2>1, StillProgress
<1>8. CASE Saves
  <2>1. ~busy /\ op = "NONE" /\ UNCHANGED <<busy, asked, moved, aborted>>
    BY <1>8 DEF Saves, driver, ProgInv, RestInv, RestAfterCommand
  <2>2. op' = "NONE"
    BY <1>8, <2>1 DEF Saves, Save, Load, controller, xfer, ProgInv, RestInv, FileAtRest
  <2>. QED BY <2>1, <2>2, NoTransferProgress
<1>9. CASE UNCHANGED allVars
  <2>1. UNCHANGED <<busy, asked, moved, aborted, op, cur, offset, sector, cTrack, control>>
    BY <1>9 DEF allVars, vars, controller, driver, regs, xfer, lines
  <2>. QED BY <2>1, StillProgress
<1>. QED BY <1>1, <1>2, <1>3, <1>4, <1>5, <1>6, <1>7, <1>8, <1>9, <1>10, <1>11 DEF DriverNext

\* The bytes of a request move in the order they were asked for, each once, and a
\* command ends only when all have moved or the program interrupted it.
THEOREM Refinement == ASSUME "busy" \notin SavesAt PROVE DriverSpec => TransfersInOrder
<1>1. DriverInit => ProgInv /\ Abstract!Init
  BY InitInv, EmptySeq DEF DriverInit, Init, ProgInv, RestInv, OneThingDue, RestAfterCommand,
     FileAtRest, Reads, Writes, Tracks, Progress, InTransfer, Abstract!Init, Requests
<1>2. ProgInv /\ [DriverNext]_allVars => ProgInv' /\ [Abstract!Next]_(Abstract!vars)
  BY RestStep, TransferStep DEF ProgInv
<1>. QED BY <1>1, <1>2, PTL DEF DriverSpec, TransfersInOrder, Abstract!Spec
=============================================================================
