---------------------------- MODULE SectorDriver ----------------------------
(***************************************************************************)
(* The disk controller driven by a program that keeps to the protocol, as   *)
(* the disk tests of the repository do: it issues a command only when the   *)
(* last one is over, moves a byte only when DRQ is active, ends a command   *)
(* by reading the status once INTRQ is active, and may give up at any time  *)
(* with Force Interrupt.  Instructions take time at any point in between.   *)
(* The user saves and loads states (F2, F4); a reset (F5) starts the program *)
(* over, with its wait forgotten, and is left to Microdisc.                 *)
(***************************************************************************)
EXTENDS Microdisc, Sequences

CONSTANTS
  StepsOutOnTrack0,  \* the program may issue Step-out with the head on track 0
  SavesAt            \* where states are saved and loaded: "idle", "busy"

ASSUME SectorDriverAssumption ==
  StepsOutOnTrack0 \in BOOLEAN /\ SavesAt \subseteq {"idle", "busy"}

VARIABLES
  busy,     \* the program waits for its command
  job,      \* what it does on DRQ: "read", "write", "track" or "none"
  asked,    \* the bytes its command has to move, by place on the disk
  moved,    \* the bytes it moved
  aborted   \* it interrupted the command

driver == <<busy, job, asked, moved, aborted>>
allVars == <<vars, driver>>

DriverInit ==
  /\ Init
  /\ busy = FALSE /\ job = "none" /\ asked = <<>> /\ moved = <<>> /\ aborted = FALSE

-----------------------------------------------------------------------------
\* The bytes a command has to move when it starts now: nothing if the sector
\* is not there, otherwise the sector and, for the multiple forms, the rest of
\* the track.
LastSector(o, id) == IF o \in Multi THEN Mounted.sectors ELSE id
SectorBytes(o, id) ==
  IF FindSector(id) = NoSector THEN <<>>
  ELSE [i \in 1..(LastSector(o, id) - id + 1) * SectorLen |->
          <<FindSector(id + (i - 1) \div SectorLen), (i - 1) % SectorLen>>]
IdBytes ==
  IF FindSector(1) = NoSector THEN <<>> ELSE [i \in 1..IdLen |-> <<FindSector(1), i - 1>>]

Requests == Seq(Cells \X Nat)

-----------------------------------------------------------------------------
(* While no command is under way *)

Prepare ==
  /\ ~busy
  /\ \/ \E c \in Controls : WriteControl(c)
     \/ \E b \in Bytes : WriteData(b) \/ WriteSectorReg(b)
  /\ UNCHANGED <<driver, file>>

Start(newJob, bytes) ==
  /\ ~busy /\ busy' = TRUE
  /\ job' = newJob /\ asked' = bytes /\ moved' = <<>> /\ aborted' = FALSE
  /\ UNCHANGED file

StartSeek ==
  /\ Start("none", <<>>)
  /\ \/ Restore \/ Seek \/ Step \/ StepIn
     \/ (cTrack > 0 \/ StepsOutOnTrack0) /\ StepOut

StartRead  == \E o \in Reads  : Start("read", SectorBytes(o, sector)) /\ ReadSector(o)
StartWrite == \E o \in Writes : Start("write", SectorBytes(o, sector)) /\ WriteSector(o)
StartReadAddress == Start("read", IdBytes) /\ ReadAddress

\* READ TRACK and WRITE TRACK find no byte to move: the code takes the commands,
\* raises DRQ once and goes no further with them.
StartTrack == Start("track", <<>>) /\ (ReadTrack \/ WriteTrack)

-----------------------------------------------------------------------------
(* While a command is under way *)

\* DRQ is active: the next byte, whose place is where the controller points.
MoveOne ==
  /\ busy /\ drq
  /\ \/ job = "read" /\ ReadData
     \/ job = "write" /\ \E b \in Bytes : WriteData(b)
  /\ moved' = Append(moved, <<cur, offset>>)
  /\ UNCHANGED <<busy, job, asked, aborted, file>>

\* ... which in a track command stays active whatever the program writes.
TrackByte ==
  /\ busy /\ drq /\ job = "track"
  /\ \E b \in Bytes : WriteData(b)
  /\ UNCHANGED <<driver, file>>

\* INTRQ is active: the status read that ends the command.
Acknowledge ==
  /\ busy /\ intrq
  /\ ReadStatus
  /\ busy' = FALSE
  /\ UNCHANGED <<job, asked, moved, aborted, file>>

Abort ==
  /\ busy /\ ~aborted
  /\ ForceInterrupt
  /\ aborted' = TRUE
  /\ UNCHANGED <<busy, job, asked, moved, file>>

Pass == (\E n \in StepCycles : Tick(n)) /\ UNCHANGED <<driver, file>>

Saves ==
  /\ (IF busy THEN "busy" ELSE "idle") \in SavesAt
  /\ Save \/ Load
  /\ UNCHANGED driver

DriverNext ==
  \/ Prepare \/ StartSeek \/ StartRead \/ StartWrite \/ StartReadAddress \/ StartTrack
  \/ MoveOne \/ TrackByte \/ Acknowledge \/ Abort \/ Pass \/ Saves

\* Instructions keep taking cycles, and the program keeps polling.
DriverSpec ==
  /\ DriverInit /\ [][DriverNext]_allVars
  /\ WF_allVars(Pass) /\ WF_allVars(MoveOne) /\ WF_allVars(Acknowledge)

-----------------------------------------------------------------------------
(* Properties *)

\* While the program waits, something is bound to happen: a line is active, or
\* a delayed INTRQ or DRQ is on its way.  A controller that reaches a state in
\* which neither is due has lost the program's command.
NeverWedged == busy => drq \/ intrq \/ dInt > 0 \/ dDrq > 0

\* Once a command has been ended by the program's status read, the controller
\* is at rest: not busy, no transfer, nothing due, no interrupt.  A state of an
\* earlier moment that the user loads between two commands keeps it so.
RestAfterCommand ==
  ~busy => /\ op = "NONE" /\ "BUSY" \notin status
           /\ ~drq /\ ~intrq /\ ~cpuIrq /\ dInt = 0 /\ dDrq = 0

\* Every command the program starts comes to its end, except READ TRACK and WRITE
\* TRACK (disk.c:338-353): the code never raises INTRQ for those, so only a Force
\* Interrupt of the program's ends them.
Tracks == {"READ_TRACK", "WRITE_TRACK"}
CommandEnds == (busy /\ op \notin Tracks) ~> ~busy

\* The driver and the controller together implement BlockTransfer: the bytes of
\* the request move in order, each once, and only then the command ends.
Abstract == INSTANCE BlockTransfer WITH
  Requests <- Requests, busy <- busy, asked <- asked, moved <- moved, aborted <- aborted
TransfersInOrder == Abstract!Spec

=============================================================================
