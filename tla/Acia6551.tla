------------------------------ MODULE Acia6551 ------------------------------
(***************************************************************************)
(* The serial interface of src/io/acia6551.c under an arbitrary program, with *)
(* a back end that is left open: what it answers, and what it does to the     *)
(* carrier and clear-to-send pins while it is called, are parameters here.    *)
(* A byte received is its number on the line; a byte transmitted has no       *)
(* identity.  DSR, which every back end leaves active, is left out.           *)
(*                                                                           *)
(* acia_tick is two steps, its transmit path and its receive path: nothing    *)
(* else runs between them, but the back end called by the first moves the     *)
(* pins the second looks at.                                                  *)
(***************************************************************************)
EXTENDS Integers, Sequences

CONSTANTS
  FifoSizes,   \* the sizes --serial-buffer may give the receive FIFO, 0 for none
  RdrfModes,   \* the settings of --serial-irq-on-rdrf
  Commands,    \* what the program writes to the command register
  Periods,     \* the cycles per byte it may select, to receive and to transmit
  StepCycles,  \* cycles of an instruction
  MaxBytes     \* bound of the model: bytes that arrive

Command == [dtr : BOOLEAN, ird : BOOLEAN, tic : BOOLEAN, echo : BOOLEAN]

ASSUME AciaAssumption ==
  /\ FifoSizes \subseteq Nat /\ RdrfModes \subseteq BOOLEAN
  /\ Commands \subseteq Command
  /\ Periods \subseteq [rx : Nat \ {0}, tx : Nat \ {0}] /\ Periods # {}
  /\ StepCycles \subseteq Nat \ {0}
  /\ MaxBytes \in Nat

VARIABLES
  status,     \* the flags of the status register
  command,    \* the command register: DTR, IRD, TIC = 01 and ECHO
  period,     \* rx_reload and tx_reload
  txPending, txCycles,
  rdr, rxFull, rxCycles,
  fifo,       \* rx_fifo, oldest byte first
  dcd, cts,   \* the pins, TRUE when active
  irqLine,    \* irq_line
  cpuBit,     \* IRQF_SERIAL in cpu->irq
  fifoSize, irqOnRdrf,  \* options, fixed at start
  tick,       \* cycles the receive path of acia_tick still has to count, or 0
  arrived,    \* ghost: number of the last byte received
  heard,      \* ghost: number of the last byte the program read as new
  shown       \* ghost: flags that have been up since the last status read showed them

options  == <<fifoSize, irqOnRdrf>>
receiver == <<rdr, rxFull, fifo, arrived, heard>>
lines    == <<irqLine, cpuBit>>
aciaVars == <<status, command, period, txPending, txCycles, receiver, rxCycles, dcd, cts, lines,
              options, tick, shown>>

Flags == {"TDRE", "RDRF", "OVRN", "DCD", "IRQ"}

\* acia_init, with the carrier pin where the back end's open leaves it.
PowerOn(pin) ==
  /\ dcd = pin /\ status = {"TDRE"} \cup (IF pin THEN {} ELSE {"DCD"})
  /\ command = [dtr |-> FALSE, ird |-> FALSE, tic |-> FALSE, echo |-> FALSE]
  /\ period \in Periods
  /\ txPending = FALSE /\ txCycles = period.tx
  /\ rdr = 0 /\ rxFull = FALSE /\ rxCycles = period.rx /\ fifo = <<>>
  /\ cts = TRUE
  /\ irqLine = FALSE /\ cpuBit = FALSE
  /\ fifoSize \in FifoSizes /\ irqOnRdrf \in RdrfModes
  /\ tick = 0 /\ arrived = 0 /\ heard = 0 /\ shown = {}

AciaInit == \E pin \in BOOLEAN : PowerOn(pin)

-----------------------------------------------------------------------------
\* The flags that ask for an interrupt, as the command register enables them.
Causes(st, c) ==
  {f \in st : \/ f = "RDRF" /\ ~c.ird
              \/ f = "TDRE" /\ c.tic}

\* acia_update_irq with the flags st and the command c.
UpdateIrqSticky(st, c) ==  \* faulty: the line is raised and not lowered
  /\ status' = IF Causes(st, c) # {} THEN st \cup {"IRQ"} ELSE st \ {"IRQ"}
  /\ irqLine' = (irqLine \/ Causes(st, c) # {})
  /\ cpuBit' = IF irqLine' # irqLine THEN irqLine' ELSE cpuBit
UpdateIrq(st, c) ==
  /\ status' = IF Causes(st, c) # {} THEN st \cup {"IRQ"} ELSE st \ {"IRQ"}
  /\ irqLine' = (Causes(st, c) # {})
  /\ cpuBit' = IF irqLine' # irqLine THEN irqLine' ELSE cpuBit

\* What a call of the back end does to the pins: set when it calls acia_set_dcd,
\* which puts the pin's level into the status register.
Pins(set) == dcd' \in (IF set THEN BOOLEAN ELSE {dcd}) /\ cts' \in BOOLEAN
WithPin(set) ==
  IF ~set THEN status ELSE IF dcd' THEN status \ {"DCD"} ELSE status \cup {"DCD"}

\* The flags shown to the program go on being shown while they stay up.
Forget == shown' = shown \cap status'

-----------------------------------------------------------------------------
(* acia_read and acia_write *)

Access == tick = 0 /\ tick' = 0 /\ UNCHANGED <<dcd, cts, options>>

\* The data register: the next byte of the FIFO takes the place of the one read.
ReadData ==
  /\ Access
  /\ LET st == status \ {"RDRF", "OVRN"}
     IN  IF fifo # <<>>
         THEN /\ rdr' = Head(fifo) /\ fifo' = Tail(fifo) /\ rxFull' = TRUE
              /\ UpdateIrq(st \cup {"RDRF"}, command)
         ELSE /\ rxFull' = FALSE /\ UpdateIrq(st, command) /\ UNCHANGED <<rdr, fifo>>
  /\ heard' = IF rxFull THEN rdr ELSE heard
  /\ shown' = (shown \ {"RDRF", "OVRN"}) \cap status'
  /\ UNCHANGED <<command, period, txPending, txCycles, rxCycles, arrived>>

\* The status register: reading it lowers the line, for as long as nothing else
\* happens or, with --serial-irq-on-rdrf, not even that.
ReadStatus ==
  /\ Access
  /\ IF irqOnRdrf THEN UpdateIrq(status, command)
     ELSE status' = status \ {"IRQ"} /\ irqLine' = FALSE /\ cpuBit' = (cpuBit /\ ~irqLine)
  /\ shown' = status \ {"IRQ"}
  /\ UNCHANGED <<command, period, txPending, txCycles, receiver, rxCycles>>

WriteData ==
  /\ Access
  /\ txPending' = TRUE /\ txCycles' = period.tx
  /\ UpdateIrq(status \ {"TDRE"}, command) /\ Forget
  /\ UNCHANGED <<command, period, receiver, rxCycles>>

\* A write to the status register: acia_reset.  The DCD flag goes down whatever
\* the level of the pin.
ProgrammedResetKeepsFifo ==  \* faulty: the FIFO is not flushed
  /\ Access
  /\ status' = {"TDRE"} /\ txPending' = FALSE /\ rxFull' = FALSE
  /\ command' = [dtr |-> FALSE, ird |-> FALSE, tic |-> FALSE, echo |-> FALSE]
  /\ irqLine' = FALSE /\ cpuBit' = (cpuBit /\ ~irqLine) /\ Forget
  /\ UNCHANGED <<period, txCycles, rxCycles, rdr, fifo, arrived, heard>>
ProgrammedReset ==
  /\ Access
  /\ status' = {"TDRE"} /\ txPending' = FALSE /\ rxFull' = FALSE /\ fifo' = <<>>
  /\ command' = [dtr |-> FALSE, ird |-> FALSE, tic |-> FALSE, echo |-> FALSE]
  /\ irqLine' = FALSE /\ cpuBit' = (cpuBit /\ ~irqLine) /\ Forget
  /\ UNCHANGED <<period, txCycles, rxCycles, rdr, arrived, heard>>

\* acia_update_timing: a counter that is out of the new period starts over.
ResyncAlways(cycles, reload) == reload  \* faulty: the byte under way starts over too
Resync(cycles, reload) == IF cycles <= 0 \/ cycles > reload THEN reload ELSE cycles

Retime(p) ==
  /\ period' = p
  /\ txCycles' = Resync(txCycles, p.tx) /\ rxCycles' = Resync(rxCycles, p.rx)
  /\ UNCHANGED <<txPending, receiver>>

\* The parity bits of the command register change the length of a frame.
WriteCommand(c, p) ==
  /\ Access
  /\ command' = c /\ Retime(p) /\ UpdateIrq(status, c) /\ Forget

WriteControl(p) ==
  /\ Access /\ Retime(p)
  /\ UNCHANGED <<command, status, lines, shown>>

-----------------------------------------------------------------------------
(* acia_tick *)

\* Nothing is counted without DTR.
Ticking(n) == tick = 0 /\ command.dtr /\ tick' = n

\* The transmit path, with nothing to finish.
TickTx(n) ==
  /\ Ticking(n) /\ (txPending => txCycles > n)
  /\ txCycles' = IF txPending THEN txCycles - n ELSE txCycles
  /\ UNCHANGED <<status, command, period, txPending, receiver, rxCycles, dcd, cts, lines, options,
                 shown>>

\* The byte is through: to the back end, if CTS is active, and otherwise nowhere.
TxDone(n, set) ==
  /\ Ticking(n) /\ txPending /\ txCycles <= n
  /\ IF cts THEN Pins(set) ELSE ~set /\ UNCHANGED <<dcd, cts>>
  /\ txPending' = FALSE /\ txCycles' = period.tx
  /\ UpdateIrq(WithPin(set) \cup {"TDRE"}, command)
  /\ Forget
  /\ UNCHANGED <<command, period, receiver, rxCycles, options>>

\* The receive path: no byte is due yet, or there is no carrier.
Counting == tick > 0 /\ tick' = 0 /\ UNCHANGED <<command, period, options>>
NextRx == IF rxCycles <= tick THEN period.rx ELSE rxCycles - tick

TickRx ==
  /\ Counting /\ (rxCycles <= tick => ~dcd)
  /\ rxCycles' = NextRx
  /\ UNCHANGED <<status, txPending, txCycles, receiver, dcd, cts, lines, shown>>

\* The back end is asked and has nothing, but may move the pins.
PollNothing(set) ==
  /\ Counting /\ rxCycles <= tick /\ dcd
  /\ Pins(set)
  /\ rxCycles' = NextRx
  /\ IF set /\ dcd' # dcd THEN UpdateIrq(WithPin(set), command)
     ELSE status' = WithPin(set) /\ UNCHANGED lines
  /\ Forget
  /\ UNCHANGED <<txPending, txCycles, receiver>>

\* A byte goes to the data register, behind it to the FIFO, or is lost there;
\* without a FIFO it takes the place of the one that was not read.
Store(b) ==
  /\ IF ~rxFull \/ fifoSize = 0
     THEN rdr' = b /\ UNCHANGED fifo
     ELSE fifo' = (IF Len(fifo) < fifoSize THEN Append(fifo, b) ELSE fifo) /\ UNCHANGED rdr
  /\ rxFull' = TRUE
OverrunsClassic == rxFull /\ fifoSize = 0  \* faulty: a full FIFO loses the byte and says nothing
Overruns == rxFull /\ Len(fifo) >= fifoSize

\* The echo goes the way of a written byte, and is lost when one is on its way.
Echoes == command.echo /\ ~txPending

Receive(b) ==
  /\ Counting /\ rxCycles <= tick /\ dcd
  /\ Pins(FALSE)
  /\ rxCycles' = NextRx
  /\ Store(b) /\ arrived' = b /\ UNCHANGED heard
  /\ txPending' = (txPending \/ Echoes)
  /\ txCycles' = IF Echoes THEN period.tx ELSE txCycles
  /\ UpdateIrq((status \cup {"RDRF"} \cup (IF Overruns THEN {"OVRN"} ELSE {}))
                 \ (IF Echoes THEN {"TDRE"} ELSE {}), command)
  /\ Forget

-----------------------------------------------------------------------------
Program ==
  \/ ReadData \/ ReadStatus \/ WriteData \/ ProgrammedReset
  \/ \E c \in Commands, p \in Periods : WriteCommand(c, p)
  \/ \E p \in Periods : WriteControl(p)

AciaTick ==
  \/ \E n \in StepCycles : TickTx(n) \/ \E set \in BOOLEAN : TxDone(n, set)
  \/ TickRx
  \/ \E set \in BOOLEAN : PollNothing(set)
  \/ arrived < MaxBytes /\ Receive(arrived + 1)

AciaSpec == AciaInit /\ [][Program \/ AciaTick]_aciaVars

-----------------------------------------------------------------------------
(* Properties *)

\* The type of every variable.
AciaTypeOK ==
  /\ status \subseteq Flags /\ shown \subseteq status /\ command \in Command /\ period \in Periods
  /\ {txPending, rxFull, dcd, cts, irqLine, cpuBit, irqOnRdrf} \subseteq BOOLEAN
  /\ txCycles \in Int /\ rxCycles \in Int /\ tick \in Nat
  /\ rdr \in Nat /\ arrived \in Nat /\ heard \in Nat
  /\ fifoSize \in Nat /\ fifo \in Seq(Nat) /\ Len(fifo) <= fifoSize

\* The three places where an interrupt is seen, the status register, the line and
\* the CPU, agree, and an enabled cause that is up has either raised the line or
\* been shown to the program by a read of the status register: none is missed,
\* whatever the order of accesses and ticks.
NoMissedCause ==
  /\ cpuBit = irqLine /\ irqLine = ("IRQ" \in status)
  /\ irqLine => Causes(status, command) # {}
  /\ ~irqLine => Causes(status, command) \subseteq (IF irqOnRdrf THEN {} ELSE shown)

\* The bytes the serial interface holds, in the order the program will read them.
Held == (IF rxFull THEN <<rdr>> ELSE <<>>) \o fifo

\* A byte that was received and has neither been read nor thrown away by a
\* programmed reset is still there, or the overrun flag says that one is not.
HeldSet == {Held[i] : i \in 1..Len(Held)}
LossFlagged ==
  [][ \/ (HeldSet \cup ({arrived'} \ {arrived})) \ HeldSet' \subseteq {heard'}
      \/ "OVRN" \in status'
      \/ ProgrammedReset ]_aciaVars
=============================================================================
