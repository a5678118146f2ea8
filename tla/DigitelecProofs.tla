--------------------------- MODULE DigitelecProofs --------------------------
(* The serial interface and the modem behind it, for every FIFO size, every    *)
(* buffer and water mark, every speed and every program: no interrupt cause is *)
(* missed, no byte is lost unseen, the pins follow the modem, and the bytes    *)
(* stay in order from the socket to the program.                             *)
EXTENDS Digitelec, TLAPS, SequenceTheorems

-----------------------------------------------------------------------------
(* The interface under any back end *)

\* A step of the interface, whatever the back end does to the pins in it and
\* whichever byte it delivers.
SerialStep ==
  \/ Program
  \/ \E n \in StepCycles : TickTx(n) \/ \E set \in BOOLEAN : TxDone(n, set)
  \/ TickRx
  \/ \E set \in BOOLEAN : PollNothing(set)
  \/ \E b \in Nat : Receive(b)

CauseInv == irqLine \in BOOLEAN /\ cpuBit \in BOOLEAN /\ irqOnRdrf \in BOOLEAN /\ NoMissedCause

\* The FIFO is behind the data register, and holds no more than it may.
ReceiverInv ==
  /\ rdr \in Nat /\ arrived \in Nat /\ heard \in Nat
  /\ fifoSize \in Nat /\ fifo \in Seq(Nat) /\ Len(fifo) <= fifoSize
  /\ ~rxFull => fifo = <<>>

\* acia_update_irq brings the flag, the line and the CPU's bit to what the causes say.
LEMMA UpdateIrqCauses ==
  ASSUME CauseInv, NEW st, NEW c, UpdateIrq(st, c), UNCHANGED irqOnRdrf, command' = c
  PROVE  CauseInv'
<1>1. Causes(status', c) = Causes(st, c)
  BY DEF UpdateIrq, Causes
<1>2. irqLine' = (Causes(st, c) # {}) /\ irqLine' \in BOOLEAN
  BY DEF UpdateIrq
<1>3. irqLine' = ("IRQ" \in status')
  BY DEF UpdateIrq
<1>4. cpuBit' = irqLine'
  BY <1>2 DEF UpdateIrq, CauseInv, NoMissedCause
<1>. QED BY <1>1, <1>2, <1>3, <1>4 DEF CauseInv, NoMissedCause

LEMMA SerialStepCauses == CauseInv /\ [SerialStep]_aciaVars => CauseInv'
<1>. SUFFICES ASSUME CauseInv, [SerialStep]_aciaVars PROVE CauseInv'
  OBVIOUS
<1>1. CASE ReadData
  <2>1. UNCHANGED <<irqOnRdrf, command>> /\ \E st : UpdateIrq(st, command)
    BY <1>1 DEF ReadData, Access, options
  <2>. QED BY <2>1, UpdateIrqCauses
<1>2. CASE ReadStatus
  <2>0. UNCHANGED <<irqOnRdrf, command>>
    BY <1>2 DEF ReadStatus, Access, options
  <2>1. CASE irqOnRdrf
    <3>1. UpdateIrq(status, command)
      BY <1>2, <2>1 DEF ReadStatus
    <3>. QED BY <2>0, <3>1, UpdateIrqCauses
  <2>2. CASE ~irqOnRdrf
    <3>1. /\ status' = status \ {"IRQ"} /\ irqLine' = FALSE /\ cpuBit' = (cpuBit /\ ~irqLine)
          /\ shown' = status \ {"IRQ"}
      BY <1>2, <2>2 DEF ReadStatus
    <3>2. Causes(status', command) \subseteq shown'
      BY <3>1 DEF Causes
    <3>3. cpuBit' = FALSE /\ "IRQ" \notin status'
      BY <3>1 DEF CauseInv, NoMissedCause
    <3>4. irqLine' \in BOOLEAN /\ ~irqLine' /\ cpuBit' \in BOOLEAN /\ ~cpuBit' /\ "IRQ" \notin status'
      BY <3>1, <3>3
    <3>5. (~irqLine => Causes(status, command) \subseteq (IF irqOnRdrf THEN {} ELSE shown))'
      BY <2>0, <2>2, <3>2
    <3>6. cpuBit' = irqLine' /\ irqLine' = ("IRQ" \in status') /\ irqOnRdrf' \in BOOLEAN
      BY <2>0, <3>4 DEF CauseInv
    <3>. QED BY <3>4, <3>5, <3>6 DEF CauseInv, NoMissedCause
  <2>. QED BY <2>1, <2>2
<1>3. CASE WriteData
  <2>1. UNCHANGED <<irqOnRdrf, command>> /\ \E st : UpdateIrq(st, command)
    BY <1>3 DEF WriteData, Access, options
  <2>. QED BY <2>1, UpdateIrqCauses
<1>4. CASE ProgrammedReset
  <2>1. /\ irqOnRdrf' = irqOnRdrf /\ status' = {"TDRE"} /\ ~command'.tic
        /\ irqLine' = FALSE /\ cpuBit' = (cpuBit /\ ~irqLine)
    BY <1>4 DEF ProgrammedReset, Access, options
  <2>2. Causes(status', command') = {}
    BY <2>1 DEF Causes
  <2>3. cpuBit' = FALSE /\ "IRQ" \notin status'
    BY <2>1 DEF CauseInv, NoMissedCause
  <2>4. irqLine' \in BOOLEAN /\ ~irqLine' /\ cpuBit' \in BOOLEAN /\ ~cpuBit' /\ "IRQ" \notin status'
    BY <2>1, <2>3
  <2>5. cpuBit' = irqLine' /\ irqLine' = ("IRQ" \in status')
    BY <2>4
  <2>6. irqOnRdrf' \in BOOLEAN
    BY <2>1 DEF CauseInv
  <2>. QED BY <2>2, <2>4, <2>5, <2>6 DEF CauseInv, NoMissedCause
<1>5. ASSUME NEW c \in Commands, NEW p \in Periods, WriteCommand(c, p) PROVE CauseInv'
  <2>1. irqOnRdrf' = irqOnRdrf /\ command' = c /\ \E st : UpdateIrq(st, c)
    BY <1>5 DEF WriteCommand, Access, options
  <2>. QED BY <2>1, UpdateIrqCauses
<1>6. ASSUME UNCHANGED <<status, command, lines, options, shown>> PROVE CauseInv'
  BY <1>6 DEF lines, options, CauseInv, NoMissedCause
<1>7. ASSUME NEW p \in Periods, WriteControl(p) PROVE CauseInv'
  BY <1>6, <1>7 DEF WriteControl, Access
<1>8. ASSUME NEW n \in StepCycles, TickTx(n) PROVE CauseInv'
  BY <1>6, <1>8 DEF TickTx
<1>9. ASSUME NEW n \in StepCycles, NEW set \in BOOLEAN, TxDone(n, set) PROVE CauseInv'
  <2>1. UNCHANGED <<irqOnRdrf, command>> /\ \E st : UpdateIrq(st, command)
    BY <1>9 DEF TxDone, options
  <2>. QED BY <2>1, UpdateIrqCauses
<1>10. CASE TickRx
  BY <1>6, <1>10 DEF TickRx, Counting
<1>11. ASSUME NEW set \in BOOLEAN, PollNothing(set) PROVE CauseInv'
  <2>0. UNCHANGED <<irqOnRdrf, command>> /\ shown' = shown \cap status'
    BY <1>11 DEF PollNothing, Counting, options, Forget
  <2>1. CASE set /\ dcd' # dcd
    <3>1. \E st : UpdateIrq(st, command)
      BY <1>11, <2>1 DEF PollNothing
    <3>. QED BY <2>0, <3>1, UpdateIrqCauses
  <2>2. CASE ~(set /\ dcd' # dcd)
    <3>1. status' = WithPin(set) /\ UNCHANGED <<irqLine, cpuBit>>
      BY <1>11, <2>2 DEF PollNothing, lines
    <3>2. Causes(status', command) = Causes(status, command) /\ ("IRQ" \in status') = ("IRQ" \in status)
      BY <3>1 DEF WithPin, Causes
    <3>3. Causes(status', command) \subseteq status'
      BY DEF Causes
    <3>. QED BY <2>0, <3>1, <3>2, <3>3 DEF CauseInv, NoMissedCause
  <2>. QED BY <2>1, <2>2
<1>12. ASSUME NEW b \in Nat, Receive(b) PROVE CauseInv'
  <2>1. UNCHANGED <<irqOnRdrf, command>> /\ \E st : UpdateIrq(st, command)
    BY <1>12 DEF Receive, Counting, options
  <2>. QED BY <2>1, UpdateIrqCauses
<1>13. CASE UNCHANGED aciaVars
  BY <1>6, <1>13 DEF aciaVars
<1>. QED BY <1>1, <1>2, <1>3, <1>4, <1>5, <1>7, <1>8, <1>9, <1>10, <1>11, <1>12, <1>13 DEF SerialStep, Program

LEMMA PowerOnCauses == ASSUME NEW pin \in BOOLEAN, PowerOn(pin) PROVE CauseInv
<1>1. Causes(status, command) = {} /\ ~("IRQ" \in status)
  BY DEF PowerOn, Causes
<1>2. irqLine \in BOOLEAN /\ ~irqLine /\ cpuBit \in BOOLEAN /\ ~cpuBit /\ irqOnRdrf \in BOOLEAN
  BY AciaAssumption DEF PowerOn
<1>3. cpuBit = irqLine /\ irqLine = ("IRQ" \in status)
  BY <1>1, <1>2
<1>. QED BY <1>1, <1>2, <1>3 DEF CauseInv, NoMissedCause

-----------------------------------------------------------------------------
(* The bytes in a sequence *)

Elements(s) == {s[i] : i \in 1..Len(s)}

LEMMA ElementsOfConcat ==
  ASSUME NEW s \in Seq(Nat), NEW t \in Seq(Nat)
  PROVE  Elements(s \o t) = Elements(s) \cup Elements(t)
<1>1. /\ Len(s \o t) = Len(s) + Len(t) /\ Len(s) \in Nat /\ Len(t) \in Nat
      /\ \A i \in 1..Len(s) + Len(t) : (s \o t)[i] = IF i <= Len(s) THEN s[i] ELSE t[i - Len(s)]
  BY ConcatProperties, LenProperties
<1>2. ASSUME NEW x \in Elements(s \o t) PROVE x \in Elements(s) \cup Elements(t)
  <2>1. PICK i \in 1..Len(s) + Len(t) : x = (s \o t)[i]
    BY <1>1 DEF Elements
  <2>2. CASE i <= Len(s)
    BY <1>1, <2>1, <2>2 DEF Elements
  <2>3. CASE ~(i <= Len(s))
    <3>1. i - Len(s) \in 1..Len(t) /\ x = t[i - Len(s)]
      BY <1>1, <2>1, <2>3
    <3>. QED BY <3>1 DEF Elements
  <2>. QED BY <2>2, <2>3
<1>3. ASSUME NEW x \in Elements(s) PROVE x \in Elements(s \o t)
  <2>1. PICK i \in 1..Len(s) : x = s[i]
    BY DEF Elements
  <2>2. i \in 1..Len(s) + Len(t) /\ x = (s \o t)[i]
    BY <1>1, <2>1
  <2>. QED BY <1>1, <2>2 DEF Elements
<1>4. ASSUME NEW x \in Elements(t) PROVE x \in Elements(s \o t)
  <2>1. PICK i \in 1..Len(t) : x = t[i]
    BY DEF Elements
  <2>2. i + Len(s) \in 1..Len(s) + Len(t) /\ ~(i + Len(s) <= Len(s)) /\ (i + Len(s)) - Len(s) = i
    BY <1>1
  <2>3. x = (s \o t)[i + Len(s)]
    BY <1>1, <2>1, <2>2
  <2>. QED BY <1>1, <2>2, <2>3 DEF Elements
<1>. QED BY <1>2, <1>3, <1>4

LEMMA ElementsOfAppend ==
  ASSUME NEW s \in Seq(Nat), NEW e \in Nat
  PROVE  Elements(Append(s, e)) = Elements(s) \cup {e}
<1>1. Append(s, e) = s \o <<e>> /\ <<e>> \in Seq(Nat)
  BY AppendIsConcat
<1>2. Elements(<<e>>) = {e}
  BY DEF Elements
<1>. QED BY <1>1, <1>2, ElementsOfConcat

LEMMA ElementsOfTail ==
  ASSUME NEW s \in Seq(Nat), s # <<>>
  PROVE  /\ Head(s) \in Nat /\ Tail(s) \in Seq(Nat) /\ Len(Tail(s)) = Len(s) - 1 /\ Len(s) >= 1
         /\ s = <<Head(s)>> \o Tail(s)
         /\ Elements(s) = {Head(s)} \cup Elements(Tail(s))
<1>1. Head(s) \in Nat /\ Tail(s) \in Seq(Nat) /\ Len(Tail(s)) = Len(s) - 1 /\ Len(s) >= 1
  BY HeadTailProperties, EmptySeq
<1>2. <<Head(s)>> \in Seq(Nat) /\ Elements(<<Head(s)>>) = {Head(s)}
  BY <1>1 DEF Elements
<1>3. s = <<Head(s)>> \o Tail(s)
  BY <1>1, <1>2
<1>. QED BY <1>1, <1>2, <1>3, ElementsOfConcat

\* The bytes the interface holds are the one in the data register and those behind it.
LEMMA ElementsHeld ==
  ASSUME NEW full, NEW r \in Nat, NEW f \in Seq(Nat)
  PROVE  Elements((IF full THEN <<r>> ELSE <<>>) \o f) = (IF full THEN {r} ELSE {}) \cup Elements(f)
<1>1. <<r>> \in Seq(Nat) /\ <<>> \in Seq(Nat) /\ Elements(<<r>>) = {r} /\ Elements(<<>>) = {}
  BY EmptySeq DEF Elements
<1>. QED BY <1>1, ElementsOfConcat

-----------------------------------------------------------------------------
(* The receive path of the interface *)

\* What a step does to the bytes it holds: nothing; the program reads the first,
\* or resets the interface; or one arrives.
Stays == UNCHANGED <<receiver, fifoSize>>
Reads ==
  /\ heard' = (IF rxFull THEN rdr ELSE heard) /\ UNCHANGED <<arrived, fifoSize>>
  /\ IF fifo # <<>> THEN rdr' = Head(fifo) /\ fifo' = Tail(fifo) /\ rxFull' = TRUE
     ELSE rxFull' = FALSE /\ UNCHANGED <<rdr, fifo>>
Flushes == rxFull' = FALSE /\ fifo' = <<>> /\ UNCHANGED <<rdr, arrived, heard, fifoSize>>
Arrives(b) == Store(b) /\ arrived' = b /\ UNCHANGED <<heard, fifoSize>>

LEMMA SerialStepReceiver ==
  [SerialStep]_aciaVars =>
     \/ Stays
     \/ Reads
     \/ Flushes /\ ProgrammedReset
     \/ \E b \in Nat : Arrives(b) /\ (Overruns => "OVRN" \in status')
<1>. SUFFICES ASSUME [SerialStep]_aciaVars
              PROVE  \/ Stays
                     \/ Reads
                     \/ Flushes /\ ProgrammedReset
                     \/ \E b \in Nat : Arrives(b) /\ (Overruns => "OVRN" \in status')
  OBVIOUS
<1>1. ASSUME ReadData PROVE Reads
  BY <1>1 DEF ReadData, Access, options, Reads
<1>2. ASSUME ReadStatus \/ WriteData PROVE Stays
  BY <1>2 DEF ReadStatus, WriteData, Access, options, Stays
<1>3. ASSUME ProgrammedReset PROVE Flushes
  BY <1>3 DEF ProgrammedReset, Access, options, Flushes
<1>4. ASSUME NEW p \in Periods, WriteControl(p) \/ \E c \in Commands : WriteCommand(c, p)
      PROVE  Stays
  BY <1>4 DEF WriteControl, WriteCommand, Retime, Access, options, Stays
<1>5. ASSUME NEW n \in StepCycles, TickTx(n) \/ \E set \in BOOLEAN : TxDone(n, set)
      PROVE  Stays
  BY <1>5 DEF TickTx, TxDone, options, Stays
<1>6. ASSUME TickRx \/ (\E set \in BOOLEAN : PollNothing(set)) \/ UNCHANGED aciaVars
      PROVE  Stays
  BY <1>6 DEF TickRx, PollNothing, Counting, aciaVars, options, Stays
<1>7. ASSUME NEW b \in Nat, Receive(b) PROVE Arrives(b) /\ (Overruns => "OVRN" \in status')
  <2>1. Arrives(b)
    BY <1>7 DEF Receive, Arrives, Counting, options
  <2>2. ASSUME Overruns PROVE "OVRN" \in status'
    BY <1>7, <2>2 DEF Receive, UpdateIrq
  <2>. QED BY <2>1, <2>2
<1>8. CASE Program
  BY <1>1, <1>2, <1>3, <1>4, <1>8 DEF Program
<1>9. CASE \E b \in Nat : Receive(b)
  BY <1>7, <1>9
<1>10. CASE \E n \in StepCycles : TickTx(n) \/ \E set \in BOOLEAN : TxDone(n, set)
  BY <1>5, <1>10
<1>. QED BY <1>6, <1>8, <1>9, <1>10 DEF SerialStep

LEMMA ReceiverInvStep == ReceiverInv /\ [SerialStep]_aciaVars => ReceiverInv'
<1>. SUFFICES ASSUME ReceiverInv, [SerialStep]_aciaVars PROVE ReceiverInv'
  OBVIOUS
<1>. USE DEF ReceiverInv
<1>1. CASE Stays
  BY <1>1 DEF Stays, receiver
<1>2. CASE Reads
  <2>1. CASE fifo # <<>>
    <3>1. Head(fifo) \in Nat /\ Tail(fifo) \in Seq(Nat) /\ Len(Tail(fifo)) = Len(fifo) - 1
      BY <2>1, ElementsOfTail
    <3>2. Len(fifo) \in Nat
      BY LenProperties
    <3>3. rxFull' /\ heard' \in Nat
      BY <1>2, <2>1 DEF Reads
    <3>4. rdr' = Head(fifo) /\ fifo' = Tail(fifo) /\ arrived' = arrived /\ fifoSize' = fifoSize
      BY <1>2, <2>1 DEF Reads
    <3>5. Len(fifo') <= fifoSize'
      BY <3>1, <3>2, <3>4
    <3>. QED BY <3>1, <3>3, <3>4, <3>5
  <2>2. CASE fifo = <<>>
    BY <1>2, <2>2 DEF Reads
  <2>. QED BY <2>1, <2>2
<1>3. CASE Flushes
  BY <1>3, EmptySeq DEF Flushes
<1>4. ASSUME NEW b \in Nat, Arrives(b) PROVE ReceiverInv'
  <2>1. Append(fifo, b) \in Seq(Nat) /\ Len(Append(fifo, b)) = Len(fifo) + 1 /\ Len(fifo) \in Nat
    BY AppendProperties, LenProperties
  <2>2. rxFull' /\ fifoSize' = fifoSize /\ arrived' = b /\ heard' = heard
    BY <1>4 DEF Arrives, Store
  <2>3. rdr' \in Nat /\ fifo' \in {fifo, Append(fifo, b)} /\ (fifo' # fifo => Len(fifo) < fifoSize)
    BY <1>4 DEF Arrives, Store
  <2>. QED BY <2>1, <2>2, <2>3
<1>. QED BY <1>1, <1>2, <1>3, <1>4, SerialStepReceiver

LEMMA PowerOnReceiver == ASSUME NEW pin \in BOOLEAN, PowerOn(pin) PROVE ReceiverInv
BY AciaAssumption, EmptySeq DEF PowerOn, ReceiverInv

\* A byte leaves the interface by being read, by a reset, or with the overrun flag up.
LossStep ==
  \/ (HeldSet \cup ({arrived'} \ {arrived})) \ HeldSet' \subseteq {heard'}
  \/ "OVRN" \in status'
  \/ ProgrammedReset

LEMMA SerialStepLoss == ReceiverInv /\ [SerialStep]_aciaVars => LossStep
<1>. SUFFICES ASSUME ReceiverInv, [SerialStep]_aciaVars PROVE LossStep
  OBVIOUS
<1>1. HeldSet = (IF rxFull THEN {rdr} ELSE {}) \cup Elements(fifo)
  <2>1. Elements((IF rxFull THEN <<rdr>> ELSE <<>>) \o fifo) = (IF rxFull THEN {rdr} ELSE {}) \cup Elements(fifo)
    BY ElementsHeld DEF ReceiverInv
  <2>. QED BY <2>1 DEF HeldSet, Held, Elements
<1>2. HeldSet' = (IF rxFull' THEN {rdr'} ELSE {}) \cup Elements(fifo')
  <2>1. rdr' \in Nat /\ fifo' \in Seq(Nat)
    BY ReceiverInvStep DEF ReceiverInv
  <2>2. Elements((IF rxFull' THEN <<rdr'>> ELSE <<>>) \o fifo')
          = (IF rxFull' THEN {rdr'} ELSE {}) \cup Elements(fifo')
    BY <2>1, ElementsHeld
  <2>. QED BY <2>2 DEF HeldSet, Held, Elements
<1>3. CASE Stays
  BY <1>1, <1>2, <1>3 DEF Stays, receiver, LossStep
<1>4. CASE Reads
  <2>1. arrived' = arrived
    BY <1>4 DEF Reads
  <2>2. CASE fifo # <<>>
    <3>1. Elements(fifo) = {rdr'} \cup Elements(fifo') /\ rxFull'
      BY <1>4, <2>2, ElementsOfTail DEF Reads, ReceiverInv
    <3>. QED BY <1>1, <1>2, <1>4, <2>1, <3>1 DEF Reads, LossStep
  <2>3. CASE fifo = <<>>
    <3>1. Elements(fifo) = {}
      BY <2>3 DEF Elements
    <3>. QED BY <1>1, <1>4, <2>1, <2>3, <3>1 DEF Reads, LossStep
  <2>. QED BY <2>2, <2>3
<1>5. CASE ProgrammedReset
  BY <1>5 DEF LossStep
<1>6. ASSUME NEW b \in Nat, Arrives(b), Overruns => "OVRN" \in status' PROVE LossStep
  <2>1. CASE Overruns
    BY <1>6, <2>1 DEF LossStep
  <2>2. CASE ~Overruns /\ ~rxFull
    BY <1>1, <1>2, <1>6, <2>2 DEF Arrives, Store, LossStep
  <2>3. CASE ~Overruns /\ rxFull
    <3>1. Len(fifo) < fifoSize /\ fifoSize # 0
      <4>1. Len(fifo) \in Nat /\ fifoSize \in Nat /\ ~(Len(fifo) >= fifoSize)
        BY <2>3, LenProperties DEF Overruns, ReceiverInv
      <4>. QED BY <4>1
    <3>2. fifo' = Append(fifo, b) /\ rdr' = rdr /\ rxFull'
      BY <1>6, <2>3, <3>1 DEF Arrives, Store
    <3>3. Elements(fifo') = Elements(fifo) \cup {b}
      BY <3>2, ElementsOfAppend DEF ReceiverInv
    <3>. QED BY <1>1, <1>2, <1>6, <2>3, <3>2, <3>3 DEF Arrives, LossStep
  <2>. QED BY <2>1, <2>2, <2>3
<1>. QED BY <1>3, <1>4, <1>5, <1>6, SerialStepReceiver

\* Whatever the back end does and however much arrives, a step of the interface alone
\* is one of those above.
LEMMA InterfaceStep == ReceiverInv /\ [Program \/ AciaTick]_aciaVars => [SerialStep]_aciaVars
<1>1. arrived \in Nat /\ Receive(arrived + 1) => \E b \in Nat : Receive(b)
  BY arrived \in Nat => arrived + 1 \in Nat
<1>. QED BY <1>1 DEF AciaTick, SerialStep, ReceiverInv

\* Under every back end, no interrupt cause is missed ...
THEOREM InterfaceCauses == AciaSpec => []NoMissedCause
<1>1. AciaInit => CauseInv /\ ReceiverInv
  BY PowerOnCauses, PowerOnReceiver DEF AciaInit
<1>2. CauseInv => NoMissedCause
  BY DEF CauseInv
<1>. QED BY <1>1, <1>2, InterfaceStep, SerialStepCauses, ReceiverInvStep, PTL DEF AciaSpec

\* ... and a received byte that is neither read nor reset away is kept, or flagged lost.
THEOREM InterfaceLosses == AciaSpec => LossFlagged
<1>1. AciaInit => ReceiverInv
  BY PowerOnReceiver DEF AciaInit
<1>. QED BY <1>1, InterfaceStep, ReceiverInvStep, SerialStepLoss, PTL
         DEF AciaSpec, LossFlagged, LossStep

-----------------------------------------------------------------------------
(* The modem's buffer *)

BufferInv ==
  /\ rxBuf \in Seq(Nat) /\ wire \in Seq(Nat) /\ Len(rxBuf) <= BufSize
  /\ lastByte \in Nat /\ carrier = (peer # "none")

\* What is read from the socket fits in the buffer, and the buffer is left with a
\* byte to give whenever digitelec_poll said there was one.
LEMMA FilledProperties ==
  ASSUME BufferInv
  PROVE  /\ Read \in 0..Len(wire) /\ Filled \in Seq(Nat)
         /\ Len(Filled) = Len(rxBuf) + Read /\ Len(Filled) <= BufSize
         /\ HasData /\ ~EndOfFile => Filled # <<>>
<1>1. Len(rxBuf) \in Nat /\ Len(wire) \in Nat /\ BufSize \in Nat \ {0}
  BY LenProperties, DigitelecAssumption DEF BufferInv
<1>2. Read \in {BufSize - Len(rxBuf), Len(wire)} /\ \A y \in {BufSize - Len(rxBuf), Len(wire)} : Read <= y
  <2>. DEFINE S == {BufSize - Len(rxBuf), Len(wire)}
  <2>1. \E x \in S : \A y \in S : x <= y
    BY <1>1 DEF BufferInv
  <2>. HIDE DEF S
  <2>2. Min(S) \in S /\ \A y \in S : Min(S) <= y
    BY <2>1 DEF Min
  <2>. QED BY <2>2 DEF S, Read
<1>3. Read \in 0..Len(wire) /\ Len(rxBuf) + Read <= BufSize
  BY <1>1, <1>2 DEF BufferInv
<1>4. SubSeq(wire, 1, Read) \in Seq(Nat) /\ Len(SubSeq(wire, 1, Read)) = Read
  BY <1>3, SubSeqProperties DEF BufferInv
<1>5. Filled \in Seq(Nat) /\ Len(Filled) = Len(rxBuf) + Read
  BY <1>4, ConcatProperties DEF BufferInv, Filled
<1>6. ASSUME HasData, ~EndOfFile PROVE Filled # <<>>
  <2>1. CASE Len(rxBuf) > 0
    BY <1>1, <1>3, <1>5, <2>1
  <2>2. CASE Len(wire) > 0 /\ Len(rxBuf) = 0
    <3>1. Read > 0
      BY <1>1, <1>2, <2>2
    <3>2. Len(Filled) > 0
      BY <1>1, <1>3, <1>5, <2>2, <3>1
    <3>. QED BY <3>2
  <2>3. CASE Len(rxBuf) = 0 /\ Len(wire) = 0
    <3>1. rxBuf = <<>> /\ wire = <<>>
      BY <2>3, EmptySeq DEF BufferInv
    <3>2. peer = "closed" /\ Len(Filled) >= BufSize
      BY <1>1, <1>3, <1>5, <1>6, <3>1 DEF HasData, EndOfFile
    <3>. QED BY <1>1, <3>2
  <2>. QED BY <1>1, <2>1, <2>2, <2>3
<1>. QED BY <1>3, <1>5, <1>6

\* Every step is one of the interface, or leaves it alone.
LEMMA ModemStep == BufferInv /\ [Next]_vars => [SerialStep]_aciaVars
<1>. SUFFICES ASSUME BufferInv, [Next]_vars PROVE [SerialStep]_aciaVars
  OBVIOUS
<1>1. CASE HostSends \/ HostCloses \/ UNCHANGED vars
  BY <1>1 DEF HostSends, HostCloses, vars
<1>2. CASE Alone(Program)
  BY <1>2 DEF Alone, SerialStep
<1>3. ASSUME NEW n \in StepCycles,
             \/ Alone(TickTx(n)) \/ SendQuiet(n) \/ SendDials(n) \/ SendFails(n) \/ SendBlocked(n)
      PROVE  SerialStep
  BY <1>3 DEF Alone, SendQuiet, SendDials, SendFails, SendBlocked, SerialStep
<1>4. CASE Alone(TickRx) \/ PollEmpty \/ RecvHangup
  BY <1>4 DEF Alone, PollEmpty, RecvHangup, SerialStep
<1>5. CASE RecvByte
  <2>1. Head(Filled) \in Nat
    BY <1>5, FilledProperties, HeadTailProperties DEF RecvByte
  <2>. QED BY <1>5, <2>1 DEF RecvByte, SerialStep
<1>. QED BY <1>1, <1>2, <1>3, <1>4, <1>5 DEF Next, Tick

\* What a step does to the modem's side of the line: nothing; a byte the host sends;
\* a hangup or a new call, with nothing on the line; or a byte to the interface.
DropsOrKeeps == wire' \in {wire, <<>>} /\ rxBuf' \in {rxBuf, <<>>} /\ lastByte' = lastByte

LEMMA BufferStep ==
  ASSUME BufferInv, [Next]_vars
  PROVE  \/ DropsOrKeeps
         \/ HostSends
         \/ RecvByte
<1>1. CASE HostCloses \/ UNCHANGED vars
  BY <1>1 DEF HostCloses, modem, vars, host, DropsOrKeeps
<1>2. CASE Alone(Program) \/ Alone(TickRx) \/ PollEmpty \/ RecvHangup
  BY <1>2 DEF Alone, PollEmpty, RecvHangup, Disconnected, modem, host, DropsOrKeeps
<1>3. ASSUME NEW n \in StepCycles,
             \/ Alone(TickTx(n)) \/ SendQuiet(n) \/ SendDials(n) \/ SendFails(n) \/ SendBlocked(n)
      PROVE  DropsOrKeeps
  BY <1>3 DEF Alone, SendQuiet, SendDials, SendFails, SendBlocked, Connected, Disconnected, modem, host, DropsOrKeeps
<1>. QED BY <1>1, <1>2, <1>3 DEF Next, Tick

LEMMA BufferInvStep == BufferInv /\ [Next]_vars => BufferInv'
<1>. SUFFICES ASSUME BufferInv, [Next]_vars PROVE BufferInv'
  OBVIOUS
<1>1. (carrier = (peer # "none"))'
  <2>1. CASE HostSends \/ HostCloses \/ UNCHANGED vars
    BY <2>1 DEF HostSends, HostCloses, modem, vars, host, BufferInv
  <2>2. CASE Alone(Program) \/ Alone(TickRx) \/ PollEmpty \/ RecvHangup \/ RecvByte
    BY <2>2 DEF Alone, PollEmpty, RecvHangup, RecvByte, Disconnected, modem, host, BufferInv
  <2>3. ASSUME NEW n \in StepCycles,
               \/ Alone(TickTx(n)) \/ SendQuiet(n) \/ SendDials(n) \/ SendFails(n) \/ SendBlocked(n)
        PROVE  (carrier = (peer # "none"))'
    BY <2>3 DEF Alone, SendQuiet, SendDials, SendFails, SendBlocked, Connected, Disconnected, modem, host,
            BufferInv
  <2>. QED BY <2>1, <2>2, <2>3 DEF Next, Tick
<1>2. rxBuf' \in Seq(Nat) /\ wire' \in Seq(Nat) /\ Len(rxBuf') <= BufSize /\ lastByte' \in Nat
  <2>1. CASE DropsOrKeeps
    <3>1. <<>> \in Seq(Nat) /\ Len(<<>>) = 0 /\ 0 <= BufSize
      BY EmptySeq, DigitelecAssumption
    <3>. QED BY <2>1, <3>1 DEF DropsOrKeeps, BufferInv
  <2>2. CASE HostSends
    <3>1. lastByte + 1 \in Nat /\ Append(wire, lastByte + 1) \in Seq(Nat)
      BY AppendProperties DEF BufferInv
    <3>. QED BY <2>2, <3>1 DEF HostSends, modem, BufferInv
  <2>3. CASE RecvByte
    <3>1. Tail(Filled) \in Seq(Nat) /\ Len(Tail(Filled)) = Len(Filled) - 1 /\ Len(Filled) <= BufSize
      BY <2>3, FilledProperties, HeadTailProperties DEF RecvByte
    <3>2. SubSeq(wire, Read + 1, Len(wire)) \in Seq(Nat)
      <4>1. Read \in Nat /\ Len(wire) \in Nat /\ \A i \in Read + 1..Len(wire) : wire[i] \in Nat
        BY FilledProperties, LenProperties DEF BufferInv
      <4>. QED BY <4>1, SubSeqProperties
    <3>3. Len(Filled) \in Nat
      BY FilledProperties, LenProperties
    <3>4. BufSize \in Nat
      BY DigitelecAssumption
    <3>5. rxBuf' = Tail(Filled) /\ wire' = SubSeq(wire, Read + 1, Len(wire)) /\ lastByte' = lastByte
      BY <2>3 DEF RecvByte
    <3>6. Len(rxBuf') <= BufSize
      BY <3>1, <3>3, <3>4, <3>5
    <3>. QED BY <3>1, <3>2, <3>5, <3>6 DEF BufferInv
  <2>. QED BY <2>1, <2>2, <2>3, BufferStep
<1>. QED BY <1>1, <1>2 DEF BufferInv

-----------------------------------------------------------------------------
(* The pins *)

LEMMA PinsStep == BufferInv /\ PinsFollowModem /\ [Next]_vars => PinsFollowModem'
<1>. SUFFICES ASSUME BufferInv, PinsFollowModem, [Next]_vars PROVE PinsFollowModem'
  OBVIOUS
<1>0. BufferInv' /\ Len(rxBuf') <= BufSize
  BY BufferInvStep DEF BufferInv
<1>1. ASSUME UNCHANGED <<dcd, cts, carrier, rxBuf, ctsActive>> PROVE PinsFollowModem'
  BY <1>0, <1>1 DEF PinsFollowModem, BufferInv
<1>2. ASSUME Disconnected PROVE PinsFollowModem'
  BY <1>0, <1>2 DEF Disconnected, PinsFollowModem, BufferInv
<1>3. ASSUME Connected PROVE PinsFollowModem'
  BY <1>0, <1>3 DEF Connected, PinsFollowModem, BufferInv
<1>4. CASE HostSends \/ HostCloses \/ UNCHANGED vars
  BY <1>1, <1>4 DEF HostSends, HostCloses, modem, vars, aciaVars
<1>5. CASE Alone(Program)
  <2>1. UNCHANGED <<dcd, cts, modem>>
    BY <1>5 DEF Alone, Program, Access, ReadData, ReadStatus, WriteData, ProgrammedReset, WriteCommand,
                WriteControl
  <2>. QED BY <1>1, <2>1 DEF modem
<1>6. CASE Alone(TickRx) \/ PollEmpty
  BY <1>1, <1>6 DEF Alone, TickRx, PollEmpty, modem
<1>7. CASE RecvHangup
  BY <1>2, <1>7 DEF RecvHangup
<1>8. ASSUME NEW n \in StepCycles,
             \/ Alone(TickTx(n)) \/ SendQuiet(n) \/ SendDials(n) \/ SendFails(n) \/ SendBlocked(n)
      PROVE  PinsFollowModem'
  <2>1. CASE Alone(TickTx(n)) \/ SendQuiet(n) \/ SendBlocked(n)
    BY <1>1, <2>1 DEF Alone, TickTx, SendQuiet, SendBlocked, TxDone, modem
  <2>. QED BY <1>2, <1>3, <1>8, <2>1 DEF SendDials, SendFails
<1>9. CASE RecvByte
  <2>1. /\ UNCHANGED <<dcd, carrier, peer>> /\ rxBuf' = Tail(Filled)
        /\ cts' = (IF ctsActive' = ctsActive THEN cts ELSE ctsActive')
        /\ ctsActive' = IF ctsActive THEN Len(Filled) < High ELSE Len(Filled) <= Low
    BY <1>9 DEF RecvByte, FlowControl
  <2>2. Len(rxBuf') = Len(Filled) - 1 /\ Len(Filled) \in Nat
    BY <1>9, <2>1, FilledProperties, HeadTailProperties, LenProperties DEF RecvByte
  <2>3. cts' = ctsActive'
    BY <2>1 DEF PinsFollowModem
  <2>4. ASSUME ~ctsActive' PROVE Len(rxBuf') >= Low
    <3>1. Low \in Nat /\ High \in Nat /\ Low < High
      BY DigitelecAssumption
    <3>2. ~(Len(Filled) < High) \/ ~(Len(Filled) <= Low)
      BY <2>1, <2>4
    <3>. QED BY <2>2, <3>1, <3>2
  <2>. QED BY <1>0, <2>1, <2>3, <2>4 DEF PinsFollowModem, BufferInv
<1>. QED BY <1>4, <1>5, <1>6, <1>7, <1>8, <1>9 DEF Next, Tick

LEMMA InitInvs == Init => CauseInv /\ ReceiverInv /\ BufferInv
<1>. SUFFICES ASSUME Init PROVE CauseInv /\ ReceiverInv /\ BufferInv
  OBVIOUS
<1>1. CauseInv /\ ReceiverInv
  BY PowerOnCauses, PowerOnReceiver DEF Init
<1>2. <<>> \in Seq(Nat) /\ Len(<<>>) = 0 /\ 0 <= BufSize
  BY EmptySeq, DigitelecAssumption
<1>. QED BY <1>1, <1>2 DEF Init, BufferInv

\* The pins are what the modem says, and CTS is off only over a buffer to drain.
THEOREM ModemPins == Spec => []PinsFollowModem
<1>1. Init => BufferInv /\ PinsFollowModem
  <2>. SUFFICES ASSUME Init PROVE BufferInv /\ PinsFollowModem
    OBVIOUS
  <2>1. BufferInv
    BY InitInvs
  <2>2. ~dcd /\ ~carrier /\ cts /\ ctsActive /\ peer = "none"
    BY DEF Init, PowerOn
  <2>3. dcd = carrier /\ cts = ctsActive
    BY DEF Init, PowerOn
  <2>. QED BY <2>1, <2>2, <2>3 DEF BufferInv, PinsFollowModem
<1>2. BufferInv /\ PinsFollowModem /\ [Next]_vars => (BufferInv /\ PinsFollowModem)'
  BY BufferInvStep, PinsStep
<1>. QED BY <1>1, <1>2, PTL DEF Spec

\* Behind the modem, too, every enabled cause has raised the line or been shown.
THEOREM ModemCauses == Spec => []NoMissedCause
<1>1. CauseInv => NoMissedCause
  BY DEF CauseInv
<1>. QED BY <1>1, InitInvs, BufferInvStep, ModemStep, SerialStepCauses, PTL DEF Spec

\* A byte that came through the modem leaves the interface by being read or by a
\* reset, or the overrun flag is up.
THEOREM ModemLosses == Spec => LossFlagged
<1>. QED BY InitInvs, BufferInvStep, ModemStep, ReceiverInvStep, SerialStepLoss, PTL
         DEF Spec, LossFlagged, LossStep

-----------------------------------------------------------------------------
(* Ordered sequences *)

Increasing(s) == \A i, j \in 1..Len(s) : i < j => s[i] < s[j]
Before(A, B) == \A x \in A, y \in B : x < y

LEMMA EmptyOrdered == Increasing(<<>>) /\ Elements(<<>>) = {}
BY DEF Increasing, Elements

LEMMA SingleOrdered == ASSUME NEW e \in Nat
                       PROVE  <<e>> \in Seq(Nat) /\ Increasing(<<e>>) /\ Elements(<<e>>) = {e}
BY DEF Increasing, Elements

LEMMA ConcatOrdered ==
  ASSUME NEW s \in Seq(Nat), NEW t \in Seq(Nat), Increasing(s), Increasing(t),
         Before(Elements(s), Elements(t))
  PROVE  s \o t \in Seq(Nat) /\ Increasing(s \o t)
<1>1. /\ Len(s \o t) = Len(s) + Len(t) /\ Len(s) \in Nat /\ Len(t) \in Nat
      /\ \A i \in 1..Len(s) + Len(t) : (s \o t)[i] = IF i <= Len(s) THEN s[i] ELSE t[i - Len(s)]
      /\ s \o t \in Seq(Nat)
  BY ConcatProperties, LenProperties
<1>2. ASSUME NEW i \in 1..Len(s \o t), NEW j \in 1..Len(s \o t), i < j
      PROVE  (s \o t)[i] < (s \o t)[j]
  <2>1. CASE j <= Len(s)
    BY <1>1, <1>2, <2>1 DEF Increasing
  <2>2. CASE i <= Len(s) /\ ~(j <= Len(s))
    <3>1. s[i] \in Elements(s) /\ t[j - Len(s)] \in Elements(t)
      BY <1>1, <1>2, <2>2 DEF Elements
    <3>. QED BY <1>1, <2>2, <3>1 DEF Before
  <2>3. CASE ~(i <= Len(s))
    <3>1. i - Len(s) \in 1..Len(t) /\ j - Len(s) \in 1..Len(t) /\ i - Len(s) < j - Len(s) /\ ~(j <= Len(s))
      BY <1>1, <1>2, <2>3
    <3>. QED BY <1>1, <2>3, <3>1 DEF Increasing
  <2>. QED BY <1>1, <1>2, <2>1, <2>2, <2>3
<1>. QED BY <1>1, <1>2 DEF Increasing

\* A sequence cut in two.
LEMMA CutOrdered ==
  ASSUME NEW s \in Seq(Nat), NEW n \in 0..Len(s), Increasing(s)
  PROVE  LET a == SubSeq(s, 1, n)
             b == SubSeq(s, n + 1, Len(s))
         IN  /\ a \in Seq(Nat) /\ b \in Seq(Nat) /\ Increasing(a) /\ Increasing(b)
             /\ Elements(a) \subseteq Elements(s) /\ Elements(b) \subseteq Elements(s)
             /\ Before(Elements(a), Elements(b))
<1>. DEFINE a == SubSeq(s, 1, n)
            b == SubSeq(s, n + 1, Len(s))
<1>1. Len(s) \in Nat /\ n \in Nat /\ n <= Len(s) /\ \A i \in 1..Len(s) : s[i] \in Nat
  BY LenProperties, ElementOfSeq
<1>2. a \in Seq(Nat) /\ Len(a) = n /\ \A i \in 1..n : a[i] = s[i]
  BY <1>1, SubSeqProperties
<1>3. b \in Seq(Nat) /\ Len(b) = Len(s) - n /\ \A i \in 1..Len(s) - n : b[i] = s[n + i]
  <2>1. \A i \in n + 1..Len(s) : s[i] \in Nat
    BY <1>1
  <2>2. /\ b \in Seq(Nat) /\ Len(b) = IF n + 1 <= Len(s) THEN Len(s) - (n + 1) + 1 ELSE 0
        /\ \A i \in 1..Len(s) - (n + 1) + 1 : b[i] = s[(n + 1) + i - 1]
    BY <1>1, <2>1, SubSeqProperties
  <2>3. Len(b) = Len(s) - n
    BY <1>1, <2>2
  <2>4. ASSUME NEW i \in 1..Len(s) - n PROVE b[i] = s[n + i]
    <3>1. i \in 1..Len(s) - (n + 1) + 1 /\ (n + 1) + i - 1 = n + i
      BY <1>1
    <3>. QED BY <2>2, <3>1
  <2>. QED BY <2>2, <2>3, <2>4
<1>. HIDE DEF a, b
<1>4. Increasing(a) /\ Elements(a) \subseteq Elements(s)
  <2>1. 1..n \subseteq 1..Len(s)
    BY <1>1
  <2>2. ASSUME NEW i \in 1..n, NEW j \in 1..n, i < j PROVE a[i] < a[j]
    BY <1>2, <2>1, <2>2 DEF Increasing
  <2>. QED BY <1>2, <2>1, <2>2 DEF Increasing, Elements
<1>5. Increasing(b)
  <2>1. ASSUME NEW i \in 1..Len(b), NEW j \in 1..Len(b), i < j PROVE b[i] < b[j]
    <3>1. n + i \in 1..Len(s) /\ n + j \in 1..Len(s) /\ n + i < n + j
      BY <1>1, <1>3, <2>1
    <3>. QED BY <1>3, <3>1 DEF Increasing
  <2>. QED BY <2>1 DEF Increasing
<1>6. ASSUME NEW y \in Elements(b) PROVE \E j \in n + 1..Len(s) : y = s[j]
  <2>1. PICK i \in 1..Len(s) - n : y = b[i]
    BY <1>3 DEF Elements
  <2>. QED BY <1>1, <1>3, <2>1
<1>7. ASSUME NEW y \in Elements(b) PROVE y \in Elements(s)
  <2>1. PICK j \in n + 1..Len(s) : y = s[j]
    BY <1>6
  <2>2. j \in 1..Len(s)
    BY <1>1
  <2>. QED BY <2>1, <2>2 DEF Elements
<1>8. Before(Elements(a), Elements(b))
  <2>1. ASSUME NEW x \in Elements(a), NEW y \in Elements(b) PROVE x < y
    <3>1. PICK i \in 1..n : x = s[i]
      BY <1>2 DEF Elements
    <3>2. PICK j \in n + 1..Len(s) : y = s[j]
      BY <1>6
    <3>. QED BY <1>1, <3>1, <3>2 DEF Increasing
  <2>. QED BY <2>1 DEF Before
<1>. QED BY <1>2, <1>3, <1>4, <1>5, <1>7, <1>8 DEF a, b

LEMMA TailOrdered ==
  ASSUME NEW s \in Seq(Nat), s # <<>>, Increasing(s)
  PROVE  Increasing(Tail(s)) /\ Before({Head(s)}, Elements(Tail(s)))
<1>1. /\ Tail(s) \in Seq(Nat) /\ Len(Tail(s)) = Len(s) - 1 /\ Len(s) \in Nat \ {0}
      /\ \A i \in 1..Len(Tail(s)) : Tail(s)[i] = s[i + 1]
      /\ Head(s) = s[1]
  BY HeadTailProperties, EmptySeq
<1>2. ASSUME NEW i \in 1..Len(Tail(s)), NEW j \in 1..Len(Tail(s)), i < j PROVE Tail(s)[i] < Tail(s)[j]
  <2>1. i + 1 \in 1..Len(s) /\ j + 1 \in 1..Len(s) /\ i + 1 < j + 1
    BY <1>1, <1>2
  <2>. QED BY <1>1, <2>1 DEF Increasing
<1>3. ASSUME NEW y \in Elements(Tail(s)) PROVE Head(s) < y
  <2>1. PICK i \in 1..Len(Tail(s)) : y = Tail(s)[i]
    BY DEF Elements
  <2>2. i + 1 \in 1..Len(s) /\ 1 \in 1..Len(s) /\ 1 < i + 1 /\ y = s[i + 1]
    BY <1>1, <2>1
  <2>. QED BY <1>1, <2>2 DEF Increasing
<1>. QED BY <1>2, <1>3 DEF Increasing, Before

-----------------------------------------------------------------------------
(* The line from the socket to the program *)

\* The FIFO, the modem's buffer and the socket hold the bytes in this order, all of
\* them behind the byte in the data register and the one the program read last.
\* The three sequences are kept apart: a property of their concatenation would have
\* to be taken to pieces in every step.
Behind == Elements(fifo) \cup Elements(rxBuf) \cup Elements(wire)
OrderInv ==
  /\ Increasing(fifo) /\ Increasing(rxBuf) /\ Increasing(wire)
  /\ Before(Elements(fifo), Elements(rxBuf) \cup Elements(wire))
  /\ Before(Elements(rxBuf), Elements(wire))
  /\ Before({heard}, Behind)
  /\ rxFull => heard < rdr /\ rdr <= lastByte /\ Before({rdr}, Behind)
  /\ heard <= lastByte /\ \A x \in Behind : x <= lastByte

LineTypes == BufferInv /\ ReceiverInv

LEMMA ElementsAreNat == ASSUME NEW s \in Seq(Nat) PROVE Elements(s) \subseteq Nat
BY ElementOfSeq DEF Elements

\* The buffer filled from the socket, and the rest of the socket.
LEMMA FilledOrdered ==
  ASSUME LineTypes, OrderInv, Filled # <<>>
  PROVE  LET rest == SubSeq(wire, Read + 1, Len(wire))
             b == Head(Filled)
         IN  /\ b \in Elements(rxBuf) \cup Elements(wire)
             /\ Elements(Tail(Filled)) \subseteq Elements(rxBuf) \cup Elements(wire)
             /\ Elements(rest) \subseteq Elements(wire)
             /\ Increasing(Tail(Filled)) /\ Increasing(rest)
             /\ Before(Elements(Tail(Filled)), Elements(rest))
             /\ Before({b}, Elements(Tail(Filled)) \cup Elements(rest))
<1>. DEFINE first == SubSeq(wire, 1, Read)
            rest == SubSeq(wire, Read + 1, Len(wire))
<1>1. Read \in 0..Len(wire) /\ Filled \in Seq(Nat) /\ Filled = rxBuf \o first
  BY FilledProperties DEF LineTypes, Filled
<1>2. /\ first \in Seq(Nat) /\ rest \in Seq(Nat) /\ Increasing(first) /\ Increasing(rest)
      /\ Elements(first) \subseteq Elements(wire) /\ Elements(rest) \subseteq Elements(wire)
      /\ Before(Elements(first), Elements(rest))
  BY <1>1, CutOrdered DEF LineTypes, BufferInv, OrderInv
<1>. HIDE DEF first, rest
<1>3. Before(Elements(rxBuf), Elements(first)) /\ Before(Elements(rxBuf), Elements(rest))
  BY <1>2 DEF OrderInv, Before
<1>4. Increasing(Filled) /\ Elements(Filled) = Elements(rxBuf) \cup Elements(first)
  BY <1>1, <1>2, <1>3, ConcatOrdered, ElementsOfConcat DEF LineTypes, BufferInv, OrderInv
<1>5. Before(Elements(Filled), Elements(rest))
  BY <1>2, <1>3, <1>4 DEF Before
<1>6. /\ Elements(Filled) = {Head(Filled)} \cup Elements(Tail(Filled))
      /\ Increasing(Tail(Filled)) /\ Before({Head(Filled)}, Elements(Tail(Filled)))
  BY <1>1, <1>4, ElementsOfTail, TailOrdered
<1>7. Before({Head(Filled)}, Elements(rest)) /\ Before(Elements(Tail(Filled)), Elements(rest))
  BY <1>5, <1>6 DEF Before
<1>8. Before({Head(Filled)}, Elements(Tail(Filled)) \cup Elements(rest))
  BY <1>6, <1>7 DEF Before
<1>. QED BY <1>2, <1>4, <1>6, <1>7, <1>8 DEF rest

\* The program reads, or resets, the interface.
LEMMA ReadOrdered ==
  ASSUME LineTypes, OrderInv, Reads \/ Flushes \/ Stays, DropsOrKeeps
  PROVE  OrderInv'
<1>1. /\ Elements(wire') \subseteq Elements(wire) /\ Elements(rxBuf') \subseteq Elements(rxBuf)
      /\ Increasing(wire') /\ Increasing(rxBuf') /\ lastByte' = lastByte
  BY EmptyOrdered DEF DropsOrKeeps, OrderInv
<1>2. /\ heard \in Nat /\ lastByte \in Nat /\ rdr \in Nat /\ Behind \subseteq Nat
      /\ fifo \in Seq(Nat) /\ (~rxFull => fifo = <<>>)
  BY ElementsAreNat DEF LineTypes, BufferInv, ReceiverInv, Behind
<1>3. CASE Stays
  <2>1. UNCHANGED <<fifo, heard, rdr, rxFull>>
    BY <1>3 DEF Stays, receiver
  <2>2. Behind' \subseteq Behind
    BY <1>1, <2>1 DEF Behind
  <2>. QED BY <1>1, <2>1, <2>2 DEF OrderInv, Before
<1>4. CASE Flushes
  <2>1. fifo' = <<>> /\ ~rxFull' /\ heard' = heard /\ Behind' \subseteq Behind
    BY <1>1, <1>4, EmptyOrdered DEF Flushes, Behind
  <2>. QED BY <1>1, <2>1, EmptyOrdered DEF OrderInv, Before
<1>5. CASE Reads /\ fifo # <<>>
  <2>1. rxFull /\ heard' = rdr /\ rdr' = Head(fifo) /\ fifo' = Tail(fifo) /\ rxFull'
    BY <1>2, <1>5 DEF Reads
  <2>2. /\ Elements(fifo) = {rdr'} \cup Elements(fifo')
        /\ Increasing(fifo') /\ Before({rdr'}, Elements(fifo'))
    BY <1>2, <1>5, <2>1, ElementsOfTail, TailOrdered DEF OrderInv
  <2>3. Behind' \subseteq Behind /\ rdr' \in Behind
    BY <1>1, <2>2 DEF Behind
  <2>4. Before({rdr'}, Behind')
    BY <1>1, <2>2 DEF OrderInv, Before, Behind
  <2>5. Before({heard'}, Behind') /\ heard' < rdr' /\ heard' <= lastByte'
    BY <1>1, <2>1, <2>3 DEF OrderInv, Before
  <2>6. /\ Before(Elements(fifo), Elements(rxBuf) \cup Elements(wire))'
        /\ Before(Elements(rxBuf), Elements(wire))'
    BY <1>1, <2>2 DEF OrderInv, Before
  <2>7. rdr' <= lastByte' /\ \A x \in Behind' : x <= lastByte'
    BY <1>1, <2>3 DEF OrderInv
  <2>. QED BY <1>1, <2>2, <2>4, <2>5, <2>6, <2>7 DEF OrderInv
<1>6. CASE Reads /\ fifo = <<>>
  <2>1. fifo' = <<>> /\ ~rxFull' /\ heard' = (IF rxFull THEN rdr ELSE heard) /\ Behind' \subseteq Behind
    BY <1>1, <1>6 DEF Reads, Behind
  <2>2. Before({heard'}, Behind') /\ heard' <= lastByte'
    <3>1. CASE rxFull
      BY <1>1, <2>1, <3>1 DEF OrderInv, Before
    <3>2. CASE ~rxFull
      BY <1>1, <2>1, <3>2 DEF OrderInv, Before
    <3>. QED BY <3>1, <3>2
  <2>. QED BY <1>1, <2>1, <2>2, EmptyOrdered DEF OrderInv, Before
<1>. QED BY <1>3, <1>4, <1>5, <1>6

\* The host sends: the byte is beyond all there are.
LEMMA SendOrdered ==
  ASSUME LineTypes, OrderInv, HostSends
  PROVE  OrderInv'
<1>. DEFINE b == lastByte + 1
<1>1. /\ wire' = Append(wire, b) /\ lastByte' = b
      /\ UNCHANGED <<fifo, rdr, rxFull, heard, rxBuf>>
  BY DEF HostSends, aciaVars, receiver, modem
<1>2. /\ heard \in Nat /\ lastByte \in Nat /\ rdr \in Nat /\ Behind \subseteq Nat
      /\ wire \in Seq(Nat) /\ b \in Nat
  BY ElementsAreNat DEF LineTypes, BufferInv, ReceiverInv, Behind
<1>3. \A x \in Behind : x < b /\ x <= b
  BY <1>2 DEF OrderInv
<1>4. Elements(wire') = Elements(wire) \cup {b} /\ Behind' = Behind \cup {b}
  BY <1>1, <1>2, ElementsOfAppend DEF Behind
<1>. HIDE DEF b
<1>5. Increasing(wire')
  <2>1. Before(Elements(wire), Elements(<<b>>)) /\ <<b>> \in Seq(Nat) /\ Increasing(<<b>>)
    BY <1>2, <1>3, SingleOrdered DEF Before, Behind
  <2>2. Append(wire, b) = wire \o <<b>>
    BY <1>2, AppendIsConcat
  <2>. QED BY <1>1, <1>2, <2>1, <2>2, ConcatOrdered DEF OrderInv
<1>6. Before(Elements(fifo), Elements(rxBuf) \cup Elements(wire))' /\ Before(Elements(rxBuf), Elements(wire))'
  BY <1>1, <1>3, <1>4 DEF OrderInv, Before, Behind
<1>7. heard' < b /\ heard' <= b /\ (rxFull' => rdr' < b /\ rdr' <= b)
  BY <1>1, <1>2 DEF OrderInv, b
<1>8. Before({heard'}, Behind') /\ (rxFull' => Before({rdr'}, Behind') /\ heard' < rdr')
  BY <1>1, <1>4, <1>7 DEF OrderInv, Before
<1>9. \A x \in Behind' : x <= lastByte'
  BY <1>1, <1>2, <1>3, <1>4
<1>. QED BY <1>1, <1>5, <1>6, <1>7, <1>8, <1>9 DEF OrderInv

\* The modem reads the socket and passes the oldest byte on.
LEMMA RecvOrdered ==
  ASSUME LineTypes, OrderInv, RecvByte
  PROVE  OrderInv'
<1>. DEFINE b == Head(Filled)
<1>1. Filled # <<>>
  BY FilledProperties DEF RecvByte, LineTypes
<1>2. /\ rxBuf' = Tail(Filled) /\ wire' = SubSeq(wire, Read + 1, Len(wire))
      /\ lastByte' = lastByte /\ Store(b) /\ heard' = heard
  BY DEF RecvByte, Receive
<1>3. /\ b \in Elements(rxBuf) \cup Elements(wire)
      /\ Elements(rxBuf') \subseteq Elements(rxBuf) \cup Elements(wire)
      /\ Elements(wire') \subseteq Elements(wire)
      /\ Increasing(rxBuf') /\ Increasing(wire')
      /\ Before(Elements(rxBuf'), Elements(wire'))
      /\ Before({b}, Elements(rxBuf') \cup Elements(wire'))
  BY <1>1, <1>2, FilledOrdered
<1>. HIDE DEF b
<1>4. /\ heard \in Nat /\ lastByte \in Nat /\ rdr \in Nat /\ Behind \subseteq Nat
      /\ fifo \in Seq(Nat) /\ (~rxFull => fifo = <<>>)
      /\ Len(fifo) \in Nat /\ fifoSize \in Nat /\ Len(fifo) <= fifoSize
  BY ElementsAreNat, LenProperties DEF LineTypes, BufferInv, ReceiverInv, Behind
<1>5. b \in Behind /\ b \in Nat /\ heard < b /\ b <= lastByte
  BY <1>3, <1>4 DEF OrderInv, Before, Behind
<1>6. CASE ~rxFull \/ fifoSize = 0
  <2>1. fifo = <<>>
    BY <1>4, <1>6, EmptySeq
  <2>2. rdr' = b /\ fifo' = <<>>
    BY <1>2, <1>6, <2>1 DEF Store
  <2>3. Behind' = Elements(rxBuf') \cup Elements(wire') /\ Behind' \subseteq Behind
    BY <1>3, <2>2, EmptyOrdered DEF Behind
  <2>. QED BY <1>2, <1>3, <1>5, <2>2, <2>3, EmptyOrdered DEF OrderInv, Before
<1>7. CASE rxFull /\ fifoSize # 0
  <2>1. rdr' = rdr /\ fifo' \in {fifo, Append(fifo, b)}
    BY <1>2, <1>7 DEF Store
  <2>2. Elements(Append(fifo, b)) = Elements(fifo) \cup {b}
    BY <1>4, <1>5, ElementsOfAppend
  <2>3. Elements(fifo') \subseteq Elements(fifo) \cup {b}
    BY <2>1, <2>2
  <2>4. Increasing(fifo')
    <3>1. Before(Elements(fifo), Elements(<<b>>)) /\ <<b>> \in Seq(Nat) /\ Increasing(<<b>>)
      BY <1>3, <1>5, SingleOrdered DEF OrderInv, Before
    <3>2. Increasing(fifo \o <<b>>) /\ Append(fifo, b) = fifo \o <<b>>
      BY <1>4, <1>5, <3>1, ConcatOrdered, AppendIsConcat DEF OrderInv
    <3>. QED BY <2>1, <3>2 DEF OrderInv
  <2>5. Behind' \subseteq Behind
    BY <1>3, <2>3 DEF Behind
  <2>6. Before(Elements(fifo), Elements(rxBuf) \cup Elements(wire))'
    BY <1>3, <2>3 DEF OrderInv, Before
  <2>. QED BY <1>2, <1>3, <1>7, <2>1, <2>4, <2>5, <2>6 DEF OrderInv, Before
<1>. QED BY <1>6, <1>7

\* Every step keeps the order.
LEMMA OrderStep == LineTypes /\ OrderInv /\ [Next]_vars => OrderInv'
<1>. SUFFICES ASSUME LineTypes, OrderInv, [Next]_vars PROVE OrderInv'
  OBVIOUS
<1>1. CASE HostCloses \/ UNCHANGED vars
  <2>1. Stays /\ DropsOrKeeps
    BY <1>1 DEF HostCloses, modem, vars, host, aciaVars, options, Stays, DropsOrKeeps
  <2>. QED BY <2>1, ReadOrdered
<1>2. CASE Alone(Program)
  <2>2. Reads \/ Flushes \/ Stays
    BY <1>2 DEF Alone, Program, ReadData, ReadStatus, WriteData, ProgrammedReset, WriteCommand,
                WriteControl, Retime, Access, options, receiver, Reads, Flushes, Stays
  <2>3. DropsOrKeeps
    BY <1>2 DEF Alone, modem, host, DropsOrKeeps
  <2>. QED BY <2>2, <2>3, ReadOrdered
<1>3. CASE Alone(TickRx) \/ PollEmpty \/ RecvHangup
  <2>1. Stays
    BY <1>3 DEF Alone, TickRx, PollEmpty, RecvHangup, PollNothing, Counting, options, Stays
  <2>2. DropsOrKeeps
    BY <1>3 DEF Alone, PollEmpty, RecvHangup, Disconnected, modem, host, DropsOrKeeps
  <2>. QED BY <2>1, <2>2, ReadOrdered
<1>4. ASSUME NEW n \in StepCycles,
             \/ Alone(TickTx(n)) \/ SendQuiet(n) \/ SendDials(n) \/ SendFails(n) \/ SendBlocked(n)
      PROVE  OrderInv'
  <2>1. Stays
    BY <1>4 DEF Alone, SendQuiet, SendDials, SendFails, SendBlocked, TickTx, TxDone, options, Stays
  <2>2. DropsOrKeeps
    BY <1>4 DEF Alone, SendQuiet, SendDials, SendFails, SendBlocked, Connected, Disconnected, modem,
                host, DropsOrKeeps
  <2>. QED BY <2>1, <2>2, ReadOrdered
<1>. QED BY <1>1, <1>2, <1>3, <1>4, SendOrdered, RecvOrdered DEF Next, Tick

\* The concatenation of the four places is in order, because each is and each is
\* before the next.
LEMMA OrderedLine == LineTypes /\ OrderInv => LineInOrder
<1>. SUFFICES ASSUME LineTypes, OrderInv PROVE LineInOrder
  OBVIOUS
<1>. DEFINE register == IF rxFull THEN <<rdr>> ELSE <<>>
            line == Held \o rxBuf \o wire
<1>1. /\ heard \in Nat /\ lastByte \in Nat /\ rdr \in Nat /\ Behind \subseteq Nat
      /\ fifo \in Seq(Nat) /\ rxBuf \in Seq(Nat) /\ wire \in Seq(Nat)
  BY ElementsAreNat DEF LineTypes, BufferInv, ReceiverInv, Behind
<1>2. /\ register \in Seq(Nat) /\ Increasing(register)
      /\ Elements(register) = (IF rxFull THEN {rdr} ELSE {})
  BY <1>1, EmptySeq, SingleOrdered, EmptyOrdered
<1>3. Held = register \o fifo
  BY DEF Held
<1>. HIDE DEF register
<1>4. Held \in Seq(Nat) /\ Increasing(Held) /\ Elements(Held) = Elements(register) \cup Elements(fifo)
  <2>1. Before(Elements(register), Elements(fifo))
    BY <1>2 DEF OrderInv, Before, Behind
  <2>. QED BY <1>1, <1>2, <1>3, <2>1, ConcatOrdered, ElementsOfConcat DEF OrderInv
<1>5. /\ Held \o rxBuf \in Seq(Nat) /\ Increasing(Held \o rxBuf)
      /\ Elements(Held \o rxBuf) = Elements(Held) \cup Elements(rxBuf)
  <2>1. Before(Elements(Held), Elements(rxBuf))
    BY <1>2, <1>4 DEF OrderInv, Before, Behind
  <2>. QED BY <1>1, <1>4, <2>1, ConcatOrdered, ElementsOfConcat DEF OrderInv
<1>6. /\ line \in Seq(Nat) /\ Increasing(line)
      /\ Elements(line) = Elements(register) \cup Behind
  <2>1. Before(Elements(Held \o rxBuf), Elements(wire))
    BY <1>2, <1>4, <1>5 DEF OrderInv, Before, Behind
  <2>2. Elements(line) = Elements(Held \o rxBuf) \cup Elements(wire)
    BY <1>1, <1>5, ElementsOfConcat
  <2>. QED BY <1>1, <1>4, <1>5, <2>1, <2>2, ConcatOrdered DEF OrderInv, Behind
<1>. HIDE DEF line
<1>7. \A i \in 1..Len(line) - 1 : line[i] < line[i + 1]
  BY <1>6, LenProperties DEF Increasing
<1>8. \A x \in Elements(line) : heard < x /\ x <= lastByte
  BY <1>2, <1>6 DEF OrderInv, Before
<1>9. ASSUME line # <<>> PROVE heard < line[1] /\ Last(line) <= lastByte
  <2>1. Len(line) \in Nat \ {0}
    BY <1>6, <1>9, EmptySeq, LenProperties
  <2>2. line[1] \in Elements(line) /\ line[Len(line)] \in Elements(line)
    BY <2>1 DEF Elements
  <2>. QED BY <1>8, <2>2 DEF Last
<1>. QED BY <1>7, <1>9 DEF LineInOrder, line

\* The bytes are in order from the socket to the program, none twice, however
\* arrivals, ticks, hangups and register accesses interleave.
THEOREM ModemLine == Spec => []LineInOrder
<1>1. Init => LineTypes /\ OrderInv
  <2>. SUFFICES ASSUME Init PROVE LineTypes /\ OrderInv
    OBVIOUS
  <2>1. LineTypes
    BY InitInvs DEF LineTypes
  <2>2. /\ fifo = <<>> /\ rxBuf = <<>> /\ wire = <<>> /\ ~rxFull
        /\ heard = 0 /\ lastByte = 0
    BY DEF Init, PowerOn
  <2>3. Behind = {}
    BY <2>2, EmptyOrdered DEF Behind
  <2>. QED BY <2>1, <2>2, <2>3, EmptyOrdered DEF OrderInv, Before
<1>2. LineTypes /\ OrderInv /\ [Next]_vars => (LineTypes /\ OrderInv)'
  BY BufferInvStep, ModemStep, ReceiverInvStep, OrderStep DEF LineTypes
<1>. QED BY <1>1, <1>2, OrderedLine, PTL DEF Spec
=============================================================================
