--------------------------- MODULE FrameLoopProofs --------------------------
(***************************************************************************)
(* What the VIA keeps for every counter width, every program and every       *)
(* length of instruction: the CPU's bit is the OR of the enabled flags and   *)
(* no underflow of a timer is missed.  Each handler is shown to keep the     *)
(* invariant; all of them reach the flags through CheckIrq.  Then the        *)
(* emulation loop around it, for every length of frame: the wait state and   *)
(* the vertical blanking.                                                   *)
(***************************************************************************)
EXTENDS FrameLoop, TLAPS

-----------------------------------------------------------------------------
(* The VIA *)

\* The line is what the flags say, and the CPU knows the line: the CPU's bit
\* alone is not inductive, because it moves only when the line does.
IrqInv ==
  /\ ifr \subseteq Flags /\ ier \subseteq Flags
  /\ irqLine \in BOOLEAN /\ cpuBit \in BOOLEAN
  /\ irqLine <=> (ifr \cap ier # {})
  /\ cpuBit = irqLine
TimerInv ==
  /\ t1 \in Word /\ t2 \in Word /\ t1Lo \in Byte /\ t1Hi \in Byte /\ t2Lo \in Byte
  /\ t1On \in BOOLEAN /\ t2On \in BOOLEAN /\ t1Due \in Word /\ t2Due \in Word
  /\ NoMissedUnderflow
ModeInv ==
  /\ freeRun \in BOOLEAN /\ countPulses \in BOOLEAN /\ cb1Rising \in BOOLEAN
  /\ ca2Indep \in BOOLEAN /\ cb2Indep \in BOOLEAN /\ cb1Pin \in BOOLEAN
IInv == IrqInv /\ TimerInv /\ ModeInv

\* Two bytes make a word: what starting or reloading a timer puts in its counter.
LEMMA WordOfBytes == \A h, l \in Byte : h * Base + l \in Word
<1> SUFFICES ASSUME NEW h \in Byte, NEW l \in Byte PROVE h * Base + l \in Word
  OBVIOUS
<1> USE ViaAssumption
<1>1. h \in Int /\ l \in Int /\ 0 <= h /\ h <= Base - 1 /\ 0 <= l /\ l <= Base - 1
  BY DEF Byte
<1>2. h * Base \in Int /\ 0 <= h * Base
  BY <1>1
<1>3. h * Base <= (Base - 1) * Base
  BY <1>1
<1>4. (Base - 1) * Base = Base * Base - Base
  OBVIOUS
<1>5. h * Base + l <= Base * Base - 1
  <2> DEFINE p == h * Base
             q == Base * Base
  <2>1. p \in Int /\ q \in Int /\ p <= q - Base
    BY <1>2, <1>3, <1>4
  <2> HIDE DEF p, q
  <2>2. p + l <= q - 1
    BY <2>1, <1>1
  <2> QED BY <2>2 DEF p, q
<1>6. h * Base + l \in Int /\ 0 <= h * Base + l
  BY <1>1, <1>2
<1> QED BY <1>5, <1>6 DEF Word

\* Looking at the line keeps the CPU's bit equal to the OR of the enabled flags.
LEMMA CheckIrqInv ==
  ASSUME IrqInv, NEW f \in SUBSET Flags, NEW e \in SUBSET Flags, CheckIrq(f, e)
  PROVE  IrqInv'
  BY DEF CheckIrq, IrqInv

\* Every register access keeps the invariant.
LEMMA RegisterInv == IInv /\ RegisterAccess => IInv'
<1> SUFFICES ASSUME IInv, RegisterAccess PROVE IInv'
  OBVIOUS
<1> USE ViaAssumption
<1>0. IrqInv /\ TimerInv /\ ModeInv
  BY DEF IInv
<1>a. ASSUME NEW m, m \subseteq Flags, Clear(m) PROVE IrqInv'
  BY <1>0, <1>a, CheckIrqInv DEF Clear, IrqInv
<1>b. ASSUME UNCHANGED timers PROVE TimerInv'
  BY <1>0, <1>b DEF timers, TimerInv, NoMissedUnderflow
<1>c. ASSUME UNCHANGED <<modes, cb1Pin>> PROVE ModeInv'
  BY <1>0, <1>c DEF modes, ModeInv
<1>d. ASSUME UNCHANGED irqs PROVE IrqInv'
  BY <1>0, <1>d DEF irqs, IrqInv
<1>1. CASE PortB
  BY <1>1, <1>a, <1>b, <1>c DEF PortB, Flags, IInv
<1>2. CASE PortA
  BY <1>2, <1>a, <1>b, <1>c DEF PortA, Flags, IInv
<1>3. CASE ShiftRegister
  BY <1>3, <1>a, <1>b, <1>c DEF ShiftRegister, Flags, IInv
<1>4. CASE \E timer \in {"T1", "T2"} : ReadCounter(timer)
  BY <1>4, <1>a, <1>b, <1>c DEF ReadCounter, Flags, IInv
<1>5. ASSUME NEW b \in Byte,
             WriteT1LL(b) \/ WriteT1LH(b) \/ WriteT2CL(b) \/ WriteT1CH(b) \/ WriteT2CH(b)
      PROVE  IInv'
  <2>1. CASE WriteT1LL(b)
    BY <2>1, <1>0, <1>c, <1>d DEF WriteT1LL, TimerInv, NoMissedUnderflow, IInv
  <2>2. CASE WriteT1LH(b)
    BY <2>2, <1>0, <1>a, <1>c DEF WriteT1LH, TimerInv, NoMissedUnderflow, Flags, IInv
  <2>3. CASE WriteT2CL(b)
    BY <2>3, <1>0, <1>c, <1>d DEF WriteT2CL, TimerInv, NoMissedUnderflow, IInv
  <2>4. CASE WriteT1CH(b)
    <3>1. b * Base + t1Lo \in Word
      BY <1>0, WordOfBytes DEF TimerInv
    <3>2. TimerInv'
      BY <2>4, <1>0, <3>1 DEF WriteT1CH, TimerInv, NoMissedUnderflow
    <3> QED BY <2>4, <1>a, <1>c, <3>2 DEF WriteT1CH, Flags, IInv
  <2>5. CASE WriteT2CH(b)
    <3>1. b * Base + t2Lo \in Word
      BY <1>0, WordOfBytes DEF TimerInv
    <3>2. TimerInv'
      BY <2>5, <1>0, <3>1 DEF WriteT2CH, TimerInv, NoMissedUnderflow
    <3> QED BY <2>5, <1>a, <1>c, <3>2 DEF WriteT2CH, Flags, IInv
  <2> QED BY <1>5, <2>1, <2>2, <2>3, <2>4, <2>5
<1>6. ASSUME NEW free \in BOOLEAN, NEW pulses \in BOOLEAN, WriteACR(free, pulses) PROVE IInv'
  BY <1>6, <1>0, <1>b, <1>d DEF WriteACR, ModeInv, IInv
<1>7. ASSUME NEW m \in PCRs, WritePCR(m) PROVE IInv'
  BY <1>7, <1>0, <1>b, <1>d DEF WritePCR, ModeInv, IInv
<1>8. ASSUME NEW m \in Masks, WriteIFR(m) PROVE IInv'
  BY <1>8, <1>a, <1>b, <1>c DEF WriteIFR, IInv
<1>9. ASSUME NEW m \in Masks, NEW on \in BOOLEAN, WriteIER(m, on) PROVE IInv'
  <2>1. IrqInv'
    BY <1>9, <1>0, CheckIrqInv DEF WriteIER, IrqInv
  <2> QED BY <1>9, <2>1, <1>b, <1>c DEF WriteIER, IInv
<1> QED BY <1>1, <1>2, <1>3, <1>4, <1>5, <1>6, <1>7, <1>8, <1>9 DEF RegisterAccess

\* A counter that did not underflow stands c cycles lower, above zero, and its
\* ghost with it; one that did had at most c cycles left.
LEMMA Counting ==
  ASSUME NEW x \in Word, NEW c \in 1..Base * Base - 1
  PROVE  /\ Down(x, c) \in Word
         /\ Left(x, c) \in Word
         /\ ~Underflows(x, c) => Down(x, c) = Left(x, c)
         /\ c < x => ~Underflows(x, c) \/ Down(x, c) = Base * Base - 1
         /\ Underflows(x, c) => Left(x, c) = 0
<1> DEFINE m == Base * Base
<1>1. m \in Int /\ x \in 0..m - 1 /\ c \in 1..m - 1
  BY ViaAssumption DEF Word
<1> HIDE DEF m
<1> QED BY <1>1 DEF Down, Left, Underflows, Word, m

\* The passing of c cycles keeps the invariant.
LEMMA UpdateInv == ASSUME IInv, NEW c \in StepCycles, Update(c) PROVE IInv'
<1> USE ViaAssumption
<1>0. IrqInv /\ TimerInv /\ ModeInv
  BY DEF IInv
<1>1. c \in 1..Base * Base - 1
  OBVIOUS
<1>2. /\ Down(t1, c) \in Word /\ (~Underflows(t1, c) => Down(t1, c) = Left(t1, c))
      /\ Left(t1, c) \in Word /\ (Underflows(t1, c) => Left(t1, c) = 0)
  BY <1>0, <1>1, Counting DEF TimerInv
<1>3. /\ Down(t2, c) \in Word /\ (~Underflows(t2, c) => Down(t2, c) = Left(t2, c))
      /\ Left(t2, c) \in Word /\ (Underflows(t2, c) => Left(t2, c) = 0)
  BY <1>0, <1>1, Counting DEF TimerInv
<1>4. t1Hi * Base + t1Lo \in Word
  BY <1>0, WordOfBytes DEF TimerInv
<1>5. Underflows(t1, c) \in BOOLEAN /\ Underflows(t2, c) \in BOOLEAN
  BY DEF Underflows
<1>6. TimerInv'
  <2>1. /\ t1' \in Word /\ t1On' \in BOOLEAN /\ t1Due' \in Word
        /\ (t1On' => t1Due' = t1') /\ (~t1On' => t1Due' = 0)
    <3>1. CASE t1On
      <4>1. CountT1(c) /\ t1Due = t1
        BY <3>1, <1>0 DEF Update, TimerInv, NoMissedUnderflow
      <4>2. CASE Underflows(t1, c) /\ freeRun
        BY <4>1, <4>2, <1>4 DEF CountT1
      <4>3. CASE Underflows(t1, c) /\ ~freeRun
        BY <4>1, <4>3, <1>2 DEF CountT1
      <4>4. CASE ~Underflows(t1, c)
        BY <4>1, <4>4, <1>2 DEF CountT1
      <4> QED BY <4>2, <4>3, <4>4
    <3>2. CASE ~t1On
      BY <3>2, <1>0 DEF Update, TimerInv, NoMissedUnderflow
    <3> QED BY <3>1, <3>2
  <2>2. /\ t2' \in Word /\ t2On' \in BOOLEAN /\ t2Due' \in Word
        /\ (t2On' => t2Due' = t2') /\ (~t2On' => t2Due' = 0)
    <3>1. CASE Counts2
      <4>1. CountT2(c) /\ t2Due = t2
        BY <3>1, <1>0 DEF Update, TimerInv, NoMissedUnderflow, Counts2
      <4> QED BY <4>1, <1>3, <1>5 DEF CountT2
    <3>2. CASE ~Counts2
      BY <3>2, <1>0 DEF Update, TimerInv, NoMissedUnderflow
    <3> QED BY <3>1, <3>2
  <2> QED BY <2>1, <2>2, <1>0 DEF Update, TimerInv, NoMissedUnderflow
<1>7. IrqInv'
  <2> DEFINE f == (IF t1On /\ Underflows(t1, c) THEN {"T1"} ELSE {})
                   \cup IF Counts2 /\ Underflows(t2, c) THEN {"T2"} ELSE {}
  <2>1. f \subseteq Flags /\ Raise(f)
    BY DEF Update, Flags
  <2> HIDE DEF f
  <2> QED BY <2>1, <1>0, CheckIrqInv DEF Raise, IrqInv
<1>8. ModeInv'
  BY <1>0 DEF Update, ModeInv, modes
<1> QED BY <1>6, <1>7, <1>8 DEF IInv

\* An edge on CB1, or a pulse on any of the pins, keeps the invariant.
LEMMA PinInv ==
  ASSUME IInv,
         \/ \E level \in BOOLEAN : SetCb1(level)
         \/ \E pin \in Pins : Trigger(pin)
         \/ TriggerCb1
  PROVE  IInv'
<1>0. IrqInv /\ TimerInv /\ ModeInv
  BY DEF IInv
<1>a. ASSUME NEW f, f \subseteq Flags, Raise(f) PROVE IrqInv'
  BY <1>0, <1>a, CheckIrqInv DEF Raise, IrqInv
<1>b. ASSUME UNCHANGED timers PROVE TimerInv'
  BY <1>0, <1>b DEF timers, TimerInv, NoMissedUnderflow
<1>d. ASSUME UNCHANGED irqs PROVE IrqInv'
  BY <1>0, <1>d DEF irqs, IrqInv
<1>1. ASSUME NEW level \in BOOLEAN, SetCb1(level) PROVE IInv'
  <2>1. IrqInv'
    BY <1>1, <1>a, <1>d DEF SetCb1, Flags
  <2>2. ModeInv'
    BY <1>1, <1>0 DEF SetCb1, ModeInv, modes
  <2> QED BY <1>1, <1>b, <2>1, <2>2 DEF SetCb1, IInv
<1>2. ASSUME NEW pin \in Pins, Trigger(pin) PROVE IInv'
  <2>1. IrqInv'
    BY <1>2, <1>a, ViaAssumption DEF Trigger, Flags
  <2>2. ModeInv'
    BY <1>2, <1>0 DEF Trigger, ModeInv, modes
  <2> QED BY <1>2, <1>b, <2>1, <2>2 DEF Trigger, IInv
<1>3. CASE TriggerCb1
  <2>1. IrqInv'
    BY <1>3, <1>a, <1>d DEF TriggerCb1, Flags
  <2>2. ModeInv'
    BY <1>3, <1>0 DEF TriggerCb1, ModeInv, modes
  <2> QED BY <1>3, <1>b, <2>1, <2>2 DEF TriggerCb1, IInv
<1> QED BY <1>1, <1>2, <1>3

\* The invariant holds at power-on and every step keeps it.
THEOREM Invariance == Spec => []IInv
<1>1. ViaInit => IInv
  <2> SUFFICES ASSUME ViaInit PROVE IInv
    OBVIOUS
  <2>1. Base * Base - 1 \in Word /\ Base - 1 \in Byte /\ 0 \in Word
    <3>1. (Base - 1) * Base + (Base - 1) \in Word
      BY ViaAssumption, WordOfBytes DEF Byte
    <3> QED BY <3>1, ViaAssumption DEF Word, Byte
  <2> QED BY <2>1 DEF ViaInit, IInv, IrqInv, TimerInv, ModeInv, NoMissedUnderflow
<1>2. IInv /\ [Next]_viaVars => IInv'
  <2> SUFFICES ASSUME IInv, [Next]_viaVars PROVE IInv'
    OBVIOUS
  <2>1. CASE UNCHANGED viaVars
    BY <2>1 DEF viaVars, timers, modes, irqs, IInv, IrqInv, TimerInv, ModeInv, NoMissedUnderflow
  <2>2. CASE Next
    BY <2>2, RegisterInv, UpdateInv, PinInv DEF Next
  <2> QED BY <2>1, <2>2
<1> QED BY <1>1, <1>2, PTL DEF Spec

\* The variables keep their types.
THEOREM Types == Spec => []TypeOK
<1>1. IInv => TypeOK
  BY DEF IInv, IrqInv, TimerInv, ModeInv, TypeOK
<1> QED BY <1>1, Invariance, PTL

\* The CPU's VIA bit is always the OR of the enabled flags.
THEOREM CpuBit == Spec => []CpuSeesFlags
<1>1. IInv => CpuSeesFlags
  BY DEF IInv, IrqInv, CpuSeesFlags
<1> QED BY <1>1, Invariance, PTL

\* No running timer has gone past its underflow.
THEOREM Timers == Spec => []NoMissedUnderflow
<1>1. IInv => NoMissedUnderflow
  BY DEF IInv, TimerInv
<1> QED BY <1>1, Invariance, PTL

-----------------------------------------------------------------------------
(* The emulation loop *)

\* The VIA's line, the saved one and the CPU's bit are lines and bits: the bit is
\* told of changes, and a change of something else would be none.
LineInv ==
  /\ irqLine \in BOOLEAN /\ cpuBit \in BOOLEAN
  /\ \A s \in file : s.irqLine \in BOOLEAN

\* A wait that began with no interrupt pending goes on while none is: the CPU has
\* fetched nothing since its WAI.  The property is silent while an interrupt is
\* pending, so it is not inductive alone.
WaitInv == waiting /\ ~ran => atWai /\ ~Irq

\* CB1 is low from the blanking to the end of the frame, and the blanking is not
\* later than the first step that ends behind its cycle.  Until the program writes
\* the PCR, the edges so far are those of the edge it has selected.
FlagTypes == vsync \in BOOLEAN /\ cb1Pin \in BOOLEAN /\ cb1Rising \in BOOLEAN /\ exempt \in BOOLEAN
Phases == {"cpu", "update", "tick", "vsync", "end", "events"}
FrameInv ==
  /\ phase \in Phases /\ frame \in Nat
  /\ phase = "cpu" => vsync \/ frame < VsyncCycle
  /\ phase = "end" => vsync \/ exempt
  /\ phase = "events" \/ ~vsync => cb1Pin
  /\ phase # "events" /\ vsync => ~cb1Pin
  /\ phase # "events" /\ ~vsync => edges = 0
  /\ phase # "events" /\ vsync /\ ~exempt => edges = IF cb1Rising THEN 0 ELSE 1
  /\ OneVsyncPerFrame

\* States are saved between two frames, when CB1 is up.
FileInv == \A s \in file : s.cb1Pin = TRUE /\ s.cb1Rising \in BOOLEAN

-----------------------------------------------------------------------------
(* The VIA's line *)

\* The line stays and the CPU's bit with it, or the line moves and the bit follows.
LineStep ==
  \/ UNCHANGED <<irqLine, cpuBit>>
  \/ irqLine' \in BOOLEAN /\ irqLine' # irqLine /\ cpuBit' = irqLine'

LEMMA CheckIrqLine == ASSUME NEW f, NEW e, CheckIrq(f, e), LineInv PROVE LineStep
BY DEF CheckIrq, LineStep, LineInv

LEMMA LoopLine == LineInv /\ Loop => LineStep
<1>. SUFFICES ASSUME LineInv, Loop PROVE LineStep
  OBVIOUS
<1>1. ASSUME UNCHANGED irqs PROVE LineStep
  BY <1>1 DEF irqs, LineStep
<1>2. ASSUME UNCHANGED viaVars PROVE LineStep
  BY <1>1, <1>2 DEF viaVars
<1>3. ASSUME NEW f, Clear(f) \/ Raise(f) PROVE LineStep
  BY <1>3, CheckIrqLine DEF Clear, Raise
<1>4. ASSUME NEW level, SetCb1(level) PROVE LineStep
  BY <1>1, <1>3, <1>4 DEF SetCb1
<1>5. CASE CpuStep
  <2>1. CASE StoppedStep \/ WaitingStep \/ Service \/ Compute \/ AccessOther \/ Wai \/ Stp
    BY <1>2, <2>1 DEF StoppedStep, WaitingStep, Service, Compute, AccessOther, Wai, Stp
  <2>2. CASE AccessVia
    <3>1. CASE PortB \/ ReadCounter("T1")
      BY <1>3, <3>1 DEF PortB, ReadCounter
    <3>2. CASE \E b \in Byte : WriteT1CH(b)
      BY <1>3, <3>2 DEF WriteT1CH
    <3>3. CASE \E free \in BOOLEAN : WriteACR(free, FALSE)
      BY <1>1, <3>3 DEF WriteACR
    <3>4. CASE \E m \in Masks : WriteIFR(m) \/ \E on \in BOOLEAN : WriteIER(m, on)
      BY <1>3, <3>4, CheckIrqLine DEF WriteIFR, WriteIER
    <3>. QED BY <2>2, <3>1, <3>2, <3>3, <3>4 DEF AccessVia
  <2>3. CASE AccessPcr
    BY <1>1, <2>3 DEF AccessPcr, WritePCR
  <2>. QED BY <1>5, <2>1, <2>2, <2>3 DEF CpuStep
<1>6. CASE UpdateVia
  BY <1>3, <1>6 DEF UpdateVia, Update
<1>7. CASE TickOthers \/ FullFrame \/ NextFrame
  BY <1>2, <1>7 DEF TickOthers, FullFrame, NextFrame
<1>8. CASE TriggerVsync \/ EndFrame
  BY <1>2, <1>4, <1>8 DEF TriggerVsync, EndFrame, Blanking, NoBlanking
<1>. QED BY <1>5, <1>6, <1>7, <1>8 DEF Loop

LEMMA LineInvStep == LineInv /\ [LoopNext]_vars => LineInv'
<1>. SUFFICES ASSUME LineInv, [LoopNext]_vars PROVE LineInv'
  OBVIOUS
<1>1. CASE Loop
  <2>1. LineStep /\ UNCHANGED file
    BY <1>1, LoopLine DEF Loop
  <2>. QED BY <2>1 DEF LineStep, LineInv
<1>2. CASE Save
  <2>1. UNCHANGED <<irqLine, cpuBit>> /\ file' = {Snapshot}
    BY <1>2 DEF Save, viaVars, irqs
  <2>2. Snapshot.irqLine = irqLine
    BY DEF Snapshot
  <2>. QED BY <2>1, <2>2 DEF LineInv
<1>3. CASE Load
  <2>1. (\E s \in file : irqLine' = s.irqLine) /\ UNCHANGED <<cpuBit, file>>
    BY <1>3 DEF Load
  <2>. QED BY <2>1 DEF LineInv
<1>4. CASE Reset
  BY <1>4 DEF Reset, LineInv
<1>5. CASE UNCHANGED vars
  BY <1>5 DEF vars, viaVars, irqs, LineInv
<1>. QED BY <1>1, <1>2, <1>3, <1>4, <1>5 DEF LoopNext

\* Nothing but F4 and F5 parts the CPU's VIA bit from the VIA's line, and the next
\* move of the line brings them together again.
THEOREM Parts == LoopSpec => OnlyKeysPart
<1>1. Init => LineInv
  BY DEF Init, ViaInit, LineInv
<1>2. LineInv /\ [LoopNext]_vars
        => [Load \/ Reset \/ cpuBit' = irqLine' \/ UNCHANGED <<cpuBit, irqLine>>]_vars
  <2>. SUFFICES ASSUME LineInv, LoopNext
                PROVE  Load \/ Reset \/ cpuBit' = irqLine' \/ UNCHANGED <<cpuBit, irqLine>>
    OBVIOUS
  <2>1. CASE Loop
    BY <2>1, LoopLine DEF LineStep
  <2>2. CASE Save
    BY <2>2 DEF Save, viaVars, irqs
  <2>. QED BY <2>1, <2>2 DEF LoopNext
<1>. QED BY <1>1, <1>2, LineInvStep, PTL DEF LoopSpec, OnlyKeysPart

-----------------------------------------------------------------------------
(* WAI *)

\* A step that leaves the CPU waiting executes WAI, or lets time pass while no
\* interrupt comes, or is that of a CPU that ran on with its waiting flag set.
WaitStep ==
  \/ ~waiting'
  \/ waiting' /\ atWai' /\ (Irq' => Irq)
  \/ waiting /\ atWai' = atWai /\ (Irq' => Irq)
  \/ waiting /\ Irq

LEMMA LoopWait == LineInv /\ Loop => WaitStep
<1>. SUFFICES ASSUME LineInv, Loop, waiting' PROVE WaitStep
  BY DEF WaitStep
<1>1. LineStep
  BY LoopLine
<1>2. ASSUME Wakes PROVE waiting /\ (cpuBit' => cpuBit)
  <2>1. waiting /\ ~(irqLine' /\ ~irqLine)
    BY <1>2 DEF Wakes
  <2>. QED BY <1>1, <2>1 DEF LineStep, LineInv
<1>3. ASSUME OtherMoves PROVE waiting /\ (otherBit' => otherBit)
  <2>1. CASE otherBit' = TRUE /\ waiting' = FALSE
    BY <2>1
  <2>2. CASE otherBit' \in {otherBit, FALSE} /\ UNCHANGED waiting
    <3>1. waiting' = waiting /\ (otherBit' = otherBit \/ otherBit' = FALSE)
      BY <2>2
    <3>. QED BY <3>1
  <2>. QED BY <1>3, <2>1, <2>2 DEF OtherMoves
<1>4. CASE StoppedStep \/ WaitingStep \/ FullFrame \/ NextFrame
  BY <1>4 DEF StoppedStep, WaitingStep, FullFrame, NextFrame, cpuVars, viaVars, irqs, Irq, WaitStep
<1>5. CASE Service
  BY <1>5 DEF Service
<1>6. CASE Compute \/ AccessVia \/ AccessPcr \/ AccessOther \/ Stp
  <2>1. waiting
    BY <1>2, <1>3, <1>6 DEF Compute, AccessVia, AccessPcr, AccessOther, Stp
  <2>2. waiting => Irq
    BY <1>6 DEF Compute, AccessVia, AccessPcr, AccessOther, Stp, Fetches
  <2>. QED BY <2>1, <2>2 DEF WaitStep
<1>7. CASE Wai
  BY <1>7 DEF Wai, viaVars, irqs, Irq, WaitStep
<1>8. CASE UpdateVia
  BY <1>2, <1>8 DEF UpdateVia, Irq, WaitStep
<1>9. CASE TickOthers
  BY <1>3, <1>9 DEF TickOthers, viaVars, irqs, Irq, WaitStep
<1>10. CASE TriggerVsync \/ EndFrame
  BY <1>2, <1>10 DEF TriggerVsync, EndFrame, Blanking, NoBlanking, cpuVars, viaVars, irqs, Irq, WaitStep
<1>. QED BY <1>4, <1>5, <1>6, <1>7, <1>8, <1>9, <1>10 DEF Loop, CpuStep

LEMMA WaitInvStep == LineInv /\ WaitInv /\ [LoopNext]_vars => WaitInv'
<1>. SUFFICES ASSUME LineInv, WaitInv, [LoopNext]_vars PROVE WaitInv'
  OBVIOUS
<1>1. CASE Loop
  <2>1. WaitStep /\ ran' = (waiting' /\ (ran \/ (Irq /\ atWai')))
    BY <1>1, LoopWait DEF Loop
  <2>2. ASSUME waiting', ~ran' PROVE atWai' /\ ~Irq'
    <3>1. ~ran /\ ~(Irq /\ atWai')
      BY <2>1, <2>2
    <3>. QED BY <2>1, <2>2, <3>1 DEF WaitStep, WaitInv
  <2>. QED BY <2>2 DEF WaitInv
<1>2. CASE Reset
  BY <1>2 DEF Reset, WaitInv
<1>4. CASE Save \/ Load
  <2>1. UNCHANGED <<cpuBit, cpuVars, ran>>
    BY <1>4 DEF Save, Load, viaVars, irqs
  <2>. QED BY <2>1 DEF cpuVars, WaitInv, Irq
<1>3. CASE UNCHANGED vars
  BY <1>3 DEF vars, viaVars, irqs, cpuVars, WaitInv, Irq
<1>. QED BY <1>1, <1>2, <1>3, <1>4 DEF LoopNext

\* A CPU that is frozen is at its WAI, unless that WAI found an interrupt pending.
THEOREM Frozen == LoopSpec => []FrozenAtWai
<1>1. Init => LineInv /\ WaitInv
  BY DEF Init, ViaInit, LineInv, WaitInv
<1>2. WaitInv => FrozenAtWai
  BY DEF WaitInv, FrozenAtWai
<1>. QED BY <1>1, <1>2, LineInvStep, WaitInvStep, PTL DEF LoopSpec

-----------------------------------------------------------------------------
(* The vertical blanking *)

LEMMA CyclesAreNat == /\ FrameCycles \in Nat /\ VsyncCycle \in Nat \ {0} /\ VsyncCycle <= FrameCycles
                      /\ StepCycles \subseteq Nat
<1>1. StepCycles \subseteq Int /\ \A c \in StepCycles : c > 0
  BY ViaAssumption
<1>. QED BY <1>1, FrameLoopAssumption

LEMMA FlagTypesStep == FlagTypes /\ FileInv /\ [LoopNext]_vars => FlagTypes'
<1>. SUFFICES ASSUME FlagTypes, FileInv, [LoopNext]_vars PROVE FlagTypes'
  OBVIOUS
<1>. USE DEF FlagTypes
<1>1. CASE Reset \/ UNCHANGED vars
  BY <1>1 DEF Reset, KeyPressed, vars, viaVars, modes
<1>7. CASE Save
  BY <1>7 DEF Save, KeyPressed, viaVars, modes
<1>8. CASE Load
  <2>1. UNCHANGED <<vsync, exempt>>
    BY <1>8 DEF Load, KeyPressed
  <2>2. \E s \in file : cb1Pin' = s.cb1Pin /\ cb1Rising' = s.cb1Rising
    BY <1>8 DEF Load
  <2>. QED BY <2>1, <2>2 DEF FileInv
<1>2. CASE StoppedStep \/ WaitingStep \/ Service \/ Compute \/ AccessOther \/ Wai \/ Stp
  BY <1>2 DEF StoppedStep, WaitingStep, Service, Compute, AccessOther, Wai, Stp, Steps, viaVars, modes
<1>3. CASE AccessVia
  BY <1>3 DEF AccessVia, Steps, PortB, ReadCounter, WriteT1CH, WriteACR, WriteIFR, WriteIER, modes
<1>4. CASE AccessPcr
  BY <1>4, ViaAssumption DEF AccessPcr, Steps, WritePCR
<1>5. CASE UpdateVia \/ TickOthers \/ FullFrame \/ NextFrame
  BY <1>5 DEF UpdateVia, Update, TickOthers, FullFrame, NextFrame, viaVars, modes
<1>6. CASE TriggerVsync \/ EndFrame
  BY <1>6 DEF TriggerVsync, EndFrame, Blanking, NoBlanking, SetCb1, viaVars, modes
<1>. QED BY <1>1, <1>2, <1>3, <1>4, <1>5, <1>6, <1>7, <1>8 DEF LoopNext, Loop, CpuStep

\* CPU steps do not touch CB1, and a write of the PCR exempts the frame.
LEMMA CpuStepFrame == FlagTypes /\ FrameInv /\ CpuStep => FrameInv'
<1>. SUFFICES ASSUME FlagTypes, FrameInv, CpuStep PROVE FrameInv'
  OBVIOUS
<1>. USE CyclesAreNat, FrameLoopAssumption DEF FlagTypes, FrameInv, OneVsyncPerFrame, Phases
<1>1. CASE StoppedStep
  BY <1>1 DEF StoppedStep, viaVars, modes
<1>2. ASSUME NEW c \in StepCycles, Steps(c), cb1Pin' = cb1Pin,
             exempt' \/ (UNCHANGED <<cb1Rising, exempt>>)
      PROVE FrameInv'
  <2>1. frame + c \in Nat /\ phase = "cpu"
    BY <1>2 DEF Steps
  <2>. QED BY <1>2, <2>1 DEF Steps
<1>3. CASE WaitingStep \/ Service \/ Compute \/ AccessOther \/ Wai \/ Stp
  BY <1>2, <1>3 DEF WaitingStep, Service, Compute, AccessOther, Wai, Stp, viaVars, modes
<1>4. CASE AccessVia
  <2>1. UNCHANGED <<cb1Pin, cb1Rising, exempt>>
    BY <1>4 DEF AccessVia, PortB, ReadCounter, WriteT1CH, WriteACR, WriteIFR, WriteIER, modes
  <2>. QED BY <1>2, <1>4, <2>1 DEF AccessVia
<1>5. CASE AccessPcr
  BY <1>2, <1>5 DEF AccessPcr, WritePCR
<1>. QED BY <1>1, <1>3, <1>4, <1>5 DEF CpuStep

\* The rest of the loop: CB1 goes down once and up once.
LEMMA LoopFrame == FlagTypes /\ FrameInv /\ Loop => FrameInv'
<1>. SUFFICES ASSUME FlagTypes, FrameInv, Loop PROVE FrameInv'
  OBVIOUS
<1>. USE CyclesAreNat DEF FlagTypes, FrameInv, OneVsyncPerFrame, Phases
<1>1. CASE UpdateVia \/ TickOthers
  <2>1. /\ UNCHANGED <<frame, vsync, cb1Pin, cb1Rising, edges, exempt>>
        /\ phase \in {"update", "tick"} /\ phase' \in {"tick", "vsync"}
    BY <1>1 DEF UpdateVia, Update, TickOthers, viaVars, modes
  <2>. QED BY <2>1
<1>2. CASE TriggerVsync
  <2>1. CASE ~vsync /\ frame >= VsyncCycle /\ vsync' = TRUE /\ Blanking(FALSE)
    <3>1. /\ cb1Pin' = FALSE /\ UNCHANGED <<frame, cb1Rising, exempt>>
          /\ phase = "vsync" /\ phase' = "cpu" /\ cb1Pin /\ edges = 0
      BY <1>2, <2>1 DEF TriggerVsync, Blanking, SetCb1, modes
    <3>2. edges' = IF cb1Rising THEN 0 ELSE 1
      <4>1. edges' = 0 + IF FALSE # cb1Pin /\ FALSE = cb1Rising THEN 1 ELSE 0
        BY <2>1, <3>1 DEF Blanking
      <4>. QED BY <3>1, <4>1
    <3>. QED BY <2>1, <3>1, <3>2
  <2>2. CASE (vsync \/ frame < VsyncCycle) /\ UNCHANGED vsync /\ NoBlanking
    <3>1. /\ UNCHANGED <<frame, vsync, cb1Pin, cb1Rising, edges, exempt>>
          /\ phase = "vsync" /\ phase' = "cpu"
      BY <1>2, <2>2 DEF TriggerVsync, NoBlanking, viaVars, modes
    <3>. QED BY <2>2, <3>1
  <2>. QED BY <1>2, <2>1, <2>2 DEF TriggerVsync
<1>3. CASE FullFrame
  <2>1. /\ UNCHANGED <<frame, vsync, cb1Pin, cb1Rising, edges, exempt>>
        /\ phase = "cpu" /\ phase' = "end" /\ frame >= FrameCycles
    BY <1>3 DEF FullFrame, viaVars, modes
  <2>. QED BY <2>1
<1>4. CASE EndFrame
  <2>1. phase = "end" /\ phase' = "events" /\ frame' = frame /\ UNCHANGED <<vsync, exempt>>
    BY <1>4 DEF EndFrame, Blanking, NoBlanking
  <2>2. cb1Pin'
    <3>1. CASE vsync
      BY <1>4, <3>1 DEF EndFrame, Blanking, SetCb1
    <3>2. CASE ~vsync
      BY <1>4, <2>1, <3>2 DEF EndFrame, NoBlanking, viaVars
    <3>. QED BY <3>1, <3>2
  <2>3. ~exempt => edges' = 1
    <3>. SUFFICES ASSUME ~exempt PROVE edges' = 1
      OBVIOUS
    <3>1. vsync /\ ~cb1Pin /\ edges = (IF cb1Rising THEN 0 ELSE 1)
      BY <2>1
    <3>2. edges' = edges + IF TRUE # cb1Pin /\ TRUE = cb1Rising THEN 1 ELSE 0
      BY <1>4, <3>1 DEF EndFrame, Blanking
    <3>3. TRUE # cb1Pin
      BY <3>1
    <3>4. CASE cb1Rising
      <4>1. edges = 0 /\ TRUE = cb1Rising
        BY <3>1, <3>4
      <4>. QED BY <3>2, <3>3, <4>1
    <3>5. CASE ~cb1Rising
      <4>1. edges = 1 /\ TRUE # cb1Rising
        BY <3>1, <3>5
      <4>2. (TRUE # cb1Pin /\ TRUE = cb1Rising) = FALSE
        BY <4>1
      <4>3. edges' = edges + 0
        BY <3>2, <4>2
      <4>. QED BY <4>1, <4>3
    <3>. QED BY <3>4, <3>5
  <2>. QED BY <2>1, <2>2, <2>3
<1>5. CASE NextFrame
  <2>1. /\ frame' = 0 /\ vsync' = FALSE /\ edges' = 0 /\ cb1Pin' = cb1Pin
        /\ phase = "events" /\ phase' = "cpu"
    BY <1>5 DEF NextFrame, viaVars
  <2>. QED BY <2>1
<1>. QED BY <1>1, <1>2, <1>3, <1>4, <1>5, CpuStepFrame DEF Loop

LEMMA FrameInvStep == FlagTypes /\ FrameInv /\ FileInv /\ [LoopNext]_vars => FrameInv'
<1>. SUFFICES ASSUME FlagTypes, FrameInv, FileInv, [LoopNext]_vars PROVE FrameInv'
  OBVIOUS
<1>1. CASE Reset \/ UNCHANGED vars
  <2>1. UNCHANGED <<phase, frame, vsync, cb1Pin, cb1Rising, edges, exempt>>
    BY <1>1 DEF Reset, KeyPressed, vars, viaVars, modes
  <2>. QED BY <2>1 DEF FrameInv, OneVsyncPerFrame
<1>2. CASE Save \/ Load
  <2>1. phase = "events" /\ UNCHANGED <<phase, frame, vsync, edges, exempt>>
    BY <1>2 DEF Save, Load, KeyPressed
  <2>2. cb1Pin'
    <3>1. CASE Save
      BY <2>1, <3>1 DEF Save, viaVars, FrameInv
    <3>2. CASE Load
      <4>1. \E s \in file : cb1Pin' = s.cb1Pin
        BY <3>2 DEF Load
      <4>. QED BY <4>1 DEF FileInv
    <3>. QED BY <1>2, <3>1, <3>2
  <2>. QED BY <2>1, <2>2 DEF FrameInv, OneVsyncPerFrame
<1>. QED BY <1>1, <1>2, LoopFrame DEF LoopNext

LEMMA FileInvStep == FlagTypes /\ FrameInv /\ FileInv /\ [LoopNext]_vars => FileInv'
<1>. SUFFICES ASSUME FlagTypes, FrameInv, FileInv, [LoopNext]_vars PROVE FileInv'
  OBVIOUS
<1>1. CASE Save
  <2>1. phase = "events" /\ file' = {Snapshot}
    BY <1>1 DEF Save, KeyPressed
  <2>2. Snapshot.cb1Pin = cb1Pin /\ Snapshot.cb1Rising = cb1Rising
    BY DEF Snapshot
  <2>3. cb1Pin = TRUE /\ cb1Rising \in BOOLEAN
    BY <2>1 DEF FrameInv, FlagTypes
  <2>. QED BY <2>1, <2>2, <2>3 DEF FileInv
<1>2. CASE ~Save
  <2>1. file' = file
    BY <1>2 DEF LoopNext, Loop, Load, Reset, vars
  <2>. QED BY <2>1 DEF FileInv
<1>. QED BY <1>1, <1>2

\* One edge of the blanking a frame raises the CB1 flag, on whichever edge the
\* program asked for and wherever its instructions end.
THEOREM Vsync == LoopSpec => []OneVsyncPerFrame
<1>1. Init => FlagTypes
  BY DEF Init, ViaInit, FlagTypes
<1>2. Init => FrameInv
  BY CyclesAreNat DEF Init, ViaInit, FrameInv, OneVsyncPerFrame, Phases
<1>3. FrameInv => OneVsyncPerFrame
  BY DEF FrameInv
<1>4. Init => FileInv
  BY DEF Init, FileInv
<1>. QED BY <1>1, <1>2, <1>3, <1>4, FlagTypesStep, FrameInvStep, FileInvStep, PTL DEF LoopSpec
=============================================================================
