----------------------------- MODULE FrameLoop ------------------------------
(***************************************************************************)
(* The emulation loop of src/main.c over the 65C816 of src/cpu/cpu65c816.c: *)
(* a CPU step, then the devices for as many cycles, then the vertical        *)
(* blanking on CB1, until the frame's cycles are used up; then the user's    *)
(* keys: F2 saves the state, F4 loads the saved one, F5 resets.  The program *)
(* is arbitrary: an instruction may touch the VIA, change the I flag, wait   *)
(* (WAI) or stop (STP); those two act in native mode only, and who executes  *)
(* them elsewhere executes a NOP.  Of the VIA's registers the program uses   *)
(* the ones of timer 1, CB1 and the interrupts; Via6522 has the others.  The *)
(* disk and the serial interface are one more interrupt source.             *)
(***************************************************************************)
EXTENDS Via6522

CONSTANTS
  FrameCycles,    \* CYCLES_PER_FRAME, 19968
  VsyncCycle,     \* VSYNC_CYCLE, 16384
  ServiceCycles,  \* cycles of an interrupt's entry, 7
  WaitCycles,     \* cycles that pass in a step of a waiting CPU, 2
  SavePoints      \* bound of the model: the states of the VIA the user saves

ASSUME FrameLoopAssumption ==
  /\ {FrameCycles, VsyncCycle} \subseteq Nat \ {0} /\ VsyncCycle <= FrameCycles
  /\ {ServiceCycles, WaitCycles} \subseteq StepCycles

VARIABLES
  phase,      \* where the loop is
  frame,      \* frame_cycles
  step,       \* cycles of the last CPU step
  vsync,      \* vsync_triggered
  iFlag,      \* FLAG_INTERRUPT of cpu->P
  waiting,    \* cpu->waiting
  stopped,    \* cpu->stopped
  otherBit,   \* IRQF_DISK or IRQF_SERIAL is set in cpu->irq
  atWai,      \* ghost: the last instruction executed was WAI
  ran,        \* ghost: the waiting flag was set by a WAI that did not wait
  edges,      \* ghost: CB1 flags raised by the blanking of this frame
  exempt,     \* ghost: PCR was written, or the CPU found stopped, in this frame
  file,       \* the VIA section of the saved state: one Snapshot, or none
  loaded      \* ghost: F4 was pressed during the present wait

cpuVars == <<iFlag, waiting, stopped, otherBit, atWai>>
vars == <<viaVars, cpuVars, phase, frame, step, vsync, edges, exempt, ran, file, loaded>>

Init ==
  /\ ViaInit
  /\ phase = "cpu" /\ frame = 0 /\ step = 0 /\ vsync = FALSE
  /\ iFlag = TRUE /\ waiting = FALSE /\ stopped = FALSE /\ otherBit = FALSE
  /\ atWai = FALSE /\ ran = FALSE /\ edges = 0 /\ exempt = FALSE
  /\ file = {} /\ loaded = FALSE

-----------------------------------------------------------------------------
\* cpu->irq # 0, and what cpu816_irq_set does besides setting a bit: it wakes
\* the CPU, whichever source calls it.
Irq == cpuBit \/ otherBit
WakesNever == waiting' = waiting  \* faulty: an interrupt does not end WAI
Wakes == waiting' = (waiting /\ ~(irqLine' /\ ~irqLine))

\* The other devices, at a register access or in their ticks: one of them calls
\* cpu816_irq_set, or none does and the bit stays or is cleared.
OtherMoves ==
  \/ otherBit' = TRUE /\ waiting' = FALSE
  \/ otherBit' \in {otherBit, FALSE} /\ UNCHANGED waiting

-----------------------------------------------------------------------------
(* cpu816_step *)

Steps(c) ==
  /\ phase = "cpu" /\ frame < FrameCycles
  /\ phase' = "update" /\ step' = c /\ frame' = frame + c
  /\ UNCHANGED <<vsync, edges>>

\* A stopped CPU returns no cycles: the loop gives up the rest of the frame.
StoppedStep ==
  /\ phase = "cpu" /\ frame < FrameCycles /\ stopped
  /\ phase' = "end" /\ frame' = FrameCycles /\ exempt' = TRUE
  /\ UNCHANGED <<viaVars, cpuVars, step, vsync, edges>>

\* A waiting one lets time pass.
WaitingStep ==
  /\ ~stopped /\ waiting /\ ~Irq
  /\ Steps(WaitCycles)
  /\ UNCHANGED <<viaVars, cpuVars, exempt>>

Service ==
  /\ ~stopped /\ Irq /\ ~iFlag
  /\ Steps(ServiceCycles)
  /\ iFlag' = TRUE /\ waiting' = FALSE /\ atWai' = FALSE
  /\ UNCHANGED <<viaVars, stopped, otherBit, exempt>>

\* An instruction is fetched and executed, also by a CPU whose waiting flag is
\* set, when an interrupt it masks is pending.
FetchesAsleep == ~stopped /\ (Irq => iFlag)  \* faulty: the waiting flag is not looked at
Fetches == ~stopped /\ (waiting => Irq) /\ (Irq => iFlag)

\* CLI, SEI, PLP, RTI, and any instruction that touches nothing here.
Compute ==
  /\ Fetches /\ \E c \in StepCycles : Steps(c)
  /\ iFlag' \in BOOLEAN /\ atWai' = FALSE
  /\ UNCHANGED <<viaVars, waiting, stopped, otherBit, exempt>>

AccessVia ==
  /\ Fetches /\ \E c \in StepCycles : Steps(c)
  /\ \/ PortB \/ ReadCounter("T1")
     \/ \E b \in Byte : WriteT1CH(b)
     \/ \E free \in BOOLEAN : WriteACR(free, FALSE)
     \/ \E m \in Masks : WriteIFR(m) \/ \E on \in BOOLEAN : WriteIER(m, on)
  /\ Wakes /\ atWai' = FALSE
  /\ UNCHANGED <<iFlag, stopped, otherBit, exempt>>

AccessPcr ==
  /\ Fetches /\ \E c \in StepCycles : Steps(c)
  /\ \E m \in PCRs : WritePCR(m)
  /\ exempt' = TRUE /\ atWai' = FALSE
  /\ UNCHANGED <<iFlag, waiting, stopped, otherBit>>

AccessOther ==
  /\ Fetches /\ \E c \in StepCycles : Steps(c)
  /\ OtherMoves /\ atWai' = FALSE
  /\ UNCHANGED <<viaVars, iFlag, stopped, exempt>>

Wai ==
  /\ Fetches /\ \E c \in StepCycles : Steps(c)
  /\ waiting' = TRUE /\ atWai' = TRUE
  /\ UNCHANGED <<viaVars, iFlag, stopped, otherBit, exempt>>

Stp ==
  /\ Fetches /\ \E c \in StepCycles : Steps(c)
  /\ stopped' = TRUE /\ atWai' = FALSE
  /\ UNCHANGED <<viaVars, iFlag, waiting, otherBit, exempt>>

CpuStep ==
  \/ StoppedStep \/ WaitingStep \/ Service
  \/ Compute \/ AccessVia \/ AccessPcr \/ AccessOther \/ Wai \/ Stp

-----------------------------------------------------------------------------
(* The rest of the loop *)

UpdateVia ==
  /\ phase = "update" /\ phase' = "tick"
  /\ Update(step) /\ Wakes
  /\ UNCHANGED <<frame, step, vsync, iFlag, stopped, otherBit, atWai, edges, exempt>>

\* fdc_ticktock and acia_tick.
TickOthers ==
  /\ phase = "tick" /\ phase' = "vsync"
  /\ OtherMoves
  /\ UNCHANGED <<viaVars, frame, step, vsync, iFlag, stopped, atWai, edges, exempt>>

Blanking(level) ==
  /\ SetCb1(level) /\ Wakes
  /\ edges' = edges + IF level # cb1Pin /\ level = cb1Rising THEN 1 ELSE 0
  /\ UNCHANGED <<frame, step, iFlag, stopped, otherBit, atWai, exempt>>
NoBlanking == UNCHANGED <<viaVars, cpuVars, frame, step, edges, exempt>>

TriggerVsync ==
  /\ phase = "vsync" /\ phase' = "cpu"
  /\ \/ ~vsync /\ frame >= VsyncCycle /\ vsync' = TRUE /\ Blanking(FALSE)
     \/ (vsync \/ frame < VsyncCycle) /\ UNCHANGED vsync /\ NoBlanking

FullFrame ==
  /\ phase = "cpu" /\ frame >= FrameCycles /\ phase' = "end"
  /\ UNCHANGED <<viaVars, cpuVars, frame, step, vsync, edges, exempt>>

\* The blanking ends with the frame.
EndFrameLow ==  \* faulty: CB1 stays low
  /\ phase = "end" /\ phase' = "events"
  /\ UNCHANGED <<vsync, viaVars, cpuVars, frame, step, edges, exempt>>
EndFrame ==
  /\ phase = "end" /\ phase' = "events"
  /\ IF vsync THEN Blanking(TRUE) ELSE NoBlanking
  /\ UNCHANGED vsync

NextFrame ==
  /\ phase = "events" /\ phase' = "cpu"
  /\ frame' = 0 /\ vsync' = FALSE /\ edges' = 0 /\ exempt' = FALSE
  /\ UNCHANGED <<viaVars, cpuVars, step>>

Loop ==
  /\ CpuStep \/ UpdateVia \/ TickOthers \/ TriggerVsync \/ FullFrame \/ EndFrame \/ NextFrame
  /\ ran' = (waiting' /\ (ran \/ (Irq /\ atWai')))
  /\ loaded' = (loaded /\ waiting')
  /\ UNCHANGED file

-----------------------------------------------------------------------------
(* The user's keys, after a frame *)

KeyPressed == phase = "events" /\ UNCHANGED <<phase, frame, step, vsync, edges, exempt>>

Snapshot ==
  [t1 |-> t1, t2 |-> t2, t1Lo |-> t1Lo, t1Hi |-> t1Hi, t2Lo |-> t2Lo, t1On |-> t1On, t2On |-> t2On,
   t1Due |-> t1Due, t2Due |-> t2Due, freeRun |-> freeRun, countPulses |-> countPulses,
   cb1Rising |-> cb1Rising, ca2Indep |-> ca2Indep, cb2Indep |-> cb2Indep, cb1Pin |-> cb1Pin,
   ifr |-> ifr, ier |-> ier, irqLine |-> irqLine]

\* F2: the file is written over.
Save ==
  /\ KeyPressed /\ Snapshot \in SavePoints /\ file' = {Snapshot}
  /\ UNCHANGED <<viaVars, cpuVars, ran, loaded>>

\* F4: the VIA is the one that was saved, its line included; of the CPU that runs,
\* nothing is loaded, and nobody tells it of the line.
Load ==
  /\ KeyPressed
  /\ \E s \in file :
       /\ t1' = s.t1 /\ t2' = s.t2 /\ t1Lo' = s.t1Lo /\ t1Hi' = s.t1Hi /\ t2Lo' = s.t2Lo
       /\ t1On' = s.t1On /\ t2On' = s.t2On /\ t1Due' = s.t1Due /\ t2Due' = s.t2Due
       /\ freeRun' = s.freeRun /\ countPulses' = s.countPulses /\ cb1Rising' = s.cb1Rising
       /\ ca2Indep' = s.ca2Indep /\ cb2Indep' = s.cb2Indep /\ cb1Pin' = s.cb1Pin
       /\ ifr' = s.ifr /\ ier' = s.ier /\ irqLine' = s.irqLine
  /\ loaded' = waiting
  /\ UNCHANGED <<cpuBit, cpuVars, ran, file>>

\* F5: cpu816_reset, of the CPU alone.
Reset ==
  /\ KeyPressed
  /\ iFlag' = TRUE /\ waiting' = FALSE /\ stopped' = FALSE /\ atWai' = FALSE
  /\ cpuBit' = FALSE /\ otherBit' = FALSE /\ ran' = FALSE /\ loaded' = FALSE
  /\ UNCHANGED <<timers, modes, cb1Pin, ifr, ier, irqLine, file>>

LoopNext == Loop \/ Save \/ Load \/ Reset

\* The loop runs on as long as the program is open, whatever the user presses.
LoopSpec == Init /\ [][LoopNext]_vars /\ WF_vars(Loop)

-----------------------------------------------------------------------------
(* Properties *)

\* "VIA IRQ callback - level-triggered": the CPU's VIA bit follows the VIA's line.  A
\* step of the loop that moves either leaves them equal, so nothing a program does
\* with the VIA leaves the CPU with an interrupt that is gone or without one that
\* came.  Only the user's keys part them, until the line next moves: F5 clears the
\* bit under a line that is up, and F4 loads the line (savestate.c:502-505) and
\* leaves the bit.
OnlyKeysPart ==
  [][Load \/ Reset \/ cpuBit' = irqLine' \/ UNCHANGED <<cpuBit, irqLine>>]_vars

\* A CPU that is frozen has executed WAI last: it does not freeze in the middle
\* of a program, when an interrupt goes away that once ended a wait.  A WAI that
\* finds a masked interrupt pending is left out: it leaves the waiting flag set,
\* and the CPU does freeze later, wherever it is when that interrupt goes away.
FrozenAtWai == waiting /\ ~Irq /\ ~ran => atWai

\* The program sees the vertical blanking once a frame, on whichever edge it
\* asked for, however the instructions straddle the cycle of the blanking and
\* the end of the frame.
OneVsyncPerFrame == phase = "events" /\ ~exempt => edges = 1

\* A CPU that waits while timer 1 runs with its interrupt enabled is woken, as
\* long as the line is not one that a key parted from the CPU's bit, and no F4
\* takes the timer away during the wait.
TimerWakes ==
  (waiting /\ ~Irq /\ ~irqLine /\ ~stopped /\ t1On /\ "T1" \in ier /\ ~loaded)
    ~> (~waiting \/ loaded)

=============================================================================
