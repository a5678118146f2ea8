------------------------------ MODULE Via6522 -------------------------------
(***************************************************************************)
(* The 6522 VIA of src/io/via6522.c: its two timers, its interrupt flags and *)
(* the /IRQ line, which is reported to the CPU only when it changes.  Every  *)
(* register access that changes interrupt state is one action; Update is the *)
(* via_update call the frame loop makes after each CPU instruction.          *)
(*                                                                          *)
(* The port registers, the shift register's value and the DDRs change no    *)
(* interrupt state: only the handshake effect of a port access is kept.     *)
(***************************************************************************)
EXTENDS Integers

CONSTANTS
  Base,       \* values of a byte, 256: a counter holds Base * Base values
  Masks,      \* the sets of flags the program writes to IFR and IER
  PCRs,       \* the modes, decoded, the program writes to PCR
  Pins,       \* the pins a device may pulse, besides CB1
  StepCycles  \* cycles an instruction may take

Flags == {"CA1", "CA2", "CB1", "CB2", "SR", "T1", "T2"}
Byte == 0..Base - 1
Word == 0..Base * Base - 1

ASSUME ViaAssumption ==
  /\ Base \in Nat \ {0, 1}
  /\ Masks \subseteq SUBSET Flags
  /\ PCRs \subseteq [rising : BOOLEAN, ca2 : BOOLEAN, cb2 : BOOLEAN]
  /\ Pins \subseteq {"CA1", "CA2", "CB2"}
  /\ StepCycles \subseteq 1..Base * Base - 1

VARIABLES
  t1, t2,          \* t1_counter, t2_counter
  t1Lo, t1Hi,      \* the bytes of t1_latch
  t2Lo,            \* t2_latch
  t1On, t2On,      \* t1_running, t2_running
  freeRun,         \* ACR bit 6: timer 1 reloads itself
  countPulses,     \* ACR bit 5: timer 2 does not count cycles
  cb1Rising,       \* PCR bit 4
  ca2Indep, cb2Indep,  \* PCR: CA2, CB2 are independent inputs
  cb1Pin,          \* cb1_pin
  ifr, ier,        \* the sets of flags raised and enabled
  irqLine,         \* irq_line
  cpuBit,          \* IRQF_VIA is set in the CPU's irq
  t1Due, t2Due     \* ghosts: cycles until the timer's underflow

timers  == <<t1, t2, t1Lo, t1Hi, t2Lo, t1On, t2On, t1Due, t2Due>>
modes   == <<freeRun, countPulses, cb1Rising, ca2Indep, cb2Indep>>
irqs    == <<ifr, ier, irqLine, cpuBit>>
viaVars == <<timers, modes, cb1Pin, irqs>>

ViaInit ==
  /\ t1 = Base * Base - 1 /\ t1Lo = Base - 1 /\ t1Hi = Base - 1 /\ t1On = FALSE
  /\ t2 = Base * Base - 1 /\ t2Lo = Base - 1 /\ t2On = FALSE
  /\ freeRun = FALSE /\ countPulses = FALSE
  /\ cb1Rising = FALSE /\ ca2Indep = FALSE /\ cb2Indep = FALSE
  /\ cb1Pin = TRUE /\ ifr = {} /\ ier = {} /\ irqLine = FALSE /\ cpuBit = FALSE
  /\ t1Due = 0 /\ t2Due = 0

-----------------------------------------------------------------------------
\* via_check_irq once the flags are f and the enables e: the CPU hears of a
\* change of the line, and of nothing else.
CheckIrqEdge(f, e) ==  \* faulty: the CPU hears only of the line going up
  /\ ifr' = f /\ ier' = e
  /\ irqLine' = (f \cap e # {})
  /\ cpuBit' = (cpuBit \/ irqLine')
CheckIrq(f, e) ==
  /\ ifr' = f /\ ier' = e
  /\ irqLine' = (f \cap e # {})
  /\ cpuBit' = IF irqLine' # irqLine THEN irqLine' ELSE cpuBit

Clear(f) == CheckIrq(ifr \ f, ier)
Raise(f) == CheckIrq(ifr \cup f, ier)

\* A read or a write of port B, and of port A.
PortB ==
  /\ Clear({"CB1"} \cup IF cb2Indep THEN {} ELSE {"CB2"})
  /\ UNCHANGED <<timers, modes, cb1Pin>>

PortA ==
  /\ Clear({"CA1"} \cup IF ca2Indep THEN {} ELSE {"CA2"})
  /\ UNCHANGED <<timers, modes, cb1Pin>>

\* Reads of the counters' low bytes, reads and writes of the shift register.
ReadCounter(timer) ==
  Clear({timer}) /\ UNCHANGED <<timers, modes, cb1Pin>>
ShiftRegister ==
  Clear({"SR"}) /\ UNCHANGED <<timers, modes, cb1Pin>>

\* The latches: T1CL and T1LL, T1LH, T2CL.
WriteT1LL(b) ==
  /\ t1Lo' = b
  /\ UNCHANGED <<t1, t2, t1Hi, t2Lo, t1On, t2On, t1Due, t2Due, modes, cb1Pin, irqs>>

WriteT1LH(b) ==
  /\ t1Hi' = b /\ Clear({"T1"})
  /\ UNCHANGED <<t1, t2, t1Lo, t2Lo, t1On, t2On, t1Due, t2Due, modes, cb1Pin>>

WriteT2CL(b) ==
  /\ t2Lo' = b
  /\ UNCHANGED <<t1, t2, t1Lo, t1Hi, t1On, t2On, t1Due, t2Due, modes, cb1Pin, irqs>>

\* Writing the high byte of a counter starts its timer.
WriteT1CH(b) ==
  /\ t1Hi' = b /\ t1' = b * Base + t1Lo /\ t1On' = TRUE /\ Clear({"T1"})
  /\ t1Due' = t1'
  /\ UNCHANGED <<t2, t1Lo, t2Lo, t2On, t2Due, modes, cb1Pin>>

WriteT2CH(b) ==
  /\ t2' = b * Base + t2Lo /\ t2On' = TRUE /\ Clear({"T2"})
  /\ t2Due' = t2'
  /\ UNCHANGED <<t1, t1Lo, t1Hi, t2Lo, t1On, t1Due, modes, cb1Pin>>

WriteACR(free, pulses) ==
  /\ freeRun' = free /\ countPulses' = pulses
  /\ UNCHANGED <<timers, cb1Rising, ca2Indep, cb2Indep, cb1Pin, irqs>>

WritePCR(m) ==
  /\ cb1Rising' = m.rising /\ ca2Indep' = m.ca2 /\ cb2Indep' = m.cb2
  /\ UNCHANGED <<timers, freeRun, countPulses, cb1Pin, irqs>>

WriteIFR(m) == Clear(m) /\ UNCHANGED <<timers, modes, cb1Pin>>

\* Bit 7 of the byte written says whether the others enable or disable.
WriteIERUnchecked(m, on) ==  \* faulty: the line is not looked at again
  /\ ier' = IF on THEN ier \cup m ELSE ier \ m
  /\ UNCHANGED <<ifr, irqLine, cpuBit, timers, modes, cb1Pin>>
WriteIER(m, on) ==
  /\ CheckIrq(ifr, IF on THEN ier \cup m ELSE ier \ m)
  /\ UNCHANGED <<timers, modes, cb1Pin>>

RegisterAccess ==
  \/ PortB \/ PortA \/ ShiftRegister
  \/ \E timer \in {"T1", "T2"} : ReadCounter(timer)
  \/ \E b \in Byte : WriteT1LL(b) \/ WriteT1LH(b) \/ WriteT2CL(b) \/ WriteT1CH(b) \/ WriteT2CH(b)
  \/ \E free, pulses \in BOOLEAN : WriteACR(free, pulses)
  \/ \E m \in PCRs : WritePCR(m)
  \/ \E m \in Masks : WriteIFR(m) \/ \E on \in BOOLEAN : WriteIER(m, on)

-----------------------------------------------------------------------------
\* The ghost's cycles left, none once the underflow is due.
Left(due, c) == IF c < due THEN due - c ELSE 0

\* A 16-bit counter c cycles later.
Down(counter, c) == IF c <= counter THEN counter - c ELSE counter - c + Base * Base

\* It has underflowed if it wrapped around, or stands on one of its last values.
UnderflowsExactly(counter, c) ==  \* faulty: a counter that jumps past zero is missed
  Down(counter, c) \in {0, Base * Base - 1}
Underflows(counter, c) ==
  Down(counter, c) > counter \/ Down(counter, c) \in {0, Base * Base - 1}

\* via_update: timer 1, then timer 2; the line is looked at after each, and
\* raising a flag never lowers it, so one look does.
CountT1(c) ==
  LET fires == Underflows(t1, c)
  IN  /\ t1' = IF fires /\ freeRun THEN t1Hi * Base + t1Lo ELSE Down(t1, c)
      /\ t1On' = (fires => freeRun)
      /\ t1Due' = IF fires /\ freeRun THEN t1' ELSE Left(t1Due, c)

CountT2(c) ==
  /\ t2' = Down(t2, c)
  /\ t2On' = ~Underflows(t2, c)
  /\ t2Due' = Left(t2Due, c)

Counts2 == t2On /\ ~countPulses

Update(c) ==
  /\ IF t1On THEN CountT1(c) ELSE UNCHANGED <<t1, t1On, t1Due>>
  /\ IF Counts2 THEN CountT2(c) ELSE UNCHANGED <<t2, t2On, t2Due>>
  /\ Raise((IF t1On /\ Underflows(t1, c) THEN {"T1"} ELSE {})
            \cup IF Counts2 /\ Underflows(t2, c) THEN {"T2"} ELSE {})
  /\ UNCHANGED <<t1Lo, t1Hi, t2Lo, modes, cb1Pin>>

\* via_set_cb1: the flag goes up on the edge PCR selects.
SetCb1(level) ==
  /\ cb1Pin' = level
  /\ IF level # cb1Pin /\ level = cb1Rising THEN Raise({"CB1"}) ELSE UNCHANGED irqs
  /\ UNCHANGED <<timers, modes>>

\* via_trigger_ca1, via_trigger_ca2, via_trigger_cb2.
Trigger(pin) == Raise({pin}) /\ UNCHANGED <<timers, modes, cb1Pin>>

\* via_trigger_cb1: a pulse down and up, of which one edge counts.
TriggerCb1 ==
  /\ cb1Pin' = TRUE
  /\ IF cb1Rising \/ cb1Pin THEN Raise({"CB1"}) ELSE UNCHANGED irqs
  /\ UNCHANGED <<timers, modes>>

Next ==
  \/ RegisterAccess
  \/ \E c \in StepCycles : Update(c)
  \/ \E level \in BOOLEAN : SetCb1(level)
  \/ \E pin \in Pins : Trigger(pin)
  \/ TriggerCb1

Spec == ViaInit /\ [][Next]_viaVars

-----------------------------------------------------------------------------
(* Properties *)

\* The type of every variable.
TypeOK ==
  /\ {t1, t2} \subseteq Word /\ {t1Lo, t1Hi, t2Lo} \subseteq Byte
  /\ {t1On, t2On, freeRun, countPulses, cb1Rising, ca2Indep, cb2Indep, cb1Pin,
      irqLine, cpuBit} \subseteq BOOLEAN
  /\ ifr \subseteq Flags /\ ier \subseteq Flags
  /\ {t1Due, t2Due} \subseteq Word

\* The CPU's VIA bit is the OR of the enabled flags, although it is told only of
\* the line's changes and every handler has to look for them.  The user's F4 and
\* F5, which part the two, are FrameLoop's.
CpuSeesFlags == cpuBit <=> (ifr \cap ier # {})

\* A timer that runs stands where its last load and the cycles since put it, so
\* that no underflow was jumped over; one that stopped has reached its end.
NoMissedUnderflow ==
  /\ t1On => t1Due = t1
  /\ t2On => t2Due = t2
  /\ ~t1On => t1Due = 0
  /\ ~t2On => t2Due = 0

=============================================================================
