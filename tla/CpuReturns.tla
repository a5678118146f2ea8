----------------------------- MODULE CpuReturns -----------------------------
(* Programs on the 65C816 with what they may rely on: emulation mode acts as   *)
(* the 6502 core, the registers fit their mode, and calls and interrupts come  *)
(* back.  homes remembers where each call and each interrupt is to return.     *)
EXTENDS Cpu65816

VARIABLE homes

\* What a step that pushed a return address promises: the instruction that takes
\* it back, where to, the registers of then, and the cells that hold it.
Home(by, pc, bytes) ==
  [by |-> by, pc |-> pc, before |-> cpu, top |-> cpu'.S,
   cells |-> [a \in {Below(k) : k \in 0 .. bytes - 1} |-> mem'[a]]]
InterruptHome(pc) == Home(\h40, pc, IF cpu.E THEN 3 ELSE 4)

ReturnsInit == Init /\ homes = {}
ReturnsNext ==
  \/ Wait /\ UNCHANGED homes
  \/ (Nmi \/ Irq) /\ homes' = homes \union {InterruptHome(cpu.PC)}
  \/ /\ Run
     /\ homes' = homes \union (CASE op \in {0, 2} -> {InterruptHome(After(1))}
                                 [] op = \h20 -> {Home(\h60, After(2), 2)}
                                 [] op = \h22 /\ Native -> {Home(\h6B, After(3), 3)}
                                 [] OTHER -> {})
ReturnsSpec == ReturnsInit /\ [][ReturnsNext]_<<vars, homes>>

\* The 6502 core under the same program: the low bytes of the registers.
Legacy == INSTANCE Cpu6502 WITH
  Instructions <- UNION {p.code : p \in Programs}, Lines <- {"none", "irq", "nmi"}, Starts <- {},
  regs <- [A |-> Low(cpu.C), X |-> Low(cpu.X), Y |-> Low(cpu.Y), SP |-> Low(cpu.S), PC |-> cpu.PC, P |-> cpu.P]

\* In decimal mode the two cores give N and V other values.
DecimalSum == "D" \in cpu.P /\ (op = \hEB \/ \E base \in {96, 224} : op - base \in NearOffsets)
\* The opcodes that do more in emulation mode than the 6502 core's table says.
NewInstruction == op \notin Opcodes6502 \union {\h04, \h0C}

\* In emulation mode every instruction of the 6502 and every interrupt leaves the
\* registers, the memory and the cycle count the 6502 core leaves.
ActsAs6502 == [][cpu.E => Wait \/ (Fetching /\ (DecimalSum \/ NewInstruction)) \/ Legacy!Next]_vars

\* Decimal addition and subtraction of two packed numbers give the packed result
\* and its carry, for every operand, from the accumulator of the moment.
Packed(n) == 16 * (n \div 10) + (n % 10)
Unpacked(v) == 10 * (v \div 16) + (v % 16)
DecimalRight ==
  (op = \h69 /\ line = "none" /\ Unpacked(Low(cpu.C)) < 100 /\ cpu.C % 16 < 10) =>
    LET a == Unpacked(Low(cpu.C)) IN
    \A b \in 0 .. 99, c \in {0, 1} :
      LET P == Put(cpu.P, "C", c = 1)
          sum == DecimalAdd(Low(cpu.C), Packed(b), P)
          diff == DecimalSub(Low(cpu.C), Packed(b), P)
      IN /\ sum.v = Packed((a + b + c) % 100) /\ ("C" \in sum.P) = (a + b + c > 99)
         /\ diff.v = Packed((100 + a - b - (1 - c)) % 100) /\ ("C" \in diff.P) = (a - b - (1 - c) >= 0)

\* Narrow indexes have no high byte, and the emulation stack stays in page 1,
\* however the program changes modes.  A block move with narrow indexes breaks it.
RegistersFitMode ==
  /\ WidthX = 8 => cpu.X < 256 /\ cpu.Y < 256
  /\ cpu.E => cpu.S \div 256 = 1
NarrowMove == op \in {\h44, \h54} /\ WidthX = 8
ModesKept == [][RegistersFitMode => RegistersFitMode' \/ NarrowMove]_<<vars, homes>>

\* A return instruction that finds the cells and the mode of a call or an interrupt
\* goes back to it with its stack, from a long call or an interrupt to its bank
\* (emulation mode does not push the bank), and after an interrupt with its flags
\* (in emulation mode bits 4 and 5 mean nothing).
Takes(h) == op = h.by /\ cpu.S = h.top /\ cpu.E = h.before.E /\ \A a \in DOMAIN h.cells : Rd(a) = h.cells[a]
ComesBack(h) ==
  /\ cpu'.PC = h.pc /\ cpu'.S = h.before.S
  /\ h.by # \h60 /\ Native => cpu'.PBR = h.before.PBR
  /\ h.by = \h40 => LET unused == IF cpu.E THEN {"M", "X"} ELSE {}
                     IN cpu'.P \ unused = h.before.P \ unused
ReturnsHome == [][Run => \A h \in homes : Takes(h) => ComesBack(h)]_<<vars, homes>>
=============================================================================
