------------------------------- MODULE Cpu6502 -------------------------------
(* The 6502 core (opcodes.c, addressing.c, cpu6502.c), one action per family  *)
(* of instructions.  The program is whatever bytes the fetches return: ir is   *)
(* the next instruction with its operand bytes, line the interrupt waiting.    *)
EXTENDS Bytes, Integers

CONSTANTS
  Instructions,   \* <<opcode, byte, byte, byte>>
  Lines,          \* {"none", "irq", "nmi"}: what the interrupt inputs do
  Starts,         \* the registers a program starts with
  Blank(_)        \* what memory holds at first

VARIABLES
  regs,    \* [A, X, Y, SP, PC, P]
  mem,     \* the addresses written so far, and their bytes
  ir, line,
  extra    \* the cycles the last instruction took over its base count

vars == <<regs, mem, ir, line, extra>>

Rd(a) == IF a \in DOMAIN mem THEN mem[a] ELSE Blank(a)
Word16(a, b) == Word(Rd(a), Rd(b))
op == ir[1]
Operand == Word(ir[2], ir[3])

\* What cpu_reset leaves.
Reset == [A |-> 0, X |-> 0, Y |-> 0, SP |-> 253, PC |-> Word(Blank(\hFFFC), Blank(\hFFFD)),
          P |-> {"M", "I"}]
Init ==
  /\ regs \in Starts
  /\ mem = <<>> /\ ir \in Instructions /\ line \in Lines /\ extra = 0

\* An address: where, the operand bytes it takes, and whether indexing left the page.
Plain(a, n) == [at |-> a, bytes |-> n, crossed |-> FALSE]
Indexed(base, index, n) ==
  LET a == (base + index) % 65536 IN [at |-> a, bytes |-> n, crossed |-> ~SamePage(base, a)]
Pointer(zp) == Word16(zp, (zp + 1) % 256)
Address(mode) ==
  CASE mode = "imm" -> Plain(-1, 1)
    [] mode = "zp"  -> Plain(ir[2], 1)
    [] mode = "zpx" -> Plain((ir[2] + regs.X) % 256, 1)
    [] mode = "zpy" -> Plain((ir[2] + regs.Y) % 256, 1)
    [] mode = "abs" -> Plain(Operand, 2)
    [] mode = "abx" -> Indexed(Operand, regs.X, 2)
    [] mode = "aby" -> Indexed(Operand, regs.Y, 2)
    [] mode = "izx" -> Plain(Pointer((ir[2] + regs.X) % 256), 1)
    [] mode = "izy" -> Indexed(Pointer(ir[2]), regs.Y, 1)
Fetched(e) == IF e.at = -1 THEN ir[2] ELSE Rd(e.at)

\* The modes of the accumulator instructions, by their offset from the first.
AluModes == [o \in {1, 5, 9, 13, 17, 21, 25, 29} |->
               CASE o = 1 -> "izx" [] o = 5 -> "zp" [] o = 9 -> "imm" [] o = 13 -> "abs"
                 [] o = 17 -> "izy" [] o = 21 -> "zpx" [] o = 25 -> "aby" [] o = 29 -> "abx"]
ShiftModes == [o \in {6, 14, 22, 30} |->
                 CASE o = 6 -> "zp" [] o = 14 -> "abs" [] o = 22 -> "zpx" [] o = 30 -> "abx"]

\* The end of an instruction, and what the program does next.
Done(r, pc, m, x) ==
  /\ regs' = [r EXCEPT !.PC = pc]
  /\ mem' = m /\ extra' = x
  /\ ir' \in Instructions /\ line' \in Lines
After(n) == (regs.PC + 1 + n) % 65536
Advance(r, n, x) == Done(r, After(n), mem, x)
Penalty(e) == IF e.crossed THEN 1 ELSE 0

Result(reg, v) == [regs EXCEPT ![reg] = v, !.P = PutNZ(@, v, 8)]

Load(reg, codes) ==
  \E c \in codes :
    /\ op = c[1]
    /\ LET e == Address(c[2]) IN Advance(Result(reg, Fetched(e)), e.bytes, Penalty(e))
LoadA == Load("A", {<<160 + k, AluModes[k]>> : k \in DOMAIN AluModes})
LoadX == Load("X", {<<\hA2, "imm">>, <<\hA6, "zp">>, <<\hB6, "zpy">>, <<\hAE, "abs">>, <<\hBE, "aby">>})
LoadY == Load("Y", {<<\hA0, "imm">>, <<\hA4, "zp">>, <<\hB4, "zpx">>, <<\hAC, "abs">>, <<\hBC, "abx">>})

Store(reg, codes) ==
  \E c \in codes :
    /\ op = c[1]
    /\ LET e == Address(c[2])
       IN Done(regs, After(e.bytes), Over(Cell(e.at, regs[reg]), mem), 0)
StoreA == Store("A", {<<128 + k, AluModes[k]>> : k \in DOMAIN AluModes \ {9}})
StoreX == Store("X", {<<\h86, "zp">>, <<\h96, "zpy">>, <<\h8E, "abs">>})
StoreY == Store("Y", {<<\h84, "zp">>, <<\h94, "zpx">>, <<\h8C, "abs">>})

\* Addition in binary and in packed decimal.
Adc(A, v, P) ==
  LET bin == A + v + Carry(P)
      low == (A % 16) + (v % 16) + Carry(P)
      sum == 16 * (A \div 16 + v \div 16)
             + (IF low > 9 THEN 16 + ((low + 6) % 16) ELSE low)
      decimal == IF sum > 159 THEN sum + 96 ELSE sum
      total == IF "D" \in P THEN decimal ELSE bin
      overflow == Top(A, 8) = Top(v, 8) /\ Top(A, 8) # Top(bin % 256, 8)
  IN [A |-> total % 256,
      P |-> Put(Put(Put(Put(P, "C", total > 255), "V", overflow),
                    "N", Top(total % 256, 8)), "Z", bin % 256 = 0)]
\* Subtraction: bin and the nibbles are biased so that they stay natural.
Sbc(A, v, P) ==
  LET bin == 256 + A - v - (1 - Carry(P))              \* below 256: a borrow
      low == 16 + (A % 16) - (v % 16) - (1 - Carry(P))     \* below 16: a borrow
      high == 256 + 16 * (A \div 16) - 16 * (v \div 16)
      sum == IF low < 16 THEN high - 16 + ((low + 10) % 16) ELSE high + (low % 16)
      decimal == IF sum < 256 THEN sum + 160 ELSE sum
      total == (IF "D" \in P THEN decimal ELSE bin) % 256
      overflow == Top(A, 8) # Top(v, 8) /\ Top(A, 8) # Top(bin % 256, 8)
  IN [A |-> total,
      P |-> Put(Put(Put(Put(P, "C", bin >= 256), "V", overflow), "N", Top(total, 8)),
                "Z", bin % 256 = 0)]

AddSub ==
  \E base \in {96, 224} :
    /\ op - base \in DOMAIN AluModes \/ (base = 224 /\ op = \hEB)
    /\ LET e == Address(IF op = \hEB THEN "imm" ELSE AluModes[op - base])
           r == IF base = 96 THEN Adc(regs.A, Fetched(e), regs.P) ELSE Sbc(regs.A, Fetched(e), regs.P)
       IN Advance([regs EXCEPT !.A = r.A, !.P = r.P], e.bytes, Penalty(e))

Logic ==
  \E base \in {0, 32, 64} :
    /\ op - base \in DOMAIN AluModes
    /\ LET e == Address(AluModes[op - base])
           v == Fetched(e)
           r == CASE base = 0 -> Or(regs.A, v) [] base = 32 -> And(regs.A, v) [] OTHER -> Xor(regs.A, v)
       IN Advance(Result("A", r), e.bytes, Penalty(e))

Compare(reg, codes) ==
  \E c \in codes :
    /\ op = c[1]
    /\ LET e == Address(c[2])
           v == Fetched(e)
       IN Advance([regs EXCEPT !.P = PutNZ(Put(@, "C", regs[reg] >= v), (256 + regs[reg] - v) % 256, 8)],
                  e.bytes, Penalty(e))
CompareA == Compare("A", {<<192 + k, AluModes[k]>> : k \in DOMAIN AluModes})
CompareX == Compare("X", {<<\hE0, "imm">>, <<\hE4, "zp">>, <<\hEC, "abs">>})
CompareY == Compare("Y", {<<\hC0, "imm">>, <<\hC4, "zp">>, <<\hCC, "abs">>})

BitTest ==
  /\ op \in {\h24, \h2C}
  /\ LET e == Address(IF op = \h24 THEN "zp" ELSE "abs")
         v == Fetched(e)
     IN Advance([regs EXCEPT !.P = Put(Put(Put(@, "Z", And(regs.A, v) = 0), "V", "V" \in FlagsOf(v)),
                                       "N", Top(v, 8))], e.bytes, 0)

\* The shifts and rotations: the byte and the flags that v becomes.
Shifted(kind, v, P) ==
  LET left == kind \in {0, 32}
      in == IF kind \in {32, 96} THEN Carry(P) ELSE 0
      r == IF left THEN (2 * v + in) % 256 ELSE v \div 2 + 128 * in
  IN [v |-> r, P |-> PutNZ(Put(P, "C", IF left THEN v >= 128 ELSE v % 2 = 1), r, 8)]

ShiftA ==
  \E kind \in {0, 32, 64, 96} :
    /\ op = kind + 10
    /\ LET s == Shifted(kind, regs.A, regs.P) IN Advance([regs EXCEPT !.A = s.v, !.P = s.P], 0, 0)

Modify(base, Change(_)) ==
  /\ op - base \in DOMAIN ShiftModes
  /\ LET e == Address(ShiftModes[op - base])
         s == Change(Rd(e.at))
     IN Done([regs EXCEPT !.P = s.P], After(e.bytes), Over(Cell(e.at, s.v), mem), 0)
ShiftMem == \E kind \in {0, 32, 64, 96} : Modify(kind, LAMBDA v : Shifted(kind, v, regs.P))
Counted(v) == [v |-> v, P |-> PutNZ(regs.P, v, 8)]
IncMem == Modify(224, LAMBDA v : Counted((v + 1) % 256))
DecMem == Modify(192, LAMBDA v : Counted((v + 255) % 256))

CountIndex ==
  \E i \in {<<\hE8, "X", 1>>, <<\hC8, "Y", 1>>, <<\hCA, "X", 255>>, <<\h88, "Y", 255>>} :
    op = i[1] /\ Advance(Result(i[2], (regs[i[2]] + i[3]) % 256), 0, 0)

Transfer ==
  \E t \in {<<\hAA, "X", "A">>, <<\h8A, "A", "X">>, <<\hA8, "Y", "A">>, <<\h98, "A", "Y">>, <<\hBA, "X", "SP">>} :
    op = t[1] /\ Advance(Result(t[2], regs[t[3]]), 0, 0)
TransferXS == op = \h9A /\ Advance([regs EXCEPT !.SP = regs.X], 0, 0)

\* The stack in page 1: k bytes further down, or up.
Below(k) == 256 + ((regs.SP + 256 - k) % 256)
Above(k) == 256 + ((regs.SP + k) % 256)
Dropped(k) == [regs EXCEPT !.SP = (@ + 256 - k) % 256]
Raised(k) == [regs EXCEPT !.SP = (@ + k) % 256]
Onto(bytes) == Over([a \in {Below(k - 1) : k \in DOMAIN bytes} |->
                       bytes[CHOOSE k \in DOMAIN bytes : a = Below(k - 1)]], mem)
PulledP(byte) == (FlagsOf(byte) \ {"X"}) \union {"M"}

Push ==
  /\ op \in {\h48, \h08}
  /\ Done(Dropped(1), After(0),
          Onto(<<IF op = \h48 THEN regs.A ELSE ByteOf(regs.P \union {"X", "M"})>>), 0)
PullA == op = \h68 /\ Advance([Raised(1) EXCEPT !.A = Rd(Above(1)), !.P = PutNZ(@, Rd(Above(1)), 8)], 0, 0)
PullP == op = \h28 /\ Advance([Raised(1) EXCEPT !.P = PulledP(Rd(Above(1)))], 0, 0)

\* do_branch: a branch taken costs a cycle, two when it leaves the page.
Taken(target) == Done(regs, target, mem, IF SamePage(After(1), target) THEN 1 ELSE 2)
Branch ==
  \E b \in {<<\h10, "N", FALSE>>, <<\h30, "N", TRUE>>, <<\h50, "V", FALSE>>, <<\h70, "V", TRUE>>,
            <<\h90, "C", FALSE>>, <<\hB0, "C", TRUE>>, <<\hD0, "Z", FALSE>>, <<\hF0, "Z", TRUE>>} :
    /\ op = b[1]
    /\ IF (b[2] \in regs.P) = b[3] THEN Taken(Displaced(After(1), ir[2])) ELSE Advance(regs, 1, 0)

\* The pointer of an indirect jump stays in its page.
Jump ==
  \/ op = \h4C /\ Done(regs, Operand, mem, 0)
  \/ /\ op = \h6C
     /\ Done(regs, Word16(Operand, 256 * (Operand \div 256) + ((Operand + 1) % 256)), mem, 0)

Call == op = \h20 /\ Done(Dropped(2), Operand, Onto(<<High(regs.PC + 2), Low(regs.PC + 2)>>), 0)
Return == op = \h60 /\ Done(Raised(2), (Word16(Above(1), Above(2)) + 1) % 65536, mem, 0)
ReturnInterrupt ==
  op = \h40 /\ Done([Raised(3) EXCEPT !.P = PulledP(Rd(Above(1)))], Word16(Above(2), Above(3)), mem, 0)

\* An interrupt or BRK, from the address to come back to, with the byte of P.
Service(pc, byte, vector) ==
  Done([Dropped(3) EXCEPT !.P = @ \union {"I"}], Word16(vector, vector + 1),
       Onto(<<High(pc), Low(pc), byte>>), 0)
Break == op = 0 /\ Service(After(1), ByteOf(regs.P \union {"X", "M"}), \hFFFE)
Masked == ByteOf((regs.P \ {"X"}) \union {"M"})
Nmi == line = "nmi" /\ Service(regs.PC, Masked, \hFFFA)
Irq == line = "irq" /\ "I" \notin regs.P /\ Service(regs.PC, Masked, \hFFFE)

SetFlag ==
  \E f \in {<<\h18, "C", FALSE>>, <<\h38, "C", TRUE>>, <<\h58, "I", FALSE>>, <<\h78, "I", TRUE>>,
            <<\hD8, "D", FALSE>>, <<\hF8, "D", TRUE>>, <<\hB8, "V", FALSE>>} :
    op = f[1] /\ Advance([regs EXCEPT !.P = Put(@, f[2], f[3])], 0, 0)
Nop == op = \hEA /\ Advance(regs, 0, 0)

\* An opcode the switch does not name skips its operand bytes.
Illegal == op \notin Opcodes6502 /\ Advance(regs, OpcodeSize(op) - 1, 0)

Execute ==
  \/ LoadA \/ LoadX \/ LoadY \/ StoreA \/ StoreX \/ StoreY
  \/ AddSub \/ Logic \/ CompareA \/ CompareX \/ CompareY \/ BitTest
  \/ ShiftA \/ ShiftMem \/ IncMem \/ DecMem \/ CountIndex \/ Transfer \/ TransferXS
  \/ Push \/ PullA \/ PullP \/ Branch \/ Jump \/ Call \/ Return \/ ReturnInterrupt
  \/ Break \/ SetFlag \/ Nop \/ Illegal

\* cpu_step: NMI first, then an enabled IRQ, else the instruction.
Next ==
  \/ Nmi
  \/ Irq
  \/ /\ line = "none" \/ (line = "irq" /\ "I" \in regs.P)
     /\ Execute

Spec == Init /\ [][Next]_vars
=============================================================================
