------------------------------ MODULE Cpu65816 ------------------------------
(* The 65C816 core (cpu65c816_opcodes.c, cpu65c816.c) in both modes, one       *)
(* action per family of instructions.  The program is whatever bytes the       *)
(* fetches return: ir is the next instruction with its operand bytes, line     *)
(* what the interrupt inputs do before it, program the kind of program it is.  *)
(* Memory is plain: the I/O page and the banking are the business of other     *)
(* modules.                                                                    *)
EXTENDS Bytes, Integers, Sequences

CONSTANTS
  Programs,       \* kinds of programs: [starts, code, lines, steps], the registers they start
                  \* with, the <<opcode, byte, byte, byte>> they are made of, the interrupts
                  \* they meet ("none", "irq", "nmi") and, a bound, how many steps they take
  MaxMove,        \* bound: the bytes of a block move
  Blank(_)        \* what memory holds at first

VARIABLES
  program, \* the kind of program that runs
  cpu,     \* the registers, P a set of flags, E the emulation bit, halt "stp", "wai" or "no"
  mem,     \* the addresses written so far, and their bytes
  ir, line,
  extra,   \* the cycles the last instruction took over its base count
  steps    \* the instructions run

vars == <<program, cpu, mem, ir, line, extra, steps>>

op == ir[1]
Operand == Word(ir[2], ir[3])
Operand24 == Operand + 65536 * ir[4]
Rd(a) == IF a \in DOMAIN mem THEN mem[a] ELSE Blank(a)

\* The widths of the accumulator and of the indexes; the registers through them.
WidthM == IF cpu.E \/ "M" \in cpu.P THEN 8 ELSE 16
WidthX == IF cpu.E \/ "X" \in cpu.P THEN 8 ELSE 16
A == cpu.C % Span(WidthM)
Index(reg) == cpu[reg] % Span(WidthX)
WithA(v) == IF WidthM = 8 THEN 256 * High(cpu.C) + Low(v) ELSE v
Wide(width) == IF width = 8 THEN 0 ELSE 1     \* the cycle a 16-bit access adds

\* The addresses of 24 bits, and the values of the registers.
Last == \hFFFFFF
Registers ==
  [C : Words, X : Words, Y : Words, S : Words, D : Words, DBR : Byte, PBR : Byte, PC : Words,
   P : SUBSET Flags, E : BOOLEAN, halt : {"stp", "wai", "no"}]
EmulationFits(c) == c.E => 256 <= c.S /\ c.S < 512 /\ c.X < 256 /\ c.Y < 256

\* What the constants must satisfy.
ASSUME CpuAssumption ==
  /\ \A a \in 0 .. Last : Blank(a) \in Byte
  /\ \A p \in Programs :
       /\ p.code \subseteq [1 .. 4 -> Byte] /\ p.lines \subseteq {"none", "irq", "nmi"}
       /\ \A c \in p.starts : c \in Registers /\ EmulationFits(c)

\* What cpu816_reset leaves.
Reset == [C |-> 0, X |-> 0, Y |-> 0, S |-> \h01FF, D |-> 0, DBR |-> 0, PBR |-> 0,
          PC |-> Word(Blank(\hFFFC), Blank(\hFFFD)), P |-> {"M", "I"}, E |-> TRUE, halt |-> "no"]

Init ==
  /\ program \in Programs /\ cpu \in program.starts
  /\ mem = <<>> /\ ir \in program.code /\ line \in program.lines /\ extra = 0 /\ steps = 0

\* An address: where, the operand bytes it takes, whether indexing left the
\* page, and where the second byte of a word is (next).
Plain(a, n) == [at |-> a, next |-> (a + 1) % 65536, bytes |-> n, crossed |-> FALSE]
Indexed(base, reg, n) ==
  LET a == (base + Index(reg)) % 65536
  IN [at |-> a, next |-> (a + 1) % 65536, bytes |-> n, crossed |-> ~SamePage(base, a)]
Far(a, n) ==
  LET at == a % 16777216 IN [at |-> at, next |-> (at + 1) % 16777216, bytes |-> n, crossed |-> FALSE]
Word16(a, b) == Word(Rd(a), Rd(b))
Pointer(zp) == Word16(zp, (zp + 1) % 256)
\* The pointers of the modes that honour D: two bytes, and three.
Direct(k) == (cpu.D + ir[2] + k) % 65536
DirectWord == Word16(Direct(0), Direct(1))
DirectLong == DirectWord + 65536 * Rd(Direct(2))

NearModes == {"imm", "zp", "zpx", "zpy", "abs", "abx", "aby", "izx", "izy"}
Near(mode, width) ==
  CASE mode = "imm" -> Plain(-1, 1 + Wide(width))
    [] mode = "zp"  -> Plain(ir[2], 1)
    [] mode = "zpx" -> Plain((ir[2] + Low(cpu.X)) % 256, 1)
    [] mode = "zpy" -> Plain((ir[2] + Low(cpu.Y)) % 256, 1)
    [] mode = "abs" -> Plain(Operand, 2)
    [] mode = "abx" -> Indexed(Operand, "X", 2)
    [] mode = "aby" -> Indexed(Operand, "Y", 2)
    [] mode = "izx" -> Plain(Pointer((ir[2] + Low(cpu.X)) % 256), 1)
    [] mode = "izy" -> Indexed(Pointer(ir[2]), "Y", 1)
Long(mode) ==
  CASE mode = "lng" -> Far(Operand24, 3)
    [] mode = "lnx" -> Far(Operand24 + cpu.X, 3)
    [] mode = "ild" -> Far(DirectLong, 1)
    [] mode = "ily" -> Far(DirectLong + cpu.Y, 1)
    [] mode = "idp" -> Far(65536 * cpu.DBR + DirectWord, 1)
Address(mode, width) == IF mode \in NearModes THEN Near(mode, width) ELSE Long(mode)

\* An operand, and memory with one written, at the given width.
Fetched(e, width) ==
  LET lo == IF e.at = -1 THEN ir[2] ELSE Rd(e.at)
      hi == IF e.at = -1 THEN ir[3] ELSE Rd(e.next)
  IN IF width = 8 THEN lo ELSE Word(lo, hi)
Written(e, v, width) ==
  LET first == Over(Cell(e.at, Low(v)), mem) IN IF width = 8 THEN first ELSE Over(Cell(e.next, High(v)), first)

\* The modes of the accumulator instructions, by their offset from the first.
NearOffsets == {1, 5, 9, 13, 17, 21, 25, 29}
Offsets == NearOffsets \union {7, 15, 18, 23, 31}
AluModes == [o \in Offsets |->
  CASE o = 1 -> "izx" [] o = 5 -> "zp" [] o = 9 -> "imm" [] o = 13 -> "abs"
    [] o = 17 -> "izy" [] o = 21 -> "zpx" [] o = 25 -> "aby" [] o = 29 -> "abx"
    [] o = 15 -> "lng" [] o = 31 -> "lnx" [] o = 7 -> "ild" [] o = 23 -> "ily" [] o = 18 -> "idp"]
ShiftModes == [o \in {6, 14, 22, 30} |->
                 CASE o = 6 -> "zp" [] o = 14 -> "abs" [] o = 22 -> "zpx" [] o = 30 -> "abx"]

\* cpu816_nmi and cpu816_irq_set end WAI, even when I masks the interrupt; one
\* that was waiting before calls neither.
Woken(c, input) == [c EXCEPT !.halt = IF @ = "wai" /\ input \notin {"none", line} THEN "no" ELSE @]
\* The end of an instruction, and what the program meets next.
Done(c, pc, m, x) ==
  /\ IF steps + 1 < program.steps THEN ir' \in program.code /\ line' \in program.lines
                                  ELSE UNCHANGED <<ir, line>>
  /\ cpu' = Woken([c EXCEPT !.PC = pc], line')
  /\ mem' = m /\ extra' = x /\ steps' = steps + 1 /\ UNCHANGED program
After(n) == (cpu.PC + 1 + n) % 65536
Advance(c, n, x) == Done(c, After(n), mem, x)
\* In emulation mode an instruction of the 65C816 alone skips n bytes.
Skip(n) == cpu.E /\ Advance(cpu, n, 0)
Native == ~cpu.E
Penalty(e, width) == (IF e.crossed THEN 1 ELSE 0) + Wide(width)

(* Loads, stores, arithmetic and comparisons. *)
IsAlu(base) == op - base \in Offsets
\* A long mode in emulation mode skips the operand bytes of its mode.
SkipsLong(base) == op - base \in Offsets \ NearOffsets /\ Skip(Long(AluModes[op - base]).bytes)
Alu(base) == Address(AluModes[op - base], WidthM)
Decoded(base) == IsAlu(base) /\ (op - base \in NearOffsets \/ Native)

LoadA ==
  \/ SkipsLong(160)
  \/ /\ Decoded(160)
     /\ LET e == Alu(160)
            v == Fetched(e, WidthM)
        IN Advance([cpu EXCEPT !.C = WithA(v), !.P = PutNZ(@, v, WidthM)], e.bytes, Penalty(e, WidthM))
StoredA ==
  LET e == Alu(128) IN Done(cpu, After(e.bytes), Written(e, A, WidthM), Wide(WidthM))
StoreA == op - 128 \in NearOffsets \ {9} /\ StoredA
StoreALong == SkipsLong(128) \/ (op - 128 \in Offsets \ NearOffsets /\ Native /\ StoredA)

LoadIndex(reg, codes) ==
  \E c \in codes :
    /\ op = c[1]
    /\ LET e == Address(c[2], WidthX)
           v == Fetched(e, WidthX)
       IN Advance([cpu EXCEPT ![reg] = v, !.P = PutNZ(@, v, WidthX)], e.bytes, Penalty(e, WidthX))
LoadX == LoadIndex("X", {<<\hA2, "imm">>, <<\hA6, "zp">>, <<\hB6, "zpy">>, <<\hAE, "abs">>, <<\hBE, "aby">>})
LoadY == LoadIndex("Y", {<<\hA0, "imm">>, <<\hA4, "zp">>, <<\hB4, "zpx">>, <<\hAC, "abs">>, <<\hBC, "abx">>})
StoreIndex(reg, codes) ==
  \E c \in codes :
    /\ op = c[1]
    /\ LET e == Address(c[2], WidthX)
       IN Done(cpu, After(e.bytes), Written(e, Index(reg), WidthX), Wide(WidthX))
StoreX == StoreIndex("X", {<<\h86, "zp">>, <<\h96, "zpy">>, <<\h8E, "abs">>})
StoreY == StoreIndex("Y", {<<\h84, "zp">>, <<\h94, "zpx">>, <<\h8C, "abs">>})
StoreZero ==
  \E c \in {<<\h9C, "abs">>, <<\h9E, "abx">>, <<\h64, "zp">>, <<\h74, "zpx">>} :
    /\ op = c[1]
    /\ LET e == Address(c[2], WidthM)
       IN \/ Skip(e.bytes)
          \/ Native /\ Done(cpu, After(e.bytes), Written(e, 0, WidthM), Wide(WidthM))

\* The sum of two words, and of one and the complement of the other.
BinaryAdd(a, v, P, width) ==
  LET sum == a + v + Carry(P)
      r == sum % Span(width)
  IN [v |-> r, P |-> PutNZ(Put(Put(P, "C", sum >= Span(width)), "V",
                               Top(a, width) = Top(v, width) /\ Top(a, width) # Top(r, width)), r, width)]
BinarySub(a, v, P, width) ==
  LET diff == Span(width) + a - v - (1 - Carry(P))
      r == diff % Span(width)
  IN [v |-> r, P |-> PutNZ(Put(Put(P, "C", diff >= Span(width)), "V",
                               Top(a, width) # Top(v, width) /\ Top(a, width) # Top(r, width)), r, width)]
\* op_adc and op_sbc on packed decimal bytes: the digits carry one by one.
DecimalAdd(a, v, P) ==
  LET bin == (a + v + Carry(P)) % 256
      sum == (a % 16) + (v % 16) + Carry(P)
      low == IF sum > 9 THEN sum + 6 ELSE sum
      high == a \div 16 + v \div 16 + (IF low > 15 THEN 1 ELSE 0)
      fixed == IF high > 9 THEN high + 6 ELSE high
  IN [v |-> 16 * (fixed % 16) + (low % 16),
      P |-> Put(Put(Put(Put(P, "Z", bin = 0), "N", (high \div 8) % 2 = 1),
                    "V", Top(a, 8) = Top(v, 8) /\ Top(a, 8) # ((high \div 8) % 2 = 1)),
                "C", fixed > 15)]
DecimalSubPlain(a, v, P) == BinarySub(a, v, P, 8)   \* faulty: the digits not corrected
DecimalSub(a, v, P) ==
  LET bin == 256 + a - v - (1 - Carry(P))              \* below 256: a borrow
      low == 16 + (a % 16) - (v % 16) - (1 - Carry(P))    \* below 16: a borrow
      high == 16 + a \div 16 - v \div 16 - (IF low < 16 THEN 1 ELSE 0)
  IN [v |-> 16 * ((IF high < 16 THEN high + 10 ELSE high) % 16)
              + ((IF low < 16 THEN low + 10 ELSE low) % 16),
      P |-> Put(Put(Put(Put(P, "Z", bin % 256 = 0), "N", Top(bin % 256, 8)),
                    "V", Top(a, 8) # Top(v, 8) /\ Top(a, 8) # Top(bin % 256, 8)), "C", bin >= 256)]
\* Decimal mode works on the low byte whatever the width.
AddSub ==
  \E base \in {96, 224} :
    \/ SkipsLong(base)
    \/ /\ Decoded(base)
       /\ LET e == Alu(base)
              v == Fetched(e, WidthM)
              r == IF "D" \in cpu.P
                     THEN IF base = 96 THEN DecimalAdd(Low(cpu.C), Low(v), cpu.P)
                                       ELSE DecimalSub(Low(cpu.C), Low(v), cpu.P)
                     ELSE IF base = 96 THEN BinaryAdd(A, v, cpu.P, WidthM)
                                       ELSE BinarySub(A, v, cpu.P, WidthM)
              c == IF "D" \in cpu.P THEN 256 * High(cpu.C) + r.v ELSE WithA(r.v)
          IN Advance([cpu EXCEPT !.C = c, !.P = r.P], e.bytes, Penalty(e, WidthM))
\* $EB subtracts in emulation mode and exchanges the halves of C in native mode.
Exchange ==
  /\ op = \hEB
  /\ \/ /\ cpu.E
        /\ LET r == IF "D" \in cpu.P THEN DecimalSub(A, ir[2], cpu.P) ELSE BinarySub(A, ir[2], cpu.P, 8)
           IN Advance([cpu EXCEPT !.C = WithA(r.v), !.P = r.P], 1, 0)
     \/ Native /\ Advance([cpu EXCEPT !.C = Word(High(@), Low(@)), !.P = PutNZ(@, High(cpu.C), 8)], 0, 0)

Logic ==
  \E base \in {0, 32, 64} :
    \/ SkipsLong(base)
    \/ /\ Decoded(base)
       /\ LET e == Alu(base)
              v == Fetched(e, WidthM)
              r == CASE base = 0 -> Or(A, v) [] base = 32 -> And(A, v) [] OTHER -> Xor(A, v)
          IN Advance([cpu EXCEPT !.C = WithA(r), !.P = PutNZ(@, r, WidthM)], e.bytes, Penalty(e, WidthM))

Compared(v, w, width) == PutNZ(Put(cpu.P, "C", v >= w), (Span(width) + v - w) % Span(width), width)
CompareA ==
  \/ SkipsLong(192)
  \/ /\ Decoded(192)
     /\ LET e == Alu(192)
        IN Advance([cpu EXCEPT !.P = Compared(A, Fetched(e, WidthM), WidthM)], e.bytes, Penalty(e, WidthM))
CompareIndex ==
  \E reg \in {"X", "Y"}, c \in {<<0, "imm">>, <<4, "zp">>, <<12, "abs">>} :
    /\ op = (IF reg = "X" THEN \hE0 ELSE \hC0) + c[1]
    /\ LET e == Address(c[2], WidthX)
       IN Advance([cpu EXCEPT !.P = Compared(Index(reg), Fetched(e, WidthX), WidthX)],
                  e.bytes, Penalty(e, WidthX))
BitTest ==
  /\ op \in {\h24, \h2C}
  /\ LET e == Address(IF op = \h24 THEN "zp" ELSE "abs", WidthM)
         v == Fetched(e, WidthM)
         second == (v \div (Span(WidthM) \div 4)) % 2 = 1
     IN Advance([cpu EXCEPT !.P = Put(Put(Put(@, "Z", And(A, v) = 0), "V", second), "N", Top(v, WidthM))],
                e.bytes, Wide(WidthM))

\* Shifts and rotations: in memory always of a byte, in the accumulator of its width.
Shifted(kind, v, width) ==
  LET left == kind \in {0, 32}
      in == IF kind \in {32, 96} THEN Carry(cpu.P) ELSE 0
      r == IF left THEN (2 * v + in) % Span(width) ELSE v \div 2 + (Span(width) \div 2) * in
  IN [v |-> r, P |-> PutNZ(Put(cpu.P, "C", IF left THEN Top(v, width) ELSE v % 2 = 1), r, width)]
ShiftA ==
  \E kind \in {0, 32, 64, 96} :
    /\ op = kind + 10
    /\ LET s == Shifted(kind, A, WidthM) IN Advance([cpu EXCEPT !.C = WithA(s.v), !.P = s.P], 0, 0)
Modify(base, Change(_)) ==
  /\ op - base \in DOMAIN ShiftModes
  /\ LET e == Address(ShiftModes[op - base], 8)
         s == Change(Rd(e.at))
     IN Done([cpu EXCEPT !.P = s.P], After(e.bytes), Written(e, s.v, 8), 0)
ShiftMem == \E kind \in {0, 32, 64, 96} : Modify(kind, LAMBDA v : Shifted(kind, v, 8))
Counted(v) == [v |-> v, P |-> PutNZ(cpu.P, v, 8)]
IncMem == Modify(224, LAMBDA v : Counted((v + 1) % 256))
DecMem == Modify(192, LAMBDA v : Counted((v + 255) % 256))
CountA ==
  /\ op \in {\h1A, \h3A}
  /\ \/ Skip(0)
     \/ /\ Native
        /\ LET r == (A + (IF op = \h1A THEN 1 ELSE Span(WidthM) - 1)) % Span(WidthM)
           IN Advance([cpu EXCEPT !.C = WithA(r), !.P = PutNZ(@, r, WidthM)], 0, 0)
CountIndex ==
  \E i \in {<<\hE8, "X", 1>>, <<\hC8, "Y", 1>>, <<\hCA, "X", -1>>, <<\h88, "Y", -1>>} :
    /\ op = i[1]
    /\ LET r == (Index(i[2]) + Span(WidthX) + i[3]) % Span(WidthX)
       IN Advance([cpu EXCEPT ![i[2]] = r, !.P = PutNZ(@, r, WidthX)], 0, 0)

(* Transfers. *)
NarrowX(c) == [c EXCEPT !.X = Low(@)]   \* faulty: Y keeps its high byte
Narrow(c) == [c EXCEPT !.X = Low(@), !.Y = Low(@)]
TransferIndex ==    \* to X or Y, at the width of the indexes
  \E t \in {<<\hAA, "X", cpu.C>>, <<\hA8, "Y", cpu.C>>, <<\h9B, "Y", Index("X")>>, <<\hBB, "X", Index("Y")>>,
            <<\hBA, "X", IF WidthX = 8 THEN Low(cpu.S) ELSE cpu.S>>} :
    /\ op = t[1]
    /\ LET v == t[3] % Span(WidthX)
       IN Advance([cpu EXCEPT ![t[2]] = v, !.P = PutNZ(@, v, WidthX)], 0, 0)
TransferA ==        \* to A, at the width of the accumulator
  \E t \in {<<\h8A, "X">>, <<\h98, "Y">>} :
    /\ op = t[1]
    /\ LET v == cpu[t[2]] % Span(WidthM)
       IN Advance([cpu EXCEPT !.C = WithA(v), !.P = PutNZ(@, v, WidthM)], 0, 0)
TransferWord ==     \* TCD, TDC, TSC: 16 bits whatever the mode
  \E t \in {<<\h5B, "D", "C">>, <<\h7B, "C", "D">>, <<\h3B, "C", "S">>} :
    op = t[1] /\ Advance([cpu EXCEPT ![t[2]] = cpu[t[3]], !.P = PutNZ(@, cpu[t[3]], 16)], 0, 0)
TransferStack ==    \* TXS, TCS
  /\ op \in {\h9A, \h1B}
  /\ LET v == IF op = \h9A THEN Index("X") ELSE cpu.C
     IN Advance([cpu EXCEPT !.S = IF cpu.E THEN 256 + Low(v) ELSE v], 0, 0)

(* The stack: in page 1 in emulation mode, anywhere in bank 0 in native mode. *)
Down(s, k) == IF cpu.E THEN 256 + ((s + 256 - k) % 256) ELSE (s + 65536 - k) % 65536
Above(k) == IF cpu.E THEN 256 + ((cpu.S + k) % 256) ELSE (cpu.S + k) % 65536
Below(k) == IF k = 0 THEN cpu.S ELSE Down(cpu.S, k)
Dropped(k) == [cpu EXCEPT !.S = IF k = 0 THEN @ ELSE Down(@, k)]
Raised(k) == [cpu EXCEPT !.S = Above(k)]
Onto(bytes) == Over([a \in {Below(k - 1) : k \in DOMAIN bytes} |->
                       bytes[CHOOSE k \in DOMAIN bytes : a = Below(k - 1)]], mem)
PushWord(v) == <<High(v), Low(v)>>
Pulled(k) == Rd(Above(k))
PulledWord(k) == Word(Pulled(k), Pulled(k + 1))
AtWidth(v, width) == IF width = 8 THEN <<Low(v)>> ELSE PushWord(v)

\* What PHP and BRK push, what an interrupt and COP push, what PLP and RTI restore.
PushedP == ByteOf(IF cpu.E THEN cpu.P \union {"X", "M"} ELSE cpu.P)
MaskedPAlways == ByteOf((cpu.P \ {"X"}) \union {"M"})   \* faulty: bits 4 and 5 forced in native mode too
MaskedP == ByteOf(IF cpu.E THEN (cpu.P \ {"X"}) \union {"M"} ELSE cpu.P)
RestoredP(c, byte) ==
  IF cpu.E THEN [c EXCEPT !.P = (FlagsOf(byte) \ {"X"}) \union {"M"}]
  ELSE LET r == [c EXCEPT !.P = FlagsOf(byte)]
       IN IF "X" \notin cpu.P /\ "X" \in r.P THEN Narrow(r) ELSE r

Pushing(bytes, n) == Done(Dropped(Len(bytes)), After(n), Onto(bytes), 0)
PushA == op = \h48 /\ Done(Dropped(IF WidthM = 8 THEN 1 ELSE 2), After(0), Onto(AtWidth(A, WidthM)), Wide(WidthM))
PushP == op = \h08 /\ Pushing(<<PushedP>>, 0)
PushIndex ==
  \E i \in {<<\hDA, "X">>, <<\h5A, "Y">>} :
    op = i[1] /\ (Skip(0) \/ (Native /\ Pushing(AtWidth(Index(i[2]), WidthX), 0)))
PushBank ==
  \E b \in {<<\h8B, "DBR">>, <<\h4B, "PBR">>} : op = b[1] /\ (Skip(0) \/ (Native /\ Pushing(<<cpu[b[2]]>>, 0)))
\* PHD, PEA, PEI, PER.  In emulation mode none of them takes its operand bytes.
PushEffective ==
  \E t \in {<<\h0B, cpu.D, 0>>, <<\hF4, Operand, 2>>, <<\hD4, Pointer(ir[2]), 1>>,
            <<\h62, (After(2) + Operand) % 65536, 2>>} :
    op = t[1] /\ (Skip(0) \/ (Native /\ Pushing(PushWord(t[2]), t[3])))

Pull(width) == IF width = 8 THEN Pulled(1) ELSE PulledWord(1)
PullA ==
  /\ op = \h68
  /\ LET v == Pull(WidthM)
     IN Advance([Raised(WidthM \div 8) EXCEPT !.C = WithA(v), !.P = PutNZ(@, v, WidthM)], 0, Wide(WidthM))
PullP == op = \h28 /\ Advance(RestoredP(Raised(1), Pulled(1)), 0, 0)
PullIndex ==
  \E i \in {<<\hFA, "X">>, <<\h7A, "Y">>} :
    /\ op = i[1]
    /\ \/ Skip(0)
       \/ /\ Native
          /\ LET v == Pull(WidthX)
             IN Advance([Raised(WidthX \div 8) EXCEPT ![i[2]] = v, !.P = PutNZ(@, v, WidthX)], 0, 0)
PullBank ==
  op = \hAB /\ (Skip(0) \/ (Native /\ Advance([Raised(1) EXCEPT !.DBR = Pulled(1), !.P = PutNZ(@, Pulled(1), 8)], 0, 0)))
PullD ==
  op = \h2B /\ (Skip(0) \/ (Native /\ Advance([Raised(2) EXCEPT !.D = PulledWord(1),
                                                               !.P = PutNZ(@, PulledWord(1), 16)], 0, 0)))

(* Jumps, calls and returns. *)
\* do_branch: a branch taken costs a cycle, two when it leaves the page.
Taken(target) == Done(cpu, target, mem, IF SamePage(After(1), target) THEN 1 ELSE 2)
Branch ==
  \E b \in {<<\h10, "N", FALSE>>, <<\h30, "N", TRUE>>, <<\h50, "V", FALSE>>, <<\h70, "V", TRUE>>,
            <<\h90, "C", FALSE>>, <<\hB0, "C", TRUE>>, <<\hD0, "Z", FALSE>>, <<\hF0, "Z", TRUE>>} :
    /\ op = b[1]
    /\ IF (b[2] \in cpu.P) = b[3] THEN Taken(Displaced(After(1), ir[2])) ELSE Advance(cpu, 1, 0)
BranchAlways ==    \* BRA, BRL
  \/ op = \h80 /\ Taken(Displaced(After(1), ir[2]))
  \/ op = \h82 /\ Done(cpu, (After(2) + Operand) % 65536, mem, 0)
JumpAcross ==    \* faulty: the pointer of an indirect jump leaves its page
  \/ op = \h4C /\ Done(cpu, Operand, mem, 0)
  \/ op = \h6C /\ Done(cpu, Word16(Operand, (Operand + 1) % 65536), mem, 0)
Jump ==
  \/ op = \h4C /\ Done(cpu, Operand, mem, 0)
  \/ /\ op = \h6C
     /\ Done(cpu, Word16(Operand, 256 * (Operand \div 256) + ((Operand + 1) % 256)), mem, 0)
JumpLong ==
  \/ op = \h5C /\ (Skip(3) \/ (Native /\ Done([cpu EXCEPT !.PBR = ir[4]], Operand, mem, 0)))
  \/ /\ op = \hDC
     /\ \/ Skip(2)
        \/ Native /\ Done([cpu EXCEPT !.PBR = Rd((Operand + 2) % 65536)],
                          Word16(Operand, (Operand + 1) % 65536), mem, 0)
Call == op = \h20 /\ Done(Dropped(2), Operand, Onto(PushWord(After(1))), 0)
CallLong ==
  /\ op = \h22
  /\ \/ Skip(3)
     \/ Native /\ Done([Dropped(3) EXCEPT !.PBR = ir[4]], Operand, Onto(<<cpu.PBR>> \o PushWord(After(2))), 0)
Return == op = \h60 /\ Done(Raised(2), (PulledWord(1) + 1) % 65536, mem, 0)
ReturnLong ==
  op = \h6B /\ (Skip(0) \/ (Native /\ Done([Raised(3) EXCEPT !.PBR = Pulled(3)], (PulledWord(1) + 1) % 65536, mem, 0)))
ReturnInterrupt ==
  /\ op = \h40
  /\ LET c == RestoredP(Raised(IF cpu.E THEN 3 ELSE 4), Pulled(1))
     IN Done(IF cpu.E THEN c ELSE [c EXCEPT !.PBR = Pulled(4)], PulledWord(2), mem, 0)

\* handle_irq_or_nmi, COP and BRK: from the address to come back to, with the byte of P.
\* Only an interrupt ends WAI: the halt of BRK and COP is the one they find.
Service(pc, byte, vector, cleared, halt) ==
  LET bytes == (IF cpu.E THEN <<>> ELSE <<cpu.PBR>>) \o PushWord(pc) \o <<byte>>
  IN Done([Dropped(Len(bytes)) EXCEPT !.PBR = IF cpu.E THEN @ ELSE 0, !.halt = halt,
                                      !.P = (@ \union {"I"}) \ cleared],
          Word16(vector, vector + 1), Onto(bytes), 0)
InMode(emulated, native) == IF cpu.E THEN emulated ELSE native
Cleared == InMode({}, {"D"})
Break == op = 0 /\ Service(After(1), PushedP, InMode(\hFFFE, \hFFE6), Cleared, cpu.halt)
Cop == op = 2 /\ Service(After(1), MaskedP, InMode(\hFFF4, \hFFE4), {"D"}, cpu.halt)

\* MVN and MVP move C + 1 bytes in one step, and X and Y count on 16 bits.
Moving(reg, k) == (cpu[reg] + (IF op = \h54 THEN k ELSE 65536 - k)) % 65536
Copied(m, src, dst) == Over(Cell(dst, IF src \in DOMAIN m THEN m[src] ELSE Blank(src)), m)
BlockMove ==
  /\ op \in {\h54, \h44}
  /\ \/ Skip(2)
     \/ /\ Native /\ cpu.C < MaxMove
        /\ LET moved[k \in 0 .. cpu.C + 1] ==
                 IF k = 0 THEN mem
                 ELSE Copied(moved[k - 1], 65536 * ir[3] + Moving("X", k - 1), 65536 * ir[2] + Moving("Y", k - 1))
           IN Done([cpu EXCEPT !.DBR = ir[2], !.C = 65535, !.X = Moving("X", cpu.C + 1), !.Y = Moving("Y", cpu.C + 1)],
                   After(2), moved[cpu.C + 1], 7 * (cpu.C + 1))

(* Flags, modes and the rest. *)
SetFlag ==
  \/ \E f \in {<<\h18, "C">>, <<\h58, "I">>, <<\hD8, "D">>, <<\hB8, "V">>} :
       op = f[1] /\ Advance([cpu EXCEPT !.P = @ \ {f[2]}], 0, 0)
  \/ \E f \in {<<\h38, "C">>, <<\h78, "I">>, <<\hF8, "D">>} :
       op = f[1] /\ Advance([cpu EXCEPT !.P = @ \union {f[2]}], 0, 0)
Rep == op = \hC2 /\ Advance([cpu EXCEPT !.P = (@ \ FlagsOf(ir[2])) \union (IF cpu.E THEN {"M"} ELSE {})], 1, 0)
Sep ==
  /\ op = \hE2
  /\ LET c == [cpu EXCEPT !.P = @ \union FlagsOf(ir[2])]
     IN Advance(IF "X" \in FlagsOf(ir[2]) THEN Narrow(c) ELSE c, 1, 0)
ExchangeE ==
  /\ op = \hFB
  /\ LET c == [cpu EXCEPT !.E = "C" \in cpu.P, !.P = Put(@, "C", cpu.E)]
     IN Advance(IF c.E THEN Narrow([c EXCEPT !.P = @ \union {"M", "X"}, !.S = 256 + Low(@)]) ELSE c, 0, 0)
Halt ==
  \E h \in {<<\hDB, "stp">>, <<\hCB, "wai">>} :
    op = h[1] /\ (Skip(0) \/ (Native /\ Advance([cpu EXCEPT !.halt = h[2]], 0, 0)))
Nop == op = \hEA /\ Advance(cpu, 0, 0)
Wdm == op = \h42 /\ Advance(cpu, 1, 0)    \* reserved: skips a byte in both modes
\* What the switch does not name skips its operand bytes.
Illegal ==
  /\ op \in {\h04, \h0C, \h14, \h1C, \h34, \h3C, \h7C, \h89, \hFC} \union {16 * k + 3 : k \in 0 .. 15}
  /\ Advance(cpu, OpcodeSize(op) - 1, 0)

Execute ==
  \/ LoadA \/ StoreA \/ StoreALong \/ LoadX \/ LoadY \/ StoreX \/ StoreY \/ StoreZero \/ AddSub \/ Exchange
  \/ Logic \/ CompareA \/ CompareIndex \/ BitTest \/ ShiftA \/ ShiftMem \/ IncMem \/ DecMem
  \/ CountA \/ CountIndex \/ TransferIndex \/ TransferA \/ TransferWord \/ TransferStack
  \/ PushA \/ PushP \/ PushIndex \/ PushBank \/ PushEffective \/ PullA \/ PullP \/ PullIndex
  \/ PullBank \/ PullD \/ Branch \/ BranchAlways \/ Jump \/ JumpLong \/ Call \/ CallLong \/ Return \/ ReturnLong
  \/ ReturnInterrupt \/ Break \/ Cop \/ BlockMove \/ SetFlag \/ Rep \/ Sep \/ ExchangeE \/ Halt
  \/ Nop \/ Wdm \/ Illegal

\* cpu816_step: stopped, waiting, NMI first, then an enabled IRQ, else the instruction.
Running == steps < program.steps /\ cpu.halt # "stp"
Wait == Running /\ cpu.halt = "wai" /\ line = "none" /\ Done(cpu, cpu.PC, mem, 0)
Nmi == Running /\ line = "nmi" /\ Service(cpu.PC, MaskedP, InMode(\hFFFA, \hFFEA), Cleared, "no")
Irq == /\ Running /\ line = "irq" /\ "I" \notin cpu.P
       /\ Service(cpu.PC, MaskedP, InMode(\hFFFE, \hFFEE), Cleared, "no")
\* No interrupt is served before the instruction.
Fetching == line = "none" \/ (line = "irq" /\ "I" \in cpu.P)
\* A WAI that finds a masked interrupt does not wait; it will when that has gone.
Run == Running /\ (cpu.halt = "wai" => line # "none") /\ Fetching /\ Execute
Next == Wait \/ Nmi \/ Irq \/ Run

Spec == Init /\ [][Next]_vars
=============================================================================
