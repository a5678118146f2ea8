------------------------------ MODULE CpuProofs -----------------------------
(* The 65C816 core under every program, for every content of memory, every     *)
(* interrupt and every length of run: the registers keep their width and their *)
(* mode, decimal arithmetic is decimal, calls and interrupts come back, and in *)
(* emulation mode it implements the 6502 core.                                 *)
(* Each action is shown to end in Done with registers, an address and a memory *)
(* that are right (Good), which keeps the invariant whatever comes next.       *)
EXTENDS CpuReturns, TLAPS, SequenceTheorems, FiniteSetTheorems, WellFoundedInduction

\* The addresses a program reaches, and what holds between its instructions.
Space == {n \in Nat : n < 16777216}
Holds(m) == \A a \in DOMAIN m : m[a] \in Byte
CpuInv ==
  /\ cpu \in Registers /\ EmulationFits(cpu)
  /\ Holds(mem)
  /\ program \in Programs /\ ir \in program.code /\ line \in program.lines

\* What an instruction may make of the registers, and a step that ends so.
Indexes(c) == (c.E \/ "X" \in c.P) => c.X < 256 /\ c.Y < 256
Kept(c) == c \in Registers /\ EmulationFits(c) /\ (Indexes(cpu) => Indexes(c) \/ NarrowMove)
Good == \E c, pc, m, x : Done(c, pc, m, x) /\ Kept(c) /\ pc \in Words /\ Holds(m)

LEMMA DoneKeeps ==
  ASSUME CpuAssumption, CpuInv, NEW c, NEW pc, NEW m, NEW x,
         Done(c, pc, m, x), Kept(c), pc \in Words, Holds(m)
  PROVE  CpuInv' /\ (Indexes(cpu) => Indexes(cpu)' \/ NarrowMove)
<1>1. cpu' = Woken([c EXCEPT !.PC = pc], line') /\ mem' = m /\ program' = program
  BY DEF Done
<1>2. ir' \in program.code /\ line' \in program.lines
  BY DEF Done, CpuInv
<1> DEFINE r == [c EXCEPT !.PC = pc]
<1>3. r \in Registers /\ EmulationFits(r) /\ (Indexes(cpu) => Indexes(r) \/ NarrowMove)
  BY DEF Kept, Registers, EmulationFits, Indexes
<1>4. \E h \in {"stp", "wai", "no"} : cpu' = [r EXCEPT !.halt = h]
  <2>1. r.halt \in {"stp", "wai", "no"}
    BY <1>3 DEF Registers
  <2>a. cpu' = Woken(r, line')
    BY <1>1
  <2> HIDE DEF r
  <2>2. CASE r.halt = "wai" /\ line' \notin {"none", line}
    <3>1. cpu' = [r EXCEPT !.halt = "no"]
      BY <2>a, <2>2 DEF Woken
    <3> QED BY <3>1
  <2>3. CASE ~(r.halt = "wai" /\ line' \notin {"none", line})
    <3>1. cpu' = [r EXCEPT !.halt = r.halt]
      BY <2>a, <2>3 DEF Woken
    <3> QED BY <2>1, <3>1
  <2> QED BY <2>2, <2>3
<1>5. cpu' \in Registers /\ EmulationFits(cpu') /\ (Indexes(cpu) => Indexes(cpu') \/ NarrowMove)
  <2> HIDE DEF r
  <2> QED BY <1>3, <1>4 DEF Registers, EmulationFits, Indexes
<1> QED BY <1>1, <1>2, <1>5 DEF CpuInv, EmulationFits, Indexes, Holds

LEMMA LowHigh == \A w \in Nat : Low(w) \in Byte /\ High(w) \in Byte
  BY DEF Low, High, Byte
LEMMA WordOf == ASSUME NEW l \in Byte, NEW h \in Byte PROVE Word(l, h) \in Words
<1>1. l \in Int /\ 0 <= l /\ l <= 255 /\ h \in Int /\ 0 <= h /\ h <= 255
  BY DEF Byte
<1>2. l + 256 * h \in Int /\ 0 <= l + 256 * h /\ l + 256 * h <= 65535
  BY <1>1
<1> QED BY <1>2 DEF Word, Words
LEMMA Spaces == Byte \subseteq Words /\ Words \subseteq Space /\ Space \subseteq 0 .. Last
<1>1. \A a \in Space : a <= Last
  BY DEF Space, Last
<1>2. Byte \subseteq Words /\ Words \subseteq Space
  BY DEF Byte, Words, Space
<1>3. Last \in Int /\ \A a \in Space : a \in Int /\ 0 <= a
  BY DEF Last, Space
<1> QED BY <1>1, <1>2, <1>3
LEMMA RdByte == ASSUME CpuAssumption, CpuInv PROVE \A a \in Space : Rd(a) \in Byte
<1>1. \A a \in Space : Blank(a) \in Byte
  BY Spaces DEF CpuAssumption
<1> QED BY <1>1 DEF CpuInv, Holds, Rd
LEMMA IrBytes == ASSUME CpuAssumption, CpuInv
  PROVE ir[1] \in Byte /\ ir[2] \in Byte /\ ir[3] \in Byte /\ ir[4] \in Byte
<1>1. ir \in [1 .. 4 -> Byte]
  BY DEF CpuAssumption, CpuInv
<1> QED BY <1>1
LEMMA SelectFlag == \A P \in SUBSET Flags : \A f \in Flags \ {"X"} : \A v :
   Put(P, f, v) \in SUBSET Flags /\ ("X" \in Put(P, f, v) <=> "X" \in P)
  BY DEF Put
LEMMA FlagNames == Flags = {"N", "V", "M", "X", "D", "I", "Z", "C"}
  BY DEF Flags, Weight
LEMMA PutNZKeeps == \A P \in SUBSET Flags : \A v, w :
   PutNZ(P, v, w) \in SUBSET Flags /\ ("X" \in PutNZ(P, v, w) <=> "X" \in P)
  BY SelectFlag, FlagNames DEF PutNZ
LEMMA NumberBounds ==
  ASSUME NEW bits
  PROVE  Number(bits) \in Words /\ (bits \subseteq Byte => Number(bits) \in Byte)
<1> DEFINE at(w) == IF w \in bits THEN w ELSE 0
<1> DEFINE low == at(1) + at(2) + at(4) + at(8) + at(16) + at(32) + at(64) + at(128)
<1> DEFINE high == at(256) + at(512) + at(1024) + at(2048) + at(4096) + at(8192) + at(16384) + at(32768)
<1>1. low \in Nat /\ low <= 255
  OBVIOUS
<1>2. high \in Nat /\ high <= 65280
  OBVIOUS
<1>3. bits \subseteq Byte => high = 0
  <2> SUFFICES ASSUME bits \subseteq Byte PROVE high = 0
    OBVIOUS
  <2>1. 256 \notin bits /\ 512 \notin bits /\ 1024 \notin bits /\ 2048 \notin bits
        /\ 4096 \notin bits /\ 8192 \notin bits /\ 16384 \notin bits /\ 32768 \notin bits
    BY DEF Byte
  <2> QED BY <2>1
<1>4. Number(bits) = low + high
  BY DEF Number
<1> HIDE DEF low, high
<1> QED BY <1>1, <1>2, <1>3, <1>4 DEF Words, Byte
LEMMA ByteOfBounds == ASSUME NEW P \in SUBSET Flags PROVE ByteOf(P) \in Byte
<1>1. \A f \in Flags : Weight[f] \in Byte
  BY FlagNames DEF Weight, Byte
<1>2. {Weight[f] : f \in P} \subseteq Byte
  BY <1>1
<1> QED BY <1>2, NumberBounds DEF ByteOf

LEMMA Fields == ASSUME CpuInv
  PROVE  /\ cpu.C \in Words /\ cpu.X \in Words /\ cpu.Y \in Words /\ cpu.S \in Words /\ cpu.D \in Words
         /\ cpu.DBR \in Byte /\ cpu.PBR \in Byte /\ cpu.PC \in Words
         /\ cpu.P \in SUBSET Flags /\ cpu.E \in BOOLEAN
         /\ cpu.E => 256 <= cpu.S /\ cpu.S < 512 /\ cpu.X < 256 /\ cpu.Y < 256
  BY DEF CpuInv, Registers, EmulationFits

Fits(v, width) == v \in Words /\ (width = 8 => v < 256)
Right(e) == (e.at = -1 \/ e.at \in Space) /\ e.next \in Space /\ e.bytes \in Nat

LEMMA Widths == WidthM \in {8, 16} /\ WidthX \in {8, 16}
  BY DEF WidthM, WidthX
LEMMA AFits == ASSUME CpuInv PROVE Fits(A, WidthM)
  BY Fields, Widths DEF A, Span, Fits, Words
LEMMA IndexFits == ASSUME CpuInv, NEW r \in {"X", "Y"} PROVE Fits(Index(r), WidthX)
  BY Fields, Widths DEF Index, Span, Fits, Words
LEMMA WithAWord == ASSUME CpuInv, NEW v \in Words PROVE WithA(v) \in Words
  BY Fields DEF WithA, High, Low, Words
LEMMA AfterWord == ASSUME CpuInv PROVE \A n \in Nat : After(n) \in Words
  BY Fields DEF After, Words
LEMMA OperandWord == ASSUME CpuAssumption, CpuInv PROVE Operand \in Words /\ Operand24 \in Space
<1>1. Operand \in Words
  BY IrBytes, WordOf DEF Operand
<1> QED BY <1>1, IrBytes DEF Operand24, Words, Space, Byte
LEMMA Word16Word == ASSUME CpuAssumption, CpuInv, NEW a \in Space, NEW b \in Space PROVE Word16(a, b) \in Words
  BY RdByte, WordOf DEF Word16
LEMMA PointerWord == ASSUME CpuAssumption, CpuInv, NEW zp \in Byte PROVE Pointer(zp) \in Words
<1>1. zp \in Space /\ (zp + 1) % 256 \in Space
  BY DEF Byte, Space
<1> QED BY <1>1, Word16Word DEF Pointer
LEMMA PlainRight == ASSUME NEW a \in Words, NEW n \in Nat PROVE Right(Plain(a, n)) /\ Plain(a, n).at # -1
  BY DEF Plain, Right, Words, Space
LEMMA IndexedRight == ASSUME CpuInv, NEW base \in Words, NEW reg \in {"X", "Y"}, NEW n \in Nat
  PROVE Right(Indexed(base, reg, n)) /\ Indexed(base, reg, n).at # -1
  BY IndexFits DEF Indexed, Right, Words, Space, Fits
LEMMA FarRight == ASSUME NEW a \in Nat, NEW n \in Nat PROVE Right(Far(a, n)) /\ Far(a, n).at # -1
  BY DEF Far, Right, Space
LEMMA NearRight == ASSUME CpuAssumption, CpuInv, NEW mode \in NearModes, NEW width \in {8, 16}
  PROVE Right(Near(mode, width)) /\ (mode # "imm" => Near(mode, width).at # -1)
<1>1. CASE mode = "imm"
  BY <1>1 DEF Near, Plain, Right, Wide, Space
<1>2. CASE mode \in {"zp", "zpx", "zpy"}
  <2>1. ir[2] \in Words /\ (ir[2] + Low(cpu.X)) % 256 \in Words /\ (ir[2] + Low(cpu.Y)) % 256 \in Words
    BY IrBytes, Fields DEF Byte, Words, Low
  <2> QED BY <1>2, <2>1, PlainRight DEF Near
<1>3. CASE mode \in {"abs", "abx", "aby"}
  BY <1>3, OperandWord, PlainRight, IndexedRight DEF Near
<1>4. CASE mode \in {"izx", "izy"}
  <2>1. ir[2] \in Byte /\ (ir[2] + Low(cpu.X)) % 256 \in Byte
    BY IrBytes, Fields DEF Byte, Words, Low
  <2>2. Pointer(ir[2]) \in Words /\ Pointer((ir[2] + Low(cpu.X)) % 256) \in Words
    BY <2>1, PointerWord
  <2> QED BY <1>4, <2>2, PlainRight, IndexedRight DEF Near
<1> QED BY <1>1, <1>2, <1>3, <1>4 DEF NearModes
LongModes == {"lng", "lnx", "ild", "ily", "idp"}
LEMMA LongRight == ASSUME CpuAssumption, CpuInv, NEW mode \in LongModes
  PROVE Right(Long(mode)) /\ Long(mode).at # -1
<1>1. \A k \in Nat : Direct(k) \in Space
  BY IrBytes, Fields DEF Direct, Space, Byte, Words
<1>2. DirectWord \in Words /\ Rd(Direct(2)) \in Byte
  BY <1>1, Word16Word, RdByte DEF DirectWord
<1>3. DirectLong \in Nat
  BY <1>2 DEF DirectLong, Words, Byte
<1>4. Operand24 \in Nat /\ Operand24 + cpu.X \in Nat /\ DirectLong + cpu.Y \in Nat
      /\ 65536 * cpu.DBR + DirectWord \in Nat
  BY <1>2, <1>3, OperandWord, Fields DEF Words, Space, Byte
<1> QED BY <1>3, <1>4, FarRight DEF LongModes, Long
LEMMA AddressRight == ASSUME CpuAssumption, CpuInv, NEW mode \in NearModes \union LongModes, NEW width \in {8, 16}
  PROVE Right(Address(mode, width)) /\ (mode # "imm" => Address(mode, width).at # -1)
  BY NearRight, LongRight DEF Address
LEMMA FetchedFits == ASSUME CpuAssumption, CpuInv, NEW e, Right(e), NEW width \in {8, 16}
  PROVE Fits(Fetched(e, width), width)
<1> DEFINE lo == IF e.at = -1 THEN ir[2] ELSE Rd(e.at)
<1> DEFINE hi == IF e.at = -1 THEN ir[3] ELSE Rd(e.next)
<1>1. lo \in Byte /\ hi \in Byte
  BY IrBytes, RdByte DEF Right
<1>2. Fetched(e, width) = IF width = 8 THEN lo ELSE Word(lo, hi)
  BY DEF Fetched
<1> HIDE DEF lo, hi
<1>3. Word(lo, hi) \in Words
  BY <1>1, WordOf
<1> QED BY <1>1, <1>2, <1>3 DEF Fits, Byte, Words
LEMMA OverHolds == ASSUME NEW f, NEW g, Holds(f), Holds(g) PROVE Holds(Over(f, g))
  BY DEF Holds, Over
LEMMA CellHolds == ASSUME NEW a, NEW b \in Byte PROVE Holds(Cell(a, b))
  BY DEF Holds, Cell
LEMMA WrittenHolds == ASSUME CpuInv, NEW e, NEW v \in Words, NEW width PROVE Holds(Written(e, v, width))
<1>1. Low(v) \in Byte /\ High(v) \in Byte
  BY LowHigh DEF Words
<1>2. Holds(mem)
  BY DEF CpuInv
<1>3. Holds(Over(Cell(e.at, Low(v)), mem))
  BY <1>1, <1>2, OverHolds, CellHolds
<1>4. Holds(Over(Cell(e.next, High(v)), Over(Cell(e.at, Low(v)), mem)))
  BY <1>1, <1>3, OverHolds, CellHolds
<1> QED BY <1>3, <1>4 DEF Written

(* The steps *)
Flagged(Q) == Q \in SUBSET Flags /\ ("X" \in Q <=> "X" \in cpu.P)
LEMMA SameKept == ASSUME CpuInv PROVE Kept(cpu)
  BY DEF Kept, CpuInv
LEMMA KeptBy ==
  ASSUME CpuInv, NEW c \in Registers, c.E = cpu.E, "X" \in c.P <=> "X" \in cpu.P,
         c.X = cpu.X \/ Fits(c.X, WidthX), c.Y = cpu.Y \/ Fits(c.Y, WidthX),
         c.S = cpu.S \/ (cpu.E => 256 <= c.S /\ c.S < 512)
  PROVE  Kept(c)
<1>1. EmulationFits(cpu)
  BY DEF CpuInv
<1>2. EmulationFits(c)
  BY <1>1 DEF EmulationFits, Fits, WidthX
<1>3. Indexes(cpu) => Indexes(c)
  BY DEF Indexes, Fits, WidthX
<1> QED BY <1>2, <1>3 DEF Kept
LEMMA FlagsKept == ASSUME CpuInv, NEW Q, Flagged(Q) PROVE Kept([cpu EXCEPT !.P = Q])
<1> DEFINE c == [cpu EXCEPT !.P = Q]
<1> SUFFICES Kept(c)
  OBVIOUS
<1>1. c \in Registers /\ c.E = cpu.E /\ c.P = Q /\ c.X = cpu.X /\ c.Y = cpu.Y /\ c.S = cpu.S
  BY DEF CpuInv, Registers, Flagged
<1> HIDE DEF c
<1> QED BY <1>1, KeptBy DEF Flagged
LEMMA LoadedKept == ASSUME CpuInv, NEW v \in Words, NEW Q, Flagged(Q) PROVE Kept([cpu EXCEPT !.C = v, !.P = Q])
<1> DEFINE c == [cpu EXCEPT !.C = v, !.P = Q]
<1> SUFFICES Kept(c)
  OBVIOUS
<1>1. c \in Registers /\ c.E = cpu.E /\ c.P = Q /\ c.X = cpu.X /\ c.Y = cpu.Y /\ c.S = cpu.S
  BY DEF CpuInv, Registers, Flagged
<1> HIDE DEF c
<1> QED BY <1>1, KeptBy DEF Flagged
LEMMA IndexKept == ASSUME CpuInv, NEW reg \in {"X", "Y"}, NEW v, Fits(v, WidthX), NEW Q, Flagged(Q)
  PROVE Kept([cpu EXCEPT ![reg] = v, !.P = Q])
<1> DEFINE c == [cpu EXCEPT ![reg] = v, !.P = Q]
<1> SUFFICES Kept(c)
  OBVIOUS
<1>1. v \in Words
  BY DEF Fits
<1>2. CASE reg = "X"
  <2>1. c \in Registers /\ c.E = cpu.E /\ c.P = Q /\ c.X = v /\ c.Y = cpu.Y /\ c.S = cpu.S
    BY <1>1, <1>2 DEF CpuInv, Registers, Flagged
  <2> HIDE DEF c
  <2> QED BY <2>1, KeptBy DEF Flagged
<1>3. CASE reg = "Y"
  <2>1. c \in Registers /\ c.E = cpu.E /\ c.P = Q /\ c.X = cpu.X /\ c.Y = v /\ c.S = cpu.S
    BY <1>1, <1>3 DEF CpuInv, Registers, Flagged
  <2> HIDE DEF c
  <2> QED BY <2>1, KeptBy DEF Flagged
<1> QED BY <1>2, <1>3
LEMMA NZFlagged == ASSUME CpuInv, NEW v, NEW w PROVE Flagged(PutNZ(cpu.P, v, w))
  BY Fields, PutNZKeeps DEF Flagged
LEMMA AdvanceGood ==
  ASSUME CpuInv, NEW c, NEW n \in Nat, NEW x, Advance(c, n, x), Kept(c) PROVE Good
<1>1. Holds(mem)
  BY DEF CpuInv
<1> QED BY <1>1, AfterWord DEF Advance, Good
LEMMA LoadedAdvance ==
  ASSUME CpuInv, NEW v \in Words, NEW Q, Flagged(Q), NEW n \in Nat, NEW x,
         Advance([cpu EXCEPT !.C = v, !.P = Q], n, x)
  PROVE  Good
  BY LoadedKept, AdvanceGood
LEMMA SkipGood == ASSUME CpuInv, NEW n \in Nat, Skip(n) PROVE Good
  BY AdvanceGood, SameKept DEF Skip
LEMMA DoneGood ==
  ASSUME NEW c, NEW pc, NEW m, NEW x, Done(c, pc, m, x), Kept(c), pc \in Words, Holds(m) PROVE Good
  BY DEF Good
LEMMA SkipsLongGood == ASSUME CpuAssumption, CpuInv, NEW base \in Nat, SkipsLong(base) PROVE Good
<1>1. op - base \in Offsets \ NearOffsets /\ Skip(Long(AluModes[op - base]).bytes)
  BY DEF SkipsLong
<1>2. AluModes[op - base] \in LongModes
  BY <1>1 DEF Offsets, NearOffsets, AluModes, LongModes
<1>3. Long(AluModes[op - base]).bytes \in Nat
  BY <1>2, LongRight DEF Right
<1> QED BY <1>1, <1>3, SkipGood
LEMMA AluRight == ASSUME CpuAssumption, CpuInv, NEW base \in Nat, op - base \in Offsets
  PROVE Right(Alu(base)) /\ Fits(Fetched(Alu(base), WidthM), WidthM)
<1>1. AluModes[op - base] \in NearModes \union LongModes
  BY DEF Offsets, NearOffsets, AluModes, LongModes, NearModes
<1>2. Right(Alu(base))
  BY <1>1, AddressRight, Widths DEF Alu
<1> QED BY <1>2, FetchedFits, Widths

LEMMA LoadAGood == ASSUME CpuAssumption, CpuInv, LoadA PROVE Good
<1>1. CASE SkipsLong(160)
  BY <1>1, SkipsLongGood
<1>2. CASE Decoded(160) /\ LET e == Alu(160)
                              v == Fetched(e, WidthM)
                          IN Advance([cpu EXCEPT !.C = WithA(v), !.P = PutNZ(@, v, WidthM)], e.bytes, Penalty(e, WidthM))
  <2> DEFINE e == Alu(160)
  <2> DEFINE v == Fetched(e, WidthM)
  <2>1. Right(e) /\ Fits(v, WidthM)
    BY <1>2, AluRight DEF Decoded, IsAlu
  <2>2. Kept([cpu EXCEPT !.C = WithA(v), !.P = PutNZ(cpu.P, v, WidthM)])
    BY <2>1, LoadedKept, WithAWord, NZFlagged DEF Fits
  <2>3. Advance([cpu EXCEPT !.C = WithA(v), !.P = PutNZ(cpu.P, v, WidthM)], e.bytes, Penalty(e, WidthM))
    BY <1>2
  <2> HIDE DEF e, v
  <2> QED BY <2>1, <2>2, <2>3, AdvanceGood DEF Right
<1> QED BY <1>1, <1>2 DEF LoadA

LEMMA LoadIndexGood ==
  ASSUME CpuAssumption, CpuInv, NEW reg \in {"X", "Y"}, NEW codes, LoadIndex(reg, codes),
         \A c \in codes : c[2] \in NearModes
  PROVE  Good
<1>1. PICK c \in codes :
        LET e == Address(c[2], WidthX)
            v == Fetched(e, WidthX)
        IN Advance([cpu EXCEPT ![reg] = v, !.P = PutNZ(@, v, WidthX)], e.bytes, Penalty(e, WidthX))
  BY DEF LoadIndex
<1> DEFINE e == Address(c[2], WidthX)
<1> DEFINE v == Fetched(e, WidthX)
<1>2. Right(e) /\ Fits(v, WidthX)
  BY AddressRight, FetchedFits, Widths
<1>3. Kept([cpu EXCEPT ![reg] = v, !.P = PutNZ(cpu.P, v, WidthX)])
  BY <1>2, IndexKept, NZFlagged
<1>4. Advance([cpu EXCEPT ![reg] = v, !.P = PutNZ(cpu.P, v, WidthX)], e.bytes, Penalty(e, WidthX))
  BY <1>1
<1> HIDE DEF e, v
<1> QED BY <1>2, <1>3, <1>4, AdvanceGood DEF Right
LEMMA LoadXYGood == ASSUME CpuAssumption, CpuInv, LoadX \/ LoadY PROVE Good
  BY LoadIndexGood DEF LoadX, LoadY, NearModes

LEMMA StoredGood ==
  ASSUME CpuAssumption, CpuInv, NEW e, Right(e), NEW v \in Words, NEW width, NEW x,
         Done(cpu, After(e.bytes), Written(e, v, width), x)
  PROVE  Good
  BY SameKept, AfterWord, WrittenHolds, DoneGood DEF Right
LEMMA StoreAGood == ASSUME CpuAssumption, CpuInv, StoreA \/ StoreALong PROVE Good
<1>1. CASE SkipsLong(128)
  BY <1>1, SkipsLongGood
<1>2. CASE op - 128 \in Offsets /\ StoredA
  BY <1>2, AluRight, AFits, StoredGood DEF StoredA, Fits
<1> QED BY <1>1, <1>2 DEF StoreA, StoreALong, Offsets
LEMMA StoreIndexGood ==
  ASSUME CpuAssumption, CpuInv, NEW reg \in {"X", "Y"}, NEW codes, StoreIndex(reg, codes),
         \A c \in codes : c[2] \in NearModes
  PROVE  Good
<1>1. PICK c \in codes :
        LET e == Address(c[2], WidthX) IN Done(cpu, After(e.bytes), Written(e, Index(reg), WidthX), Wide(WidthX))
  BY DEF StoreIndex
<1> QED BY <1>1, AddressRight, Widths, IndexFits, StoredGood DEF Fits
LEMMA StoreXYGood == ASSUME CpuAssumption, CpuInv, StoreX \/ StoreY PROVE Good
  BY StoreIndexGood DEF StoreX, StoreY, NearModes
LEMMA StoreZeroGood == ASSUME CpuAssumption, CpuInv, StoreZero PROVE Good
<1>1. PICK c \in {<<\h9C, "abs">>, <<\h9E, "abx">>, <<\h64, "zp">>, <<\h74, "zpx">>} :
        LET e == Address(c[2], WidthM)
        IN \/ Skip(e.bytes)
           \/ Native /\ Done(cpu, After(e.bytes), Written(e, 0, WidthM), Wide(WidthM))
  BY DEF StoreZero
<1> DEFINE e == Address(c[2], WidthM)
<1>2. c[2] \in NearModes
  BY DEF NearModes
<1>3. Right(e)
  BY <1>2, AddressRight, Widths
<1>4. 0 \in Words
  BY DEF Words
<1>5. Skip(e.bytes) \/ Done(cpu, After(e.bytes), Written(e, 0, WidthM), Wide(WidthM))
  BY <1>1
<1> HIDE DEF e
<1> QED BY <1>3, <1>4, <1>5, SkipGood, StoredGood DEF Right

(* Arithmetic *)
LEMMA FlaggedSame == ASSUME CpuInv PROVE Flagged(cpu.P)
  BY Fields DEF Flagged
LEMMA FlaggedPut == ASSUME NEW Q, Flagged(Q), NEW f \in Flags \ {"X"}, NEW v PROVE Flagged(Put(Q, f, v))
  BY SelectFlag DEF Flagged
LEMMA FlaggedNZ == ASSUME NEW Q, Flagged(Q), NEW v, NEW w PROVE Flagged(PutNZ(Q, v, w))
  BY PutNZKeeps DEF Flagged
LEMMA CarryBit == \A P : Carry(P) \in {0, 1}
  BY DEF Carry
LEMMA BinaryGood ==
  ASSUME CpuInv, NEW width \in {8, 16}, NEW a, NEW v, Fits(a, width), Fits(v, width)
  PROVE  /\ Fits(BinaryAdd(a, v, cpu.P, width).v, width) /\ Flagged(BinaryAdd(a, v, cpu.P, width).P)
         /\ Fits(BinarySub(a, v, cpu.P, width).v, width) /\ Flagged(BinarySub(a, v, cpu.P, width).P)
<1>1. Carry(cpu.P) \in {0, 1}
  BY CarryBit
<1>2. Fits(BinaryAdd(a, v, cpu.P, width).v, width)
  BY <1>1 DEF BinaryAdd, Fits, Span, Words
<1>3. Fits(BinarySub(a, v, cpu.P, width).v, width)
  BY <1>1 DEF BinarySub, Fits, Span, Words
<1>4. Flagged(BinaryAdd(a, v, cpu.P, width).P)
  BY FlaggedSame, FlaggedPut, FlaggedNZ, FlagNames DEF BinaryAdd
<1>5. Flagged(BinarySub(a, v, cpu.P, width).P)
  BY FlaggedSame, FlaggedPut, FlaggedNZ, FlagNames DEF BinarySub
<1> QED BY <1>2, <1>3, <1>4, <1>5
LEMMA DecimalGood ==
  ASSUME CpuInv, NEW a \in Byte, NEW v \in Byte
  PROVE  /\ DecimalAdd(a, v, cpu.P).v \in Byte /\ Flagged(DecimalAdd(a, v, cpu.P).P)
         /\ DecimalSub(a, v, cpu.P).v \in Byte /\ Flagged(DecimalSub(a, v, cpu.P).P)
<1>1. Carry(cpu.P) \in {0, 1}
  BY CarryBit
<1>2. DecimalAdd(a, v, cpu.P).v \in Byte
  BY <1>1 DEF DecimalAdd, Byte
<1>3. DecimalSub(a, v, cpu.P).v \in Byte
  BY <1>1 DEF DecimalSub, Byte
<1>4. Flagged(DecimalAdd(a, v, cpu.P).P)
  BY FlaggedSame, FlaggedPut, FlagNames DEF DecimalAdd
<1>5. Flagged(DecimalSub(a, v, cpu.P).P)
  BY FlaggedSame, FlaggedPut, FlagNames DEF DecimalSub
<1> QED BY <1>2, <1>3, <1>4, <1>5
LEMMA LowC == ASSUME CpuInv PROVE Low(cpu.C) \in Byte /\ High(cpu.C) \in Byte /\ A \in Words
  BY Fields, LowHigh, AFits DEF Words, Fits
LEMMA AddSubGood == ASSUME CpuAssumption, CpuInv, AddSub PROVE Good
<1>1. PICK base \in {96, 224} :
    \/ SkipsLong(base)
    \/ /\ Decoded(base)
       /\ LET e == Alu(base)
              v == Fetched(e, WidthM)
              r == IF "D" \in cpu.P
                     THEN IF base = 96 THEN DecimalAdd(Low(cpu.C), Low(v), cpu.P)
                                       ELSE DecimalSub(Low(cpu.C), Low(v), cpu.P)
                     ELSE IF base = 96 THEN BinaryAdd(A, v, cpu.P, WidthM)
                                       ELSE BinarySub(A, v, cpu.P, WidthM)
              c == IF "D" \in cpu.P THEN 256 * High(cpu.C) + r.v ELSE WithA(r.v)
          IN Advance([cpu EXCEPT !.C = c, !.P = r.P], e.bytes, Penalty(e, WidthM))
  BY DEF AddSub
<1>2. CASE SkipsLong(base)
  BY <1>2, SkipsLongGood
<1>3. CASE ~SkipsLong(base)
  <2> DEFINE e == Alu(base)
  <2> DEFINE v == Fetched(e, WidthM)
  <2> DEFINE r == IF "D" \in cpu.P
                     THEN IF base = 96 THEN DecimalAdd(Low(cpu.C), Low(v), cpu.P)
                                       ELSE DecimalSub(Low(cpu.C), Low(v), cpu.P)
                     ELSE IF base = 96 THEN BinaryAdd(A, v, cpu.P, WidthM)
                                       ELSE BinarySub(A, v, cpu.P, WidthM)
  <2> DEFINE c == IF "D" \in cpu.P THEN 256 * High(cpu.C) + r.v ELSE WithA(r.v)
  <2>1. Advance([cpu EXCEPT !.C = c, !.P = r.P], e.bytes, Penalty(e, WidthM)) /\ op - base \in Offsets
    BY <1>1, <1>3 DEF Decoded, IsAlu
  <2>2. Right(e) /\ Fits(v, WidthM)
    BY <2>1, AluRight
  <2> HIDE DEF e, v
  <2>3. Low(v) \in Byte
    BY <2>2, LowHigh DEF Fits, Words
  <2>4. Flagged(r.P) /\ r.v \in Words /\ ("D" \in cpu.P => r.v \in Byte)
    <3>1. CASE "D" \in cpu.P
      <4> DEFINE p == DecimalAdd(Low(cpu.C), Low(v), cpu.P)
      <4> DEFINE q == DecimalSub(Low(cpu.C), Low(v), cpu.P)
      <4>1. r = p \/ r = q
        BY <3>1
      <4>2. Flagged(p.P) /\ p.v \in Byte /\ Flagged(q.P) /\ q.v \in Byte
        BY <2>3, DecimalGood, LowC
      <4> HIDE DEF p, q
      <4>3. \A b \in Byte : b \in Words
        BY Spaces
      <4>4. CASE r = p
        <5>1. Flagged(r.P) /\ r.v \in Byte
          BY <4>2, <4>4
        <5> HIDE DEF r
        <5> QED BY <5>1, <4>3
      <4>5. CASE r = q
        <5>1. Flagged(r.P) /\ r.v \in Byte
          BY <4>2, <4>5
        <5> HIDE DEF r
        <5> QED BY <5>1, <4>3
      <4> HIDE DEF r
      <4> QED BY <4>1, <4>4, <4>5
    <3>2. CASE "D" \notin cpu.P
      <4> DEFINE p == BinaryAdd(A, v, cpu.P, WidthM)
      <4> DEFINE q == BinarySub(A, v, cpu.P, WidthM)
      <4>1. r = p \/ r = q
        BY <3>2
      <4>2. Flagged(p.P) /\ Fits(p.v, WidthM) /\ Flagged(q.P) /\ Fits(q.v, WidthM)
        <5>1. Fits(A, WidthM) /\ WidthM \in {8, 16}
          BY AFits, Widths
        <5> QED BY <2>2, <5>1, BinaryGood
      <4> HIDE DEF p, q, r
      <4> QED BY <3>2, <4>1, <4>2 DEF Fits
    <3> QED BY <3>1, <3>2
  <2> HIDE DEF r
  <2>5. c \in Words
    BY <2>4, LowC, WithAWord DEF Byte, Words
  <2> HIDE DEF c
  <2> DEFINE Q == r.P
  <2> DEFINE n == e.bytes
  <2>7. Advance([cpu EXCEPT !.C = c, !.P = Q], n, Penalty(e, WidthM)) /\ Flagged(Q) /\ n \in Nat
    BY <2>1, <2>2, <2>4 DEF Right
  <2> HIDE DEF Q, n
  <2> QED BY <2>5, <2>7, LoadedAdvance
<1> QED BY <1>2, <1>3
LEMMA ExchangeGood == ASSUME CpuAssumption, CpuInv, Exchange PROVE Good
<1>1. CASE cpu.E
  <2> DEFINE r == IF "D" \in cpu.P THEN DecimalSub(A, ir[2], cpu.P) ELSE BinarySub(A, ir[2], cpu.P, 8)
  <2>1. Advance([cpu EXCEPT !.C = WithA(r.v), !.P = r.P], 1, 0)
    BY <1>1 DEF Exchange, Native
  <2>2. A \in Byte /\ ir[2] \in Byte
    BY <1>1, AFits, IrBytes DEF Fits, WidthM, Byte, Words
  <2>3. Fits(A, 8) /\ Fits(ir[2], 8)
    BY <2>2 DEF Fits, Byte, Words
  <2>4. Flagged(r.P) /\ r.v \in Words
    BY <2>2, <2>3, DecimalGood, BinaryGood, Spaces DEF Fits
  <2> HIDE DEF r
  <2> QED BY <2>1, <2>4, LoadedKept, WithAWord, AdvanceGood
<1>2. CASE Native
  <2>1. Advance([cpu EXCEPT !.C = Word(High(cpu.C), Low(cpu.C)), !.P = PutNZ(cpu.P, High(cpu.C), 8)], 0, 0)
    BY <1>2 DEF Exchange, Native
  <2>2. Word(High(cpu.C), Low(cpu.C)) \in Words
    BY LowC, WordOf
  <2> QED BY <2>1, <2>2, LoadedKept, NZFlagged, AdvanceGood
<1> QED BY <1>1, <1>2 DEF Native

LEMMA BitsFit == ASSUME NEW a, NEW width \in {8, 16}, Fits(a, width), width = 8 PROVE BitsOf(a) \subseteq Byte
<1> SUFFICES ASSUME NEW w \in BitsOf(a), w \notin Byte PROVE FALSE
  OBVIOUS
<1>1. w \in {256, 512, 1024, 2048, 4096, 8192, 16384, 32768}
  BY DEF BitsOf, Weights, Byte
<1>2. (a \div w) % 2 = 1
  BY DEF BitsOf
<1>3. a \in Nat /\ a < 256
  BY DEF Fits, Words
<1>4. a \div w = 0
  BY <1>1, <1>3
<1> QED BY <1>2, <1>4
LEMMA LogicFits ==
  ASSUME NEW a, NEW b, NEW width \in {8, 16}, Fits(a, width), Fits(b, width)
  PROVE  Fits(Or(a, b), width) /\ Fits(And(a, b), width) /\ Fits(Xor(a, b), width)
<1>1. CASE width = 8
  <2>1. BitsOf(a) \subseteq Byte /\ BitsOf(b) \subseteq Byte
    BY <1>1, BitsFit
  <2> QED BY <2>1, NumberBounds, Spaces DEF Or, And, Xor, Fits, Byte
<1>2. CASE width = 16
  BY <1>2, NumberBounds DEF Or, And, Xor, Fits
<1> QED BY <1>1, <1>2
LEMMA LogicGood == ASSUME CpuAssumption, CpuInv, Logic PROVE Good
<1>1. PICK base \in {0, 32, 64} :
    \/ SkipsLong(base)
    \/ /\ Decoded(base)
       /\ LET e == Alu(base)
              v == Fetched(e, WidthM)
              r == CASE base = 0 -> Or(A, v) [] base = 32 -> And(A, v) [] OTHER -> Xor(A, v)
          IN Advance([cpu EXCEPT !.C = WithA(r), !.P = PutNZ(@, r, WidthM)], e.bytes, Penalty(e, WidthM))
  BY DEF Logic
<1>2. CASE SkipsLong(base)
  BY <1>2, SkipsLongGood
<1>3. CASE ~SkipsLong(base)
  <2> DEFINE e == Alu(base)
  <2> DEFINE v == Fetched(e, WidthM)
  <2> DEFINE r == CASE base = 0 -> Or(A, v) [] base = 32 -> And(A, v) [] OTHER -> Xor(A, v)
  <2>1. Advance([cpu EXCEPT !.C = WithA(r), !.P = PutNZ(cpu.P, r, WidthM)], e.bytes, Penalty(e, WidthM))
        /\ op - base \in Offsets
    BY <1>1, <1>3 DEF Decoded, IsAlu
  <2>2. Right(e) /\ Fits(v, WidthM)
    BY <2>1, AluRight
  <2> HIDE DEF e, v
  <2>3. r \in Words
    BY <2>2, LogicFits, AFits, Widths DEF Fits
  <2> HIDE DEF r
  <2> QED BY <2>1, <2>2, <2>3, LoadedKept, WithAWord, NZFlagged, AdvanceGood DEF Right
<1> QED BY <1>2, <1>3

LEMMA ComparedFlagged == ASSUME CpuInv, NEW v, NEW w, NEW width PROVE Flagged(Compared(v, w, width))
  BY FlaggedSame, FlaggedPut, FlaggedNZ, FlagNames DEF Compared
LEMMA CompareAGood == ASSUME CpuAssumption, CpuInv, CompareA PROVE Good
<1>1. CASE SkipsLong(192)
  BY <1>1, SkipsLongGood
<1>2. CASE ~SkipsLong(192)
  <2> DEFINE e == Alu(192)
  <2>1. Advance([cpu EXCEPT !.P = Compared(A, Fetched(e, WidthM), WidthM)], e.bytes, Penalty(e, WidthM))
        /\ op - 192 \in Offsets
    BY <1>2 DEF CompareA, Decoded, IsAlu
  <2>2. Right(e)
    BY <2>1, AluRight
  <2> HIDE DEF e
  <2> QED BY <2>1, <2>2, ComparedFlagged, FlagsKept, AdvanceGood DEF Right
<1> QED BY <1>1, <1>2
LEMMA CompareIndexGood == ASSUME CpuAssumption, CpuInv, CompareIndex PROVE Good
<1>1. PICK reg \in {"X", "Y"}, c \in {<<0, "imm">>, <<4, "zp">>, <<12, "abs">>} :
        LET e == Address(c[2], WidthX)
        IN Advance([cpu EXCEPT !.P = Compared(Index(reg), Fetched(e, WidthX), WidthX)], e.bytes, Penalty(e, WidthX))
  BY DEF CompareIndex
<1>2. c[2] \in NearModes
  BY DEF NearModes
<1>3. Right(Address(c[2], WidthX))
  BY <1>2, AddressRight, Widths
<1> QED BY <1>1, <1>3, ComparedFlagged, FlagsKept, AdvanceGood DEF Right
LEMMA BitTestGood == ASSUME CpuAssumption, CpuInv, BitTest PROVE Good
<1> DEFINE e == Address(IF op = \h24 THEN "zp" ELSE "abs", WidthM)
<1> DEFINE v == Fetched(e, WidthM)
<1> DEFINE second == (v \div (Span(WidthM) \div 4)) % 2 = 1
<1> DEFINE Q == Put(Put(Put(cpu.P, "Z", And(A, v) = 0), "V", second), "N", Top(v, WidthM))
<1>1. Advance([cpu EXCEPT !.P = Q], e.bytes, Wide(WidthM))
  BY DEF BitTest
<1>2. Right(e)
  BY AddressRight, Widths DEF NearModes
<1>3. Flagged(Q)
  BY FlaggedSame, FlaggedPut, FlagNames
<1> HIDE DEF e, Q
<1> QED BY <1>1, <1>2, <1>3, FlagsKept, AdvanceGood DEF Right

LEMMA ShiftedFits ==
  ASSUME CpuInv, NEW kind, NEW v, NEW width \in {8, 16}, Fits(v, width)
  PROVE  /\ Fits(Shifted(kind, v, width).v, width)
         /\ Flagged(Shifted(kind, v, width).P)
<1>1. Carry(cpu.P) \in {0, 1}
  BY CarryBit
<1>2. Fits(Shifted(kind, v, width).v, width)
  <2>1. CASE width = 8
    BY <1>1, <2>1 DEF Shifted, Fits, Span, Words
  <2>2. CASE width = 16
    BY <1>1, <2>2 DEF Shifted, Fits, Span, Words
  <2> QED BY <2>1, <2>2
<1>3. Flagged(Shifted(kind, v, width).P)
  BY FlaggedSame, FlaggedPut, FlaggedNZ, FlagNames DEF Shifted
<1> QED BY <1>2, <1>3
LEMMA ShiftAGood == ASSUME CpuAssumption, CpuInv, ShiftA PROVE Good
<1>1. PICK kind \in {0, 32, 64, 96} :
        LET s == Shifted(kind, A, WidthM) IN Advance([cpu EXCEPT !.C = WithA(s.v), !.P = s.P], 0, 0)
  BY DEF ShiftA
<1> DEFINE s == Shifted(kind, A, WidthM)
<1>2. Advance([cpu EXCEPT !.C = WithA(s.v), !.P = s.P], 0, 0)
  BY <1>1
<1>3. Fits(A, WidthM) /\ WidthM \in {8, 16}
  BY AFits, Widths
<1>4. Fits(s.v, WidthM) /\ Flagged(s.P)
  <2> DEFINE w == WidthM
  <2> DEFINE a == A
  <2>1. w \in {8, 16} /\ Fits(a, w) /\ s = Shifted(kind, a, w)
    BY <1>3
  <2> SUFFICES Fits(s.v, w) /\ Flagged(s.P)
    OBVIOUS
  <2> HIDE DEF w, a, s
  <2>2. Fits(Shifted(kind, a, w).v, w) /\ Flagged(Shifted(kind, a, w).P)
    <3>1. CASE w = 8
      BY <2>1, <3>1, ShiftedFits
    <3>2. CASE w = 16
      BY <2>1, <3>2, ShiftedFits
    <3> QED BY <2>1, <3>1, <3>2
  <2> QED BY <2>1, <2>2
<1>5. s.v \in Words
  BY <1>4 DEF Fits
<1> DEFINE v == WithA(s.v)
<1> DEFINE Q == s.P
<1>6. v \in Words /\ Flagged(Q) /\ Advance([cpu EXCEPT !.C = v, !.P = Q], 0, 0)
  BY <1>2, <1>4, <1>5, WithAWord
<1> HIDE DEF v, Q
<1> QED BY <1>6, LoadedAdvance
LEMMA ModifiedGood ==
  ASSUME CpuAssumption, CpuInv, NEW e, Right(e), e.at # -1, NEW v \in Byte, NEW Q, Flagged(Q),
         Done([cpu EXCEPT !.P = Q], After(e.bytes), Written(e, v, 8), 0)
  PROVE  Good
  BY FlagsKept, AfterWord, WrittenHolds, DoneGood, Spaces DEF Right
LEMMA ModifyRight == ASSUME CpuAssumption, CpuInv, NEW base \in Nat, op - base \in DOMAIN ShiftModes
  PROVE LET e == Address(ShiftModes[op - base], 8) IN Right(e) /\ e.at # -1 /\ Rd(e.at) \in Byte
<1>1. ShiftModes[op - base] \in NearModes \ {"imm"}
  BY DEF ShiftModes, NearModes
<1>2. Right(Address(ShiftModes[op - base], 8)) /\ Address(ShiftModes[op - base], 8).at # -1
  BY <1>1, AddressRight
<1> QED BY <1>2, RdByte DEF Right
LEMMA ByteFits == \A v \in Byte : Fits(v, 8)
  BY DEF Byte, Fits, Words
LEMMA FitsByte == \A v : Fits(v, 8) => v \in Byte
  BY DEF Byte, Fits, Words
LEMMA ShiftMemGood == ASSUME CpuAssumption, CpuInv, ShiftMem PROVE Good
<1>1. PICK kind \in {0, 32, 64, 96} :
        /\ op - kind \in DOMAIN ShiftModes
        /\ LET e == Address(ShiftModes[op - kind], 8)
               s == Shifted(kind, Rd(e.at), 8)
           IN Done([cpu EXCEPT !.P = s.P], After(e.bytes), Written(e, s.v, 8), 0)
  BY DEF ShiftMem, Modify
<1> DEFINE e == Address(ShiftModes[op - kind], 8)
<1> DEFINE s == Shifted(kind, Rd(e.at), 8)
<1>2. Done([cpu EXCEPT !.P = s.P], After(e.bytes), Written(e, s.v, 8), 0)
  BY <1>1
<1>3. Right(e) /\ e.at # -1 /\ Rd(e.at) \in Byte
  BY <1>1, ModifyRight
<1> HIDE DEF e
<1>4. s.v \in Byte /\ Flagged(s.P)
  <2>1. Fits(Rd(e.at), 8)
    BY <1>3, ByteFits
  <2>2. Fits(s.v, 8) /\ Flagged(s.P)
    BY <2>1, ShiftedFits
  <2> QED BY <2>2, FitsByte
<1> HIDE DEF s
<1> QED BY <1>2, <1>3, <1>4, ModifiedGood
LEMMA CountMemGood == ASSUME CpuAssumption, CpuInv, IncMem \/ DecMem PROVE Good
<1>1. PICK base \in {224, 192}, k \in {1, 255} :
        /\ op - base \in DOMAIN ShiftModes
        /\ LET e == Address(ShiftModes[op - base], 8)
               v == (Rd(e.at) + k) % 256
           IN Done([cpu EXCEPT !.P = PutNZ(cpu.P, v, 8)], After(e.bytes), Written(e, v, 8), 0)
  BY DEF IncMem, DecMem, Modify, Counted
<1> DEFINE e == Address(ShiftModes[op - base], 8)
<1> DEFINE v == (Rd(e.at) + k) % 256
<1>2. Done([cpu EXCEPT !.P = PutNZ(cpu.P, v, 8)], After(e.bytes), Written(e, v, 8), 0)
  BY <1>1
<1>3. Right(e) /\ e.at # -1 /\ Rd(e.at) \in Byte
  BY <1>1, ModifyRight
<1> HIDE DEF e
<1>4. v \in Byte
  BY <1>3 DEF Byte
<1> HIDE DEF v
<1> QED BY <1>2, <1>3, <1>4, NZFlagged, ModifiedGood
LEMMA CountAGood == ASSUME CpuAssumption, CpuInv, CountA PROVE Good
<1>1. CASE Skip(0)
  BY <1>1, SkipGood
<1>2. CASE ~Skip(0)
  <2> DEFINE r == (A + (IF op = \h1A THEN 1 ELSE Span(WidthM) - 1)) % Span(WidthM)
  <2>1. Advance([cpu EXCEPT !.C = WithA(r), !.P = PutNZ(cpu.P, r, WidthM)], 0, 0)
    BY <1>2 DEF CountA
  <2>2. r \in Words
    BY LowC, Widths DEF Span, Words
  <2> HIDE DEF r
  <2> QED BY <2>1, <2>2, WithAWord, LoadedKept, NZFlagged, AdvanceGood
<1> QED BY <1>1, <1>2
LEMMA CountIndexGood == ASSUME CpuAssumption, CpuInv, CountIndex PROVE Good
<1>1. PICK i \in {<<\hE8, "X", 1>>, <<\hC8, "Y", 1>>, <<\hCA, "X", -1>>, <<\h88, "Y", -1>>} :
        LET r == (Index(i[2]) + Span(WidthX) + i[3]) % Span(WidthX)
        IN Advance([cpu EXCEPT ![i[2]] = r, !.P = PutNZ(@, r, WidthX)], 0, 0)
  BY ZenonT(60) DEF CountIndex
<1> DEFINE r == (Index(i[2]) + Span(WidthX) + i[3]) % Span(WidthX)
<1>2. Advance([cpu EXCEPT ![i[2]] = r, !.P = PutNZ(cpu.P, r, WidthX)], 0, 0)
  BY <1>1
<1>3. i[2] \in {"X", "Y"} /\ i[3] \in Int
  OBVIOUS
<1>4. Index(i[2]) \in Nat
  BY <1>3, IndexFits DEF Fits, Words
<1>5. Fits(r, WidthX)
  BY <1>3, <1>4, Widths DEF Fits, Span, Words
<1> HIDE DEF r
<1> QED BY <1>2, <1>3, <1>5, IndexKept, NZFlagged, AdvanceGood

(* Transfers *)
LEMMA IndexAdvance ==
  ASSUME CpuInv, NEW reg \in {"X", "Y"}, NEW v, Fits(v, WidthX),
         Advance([cpu EXCEPT ![reg] = v, !.P = PutNZ(cpu.P, v, WidthX)], 0, 0)
  PROVE  Good
  BY IndexKept, NZFlagged, AdvanceGood
LEMMA TransferIndexGood == ASSUME CpuAssumption, CpuInv, TransferIndex PROVE Good
<1> DEFINE Change(t) == LET v == t[3] % Span(WidthX)
                        IN Advance([cpu EXCEPT ![t[2]] = v, !.P = PutNZ(@, v, WidthX)], 0, 0)
<1>a. \E t \in {<<\hAA, "X", cpu.C>>, <<\hA8, "Y", cpu.C>>, <<\h9B, "Y", Index("X")>>, <<\hBB, "X", Index("Y")>>,
            <<\hBA, "X", IF WidthX = 8 THEN Low(cpu.S) ELSE cpu.S>>} : op = t[1] /\ Change(t)
  BY ZenonT(60) DEF TransferIndex
<1> HIDE DEF Change
<1>1. PICK t \in {<<\hAA, "X", cpu.C>>, <<\hA8, "Y", cpu.C>>, <<\h9B, "Y", Index("X")>>, <<\hBB, "X", Index("Y")>>,
            <<\hBA, "X", IF WidthX = 8 THEN Low(cpu.S) ELSE cpu.S>>} : Change(t)
  BY <1>a
<1>2. cpu.C \in Words /\ Index("X") \in Words /\ Index("Y") \in Words
      /\ (IF WidthX = 8 THEN Low(cpu.S) ELSE cpu.S) \in Words
  <2>1. cpu.S \in Words /\ cpu.C \in Words
    BY Fields
  <2>2. Low(cpu.S) \in Words
    BY <2>1 DEF Low, Words
  <2>3. Index("X") \in Words /\ Index("Y") \in Words
    BY IndexFits DEF Fits
  <2> QED BY <2>1, <2>2, <2>3
<1>3. t[2] \in {"X", "Y"} /\ t[3] \in Words
  BY <1>2
<1> DEFINE v == t[3] % Span(WidthX)
<1>4. Advance([cpu EXCEPT ![t[2]] = v, !.P = PutNZ(cpu.P, v, WidthX)], 0, 0)
  BY <1>1 DEF Change
<1>5. Fits(v, WidthX)
  BY <1>3, Widths DEF Fits, Words, Span
<1> HIDE DEF v
<1> QED BY <1>3, <1>4, <1>5, IndexAdvance
LEMMA TransferAGood == ASSUME CpuAssumption, CpuInv, TransferA PROVE Good
<1>1. PICK t \in {<<\h8A, "X">>, <<\h98, "Y">>} :
         LET v == cpu[t[2]] % Span(WidthM)
         IN Advance([cpu EXCEPT !.C = WithA(v), !.P = PutNZ(@, v, WidthM)], 0, 0)
  BY DEF TransferA
<1> DEFINE v == cpu[t[2]] % Span(WidthM)
<1>2. v \in Words
  <2>1. cpu[t[2]] \in Words
    BY Fields
  <2> QED BY <2>1, Widths DEF Words, Span
<1>3. Advance([cpu EXCEPT !.C = WithA(v), !.P = PutNZ(cpu.P, v, WidthM)], 0, 0)
  BY <1>1
<1> HIDE DEF v
<1> QED BY <1>2, <1>3, WithAWord, NZFlagged, LoadedAdvance
LEMMA DirectKept == ASSUME CpuInv, NEW v \in Words, NEW Q, Flagged(Q) PROVE Kept([cpu EXCEPT !.D = v, !.P = Q])
<1> DEFINE c == [cpu EXCEPT !.D = v, !.P = Q]
<1> SUFFICES Kept(c)
  OBVIOUS
<1>1. c \in Registers /\ c.E = cpu.E /\ c.P = Q /\ c.X = cpu.X /\ c.Y = cpu.Y /\ c.S = cpu.S
  BY DEF CpuInv, Registers, Flagged
<1> HIDE DEF c
<1> QED BY <1>1, KeptBy DEF Flagged
LEMMA TransferWordGood == ASSUME CpuAssumption, CpuInv, TransferWord PROVE Good
<1>0. PICK t \in {<<\h5B, "D", "C">>, <<\h7B, "C", "D">>, <<\h3B, "C", "S">>} :
         Advance([cpu EXCEPT ![t[2]] = cpu[t[3]], !.P = PutNZ(cpu.P, cpu[t[3]], 16)], 0, 0)
  BY DEF TransferWord
<1>1. CASE Advance([cpu EXCEPT !.D = cpu.C, !.P = PutNZ(cpu.P, cpu.C, 16)], 0, 0)
  BY <1>1, Fields, NZFlagged, DirectKept, AdvanceGood
<1>2. CASE Advance([cpu EXCEPT !.C = cpu.D, !.P = PutNZ(cpu.P, cpu.D, 16)], 0, 0)
  BY <1>2, Fields, NZFlagged, LoadedKept, AdvanceGood
<1>3. CASE Advance([cpu EXCEPT !.C = cpu.S, !.P = PutNZ(cpu.P, cpu.S, 16)], 0, 0)
  BY <1>3, Fields, NZFlagged, LoadedKept, AdvanceGood
<1>4. CASE t = <<\h5B, "D", "C">>
  BY <1>0, <1>1, <1>4
<1>5. CASE t = <<\h7B, "C", "D">>
  BY <1>0, <1>2, <1>5
<1>6. CASE t = <<\h3B, "C", "S">>
  BY <1>0, <1>3, <1>6
<1> QED BY <1>4, <1>5, <1>6

StackFits(s) == s \in Words /\ (cpu.E => 256 <= s /\ s < 512)
LEMMA StackKept == ASSUME CpuInv, NEW s, StackFits(s) PROVE Kept([cpu EXCEPT !.S = s])
<1> DEFINE c == [cpu EXCEPT !.S = s]
<1> SUFFICES Kept(c)
  OBVIOUS
<1>1. c \in Registers /\ c.E = cpu.E /\ c.P = cpu.P /\ c.X = cpu.X /\ c.Y = cpu.Y /\ c.S = s
  BY DEF CpuInv, Registers, StackFits
<1> HIDE DEF c
<1> QED BY <1>1, KeptBy DEF StackFits
LEMMA TransferStackGood == ASSUME CpuAssumption, CpuInv, TransferStack PROVE Good
<1> DEFINE v == IF op = \h9A THEN Index("X") ELSE cpu.C
<1> DEFINE s == IF cpu.E THEN 256 + Low(v) ELSE v
<1>1. Advance([cpu EXCEPT !.S = s], 0, 0)
  BY DEF TransferStack
<1>2. v \in Words
  BY Fields, IndexFits DEF Fits
<1> HIDE DEF v
<1>3. StackFits(s)
  BY <1>2 DEF StackFits, Low, Words
<1> HIDE DEF s
<1> QED BY <1>1, <1>3, StackKept, AdvanceGood

(* The stack *)
LEMMA BelowFits == ASSUME CpuInv PROVE \A k \in Nat : StackFits(Below(k))
  BY Fields DEF StackFits, Below, Down, Words
LEMMA AboveFits == ASSUME CpuInv PROVE \A k \in Nat : StackFits(Above(k))
  BY Fields DEF StackFits, Above, Words
LEMMA DroppedIs == \A k \in Nat : Dropped(k) = [cpu EXCEPT !.S = Below(k)]
  BY DEF Dropped, Below
LEMMA OntoHolds == ASSUME CpuInv, NEW bytes, \A k \in DOMAIN bytes : bytes[k] \in Byte PROVE Holds(Onto(bytes))
<1> DEFINE at(a) == CHOOSE k \in DOMAIN bytes : a = Below(k - 1)
<1> DEFINE f == [a \in {Below(k - 1) : k \in DOMAIN bytes} |-> bytes[at(a)]]
<1>1. \A a \in {Below(k - 1) : k \in DOMAIN bytes} : at(a) \in DOMAIN bytes
  OBVIOUS
<1>2. Holds(f)
  BY <1>1 DEF Holds
<1>3. Holds(mem)
  BY DEF CpuInv
<1>4. Onto(bytes) = Over(f, mem)
  BY DEF Onto
<1> HIDE DEF f
<1> QED BY <1>2, <1>3, <1>4, OverHolds
LEMMA PushingGood ==
  ASSUME CpuInv, NEW n \in Nat, NEW bytes, \A k \in DOMAIN bytes : bytes[k] \in Byte,
         NEW pc \in Words, NEW x, Done(Dropped(n), pc, Onto(bytes), x)
  PROVE  Good
<1>1. Kept(Dropped(n))
  BY DroppedIs, BelowFits, StackKept
<1> QED BY <1>1, OntoHolds, DoneGood
LEMMA WordBytes == ASSUME NEW v \in Words
  PROVE Len(PushWord(v)) = 2 /\ DOMAIN PushWord(v) = {1, 2} /\ \A k \in DOMAIN PushWord(v) : PushWord(v)[k] \in Byte
<1>1. Low(v) \in Byte /\ High(v) \in Byte
  BY LowHigh DEF Words
<1> QED BY <1>1 DEF PushWord
LEMMA AtWidthBytes == ASSUME NEW v \in Words, NEW w \in {8, 16}
  PROVE Len(AtWidth(v, w)) \in Nat /\ \A k \in DOMAIN AtWidth(v, w) : AtWidth(v, w)[k] \in Byte
<1>1. Low(v) \in Byte
  BY LowHigh DEF Words
<1>2. CASE w = 8
  BY <1>1, <1>2 DEF AtWidth
<1>3. CASE w = 16
  BY <1>3, WordBytes DEF AtWidth
<1> QED BY <1>2, <1>3
LEMMA PushedPByte == ASSUME CpuInv PROVE PushedP \in Byte /\ MaskedP \in Byte
  BY Fields, FlagNames, ByteOfBounds DEF PushedP, MaskedP
LEMMA PushAGood == ASSUME CpuAssumption, CpuInv, PushA PROVE Good
<1> DEFINE n == IF WidthM = 8 THEN 1 ELSE 2
<1> DEFINE bytes == AtWidth(A, WidthM)
<1>1. n \in Nat /\ Done(Dropped(n), After(0), Onto(bytes), Wide(WidthM))
  BY DEF PushA
<1>2. \A k \in DOMAIN bytes : bytes[k] \in Byte
  BY LowC, Widths, AtWidthBytes
<1> HIDE DEF n, bytes
<1> QED BY <1>1, <1>2, PushingGood, AfterWord
LEMMA PushPGood == ASSUME CpuAssumption, CpuInv, PushP PROVE Good
<1> DEFINE bytes == <<PushedP>>
<1>1. Len(bytes) \in Nat /\ \A k \in DOMAIN bytes : bytes[k] \in Byte
  BY PushedPByte
<1>2. Done(Dropped(Len(bytes)), After(0), Onto(bytes), 0)
  BY DEF PushP, Pushing
<1> HIDE DEF bytes
<1> QED BY <1>1, <1>2, PushingGood, AfterWord
LEMMA PushIndexGood == ASSUME CpuAssumption, CpuInv, PushIndex PROVE Good
<1>1. PICK reg \in {"X", "Y"} : Skip(0) \/ Pushing(AtWidth(Index(reg), WidthX), 0)
  BY DEF PushIndex
<1>2. CASE Skip(0)
  BY <1>2, SkipGood
<1>3. CASE Pushing(AtWidth(Index(reg), WidthX), 0)
  <2> DEFINE bytes == AtWidth(Index(reg), WidthX)
  <2>1. Len(bytes) \in Nat /\ \A k \in DOMAIN bytes : bytes[k] \in Byte
    BY IndexFits, Widths, AtWidthBytes DEF Fits
  <2>2. Done(Dropped(Len(bytes)), After(0), Onto(bytes), 0)
    BY <1>3 DEF Pushing
  <2> HIDE DEF bytes
  <2> QED BY <2>1, <2>2, PushingGood, AfterWord
<1> QED BY <1>1, <1>2, <1>3
LEMMA PushBankGood == ASSUME CpuAssumption, CpuInv, PushBank PROVE Good
<1>1. PICK reg \in {"DBR", "PBR"} : Skip(0) \/ Pushing(<<cpu[reg]>>, 0)
  BY DEF PushBank
<1>2. CASE Skip(0)
  BY <1>2, SkipGood
<1>3. CASE Pushing(<<cpu[reg]>>, 0)
  <2> DEFINE bytes == <<cpu[reg]>>
  <2>1. Len(bytes) \in Nat /\ \A k \in DOMAIN bytes : bytes[k] \in Byte
    BY Fields
  <2>2. Done(Dropped(Len(bytes)), After(0), Onto(bytes), 0)
    BY <1>3 DEF Pushing
  <2> HIDE DEF bytes
  <2> QED BY <2>1, <2>2, PushingGood, AfterWord
<1> QED BY <1>1, <1>2, <1>3
LEMMA PushEffectiveGood == ASSUME CpuAssumption, CpuInv, PushEffective PROVE Good
<1>1. PICK t \in {<<\h0B, cpu.D, 0>>, <<\hF4, Operand, 2>>, <<\hD4, Pointer(ir[2]), 1>>,
            <<\h62, (After(2) + Operand) % 65536, 2>>} :
        Skip(0) \/ Pushing(PushWord(t[2]), t[3])
  BY DEF PushEffective
<1>2. CASE Skip(0)
  BY <1>2, SkipGood
<1>3. CASE Pushing(PushWord(t[2]), t[3])
  <2>1. cpu.D \in Words /\ Operand \in Words /\ Pointer(ir[2]) \in Words
    BY Fields, OperandWord, PointerWord, IrBytes
  <2>2. (After(2) + Operand) % 65536 \in Words
    BY <2>1, AfterWord DEF Words
  <2>3. t[2] \in Words /\ t[3] \in Nat
    BY <2>1, <2>2
  <2> DEFINE bytes == PushWord(t[2])
  <2>4. Len(bytes) \in Nat /\ \A k \in DOMAIN bytes : bytes[k] \in Byte
    BY <2>3, WordBytes
  <2>5. Done(Dropped(Len(bytes)), After(t[3]), Onto(bytes), 0)
    BY <1>3 DEF Pushing
  <2> HIDE DEF bytes
  <2> QED BY <2>3, <2>4, <2>5, PushingGood, AfterWord
<1> QED BY <1>1, <1>2, <1>3

LEMMA PulledByte == ASSUME CpuAssumption, CpuInv PROVE \A k \in Nat : Pulled(k) \in Byte
  BY AboveFits, RdByte, Spaces DEF Pulled, StackFits
LEMMA PulledWords == ASSUME CpuAssumption, CpuInv, NEW k \in Nat PROVE PulledWord(k) \in Words
  BY PulledByte, WordOf DEF PulledWord
LEMMA PullFits == ASSUME CpuAssumption, CpuInv, NEW w \in {8, 16} PROVE Fits(Pull(w), w)
<1>1. Pulled(1) \in Byte /\ PulledWord(1) \in Words
  BY PulledByte, PulledWords
<1> QED BY <1>1, ByteFits DEF Pull, Fits
LEMMA RaisedKept == ASSUME CpuInv, NEW n \in Nat, NEW Q, Flagged(Q), NEW c, c \in Registers,
    c.E = cpu.E, c.P = Q, c.S = Above(n), c.X = cpu.X \/ Fits(c.X, WidthX), c.Y = cpu.Y \/ Fits(c.Y, WidthX)
  PROVE Kept(c)
  BY AboveFits, KeptBy DEF Flagged, StackFits

LEMMA RaisedIs == \A k : Raised(k) = [cpu EXCEPT !.S = Above(k)]
  BY DEF Raised
LEMMA PullAGood == ASSUME CpuAssumption, CpuInv, PullA PROVE Good
<1> DEFINE v == Pull(WidthM)
<1> DEFINE n == WidthM \div 8
<1> DEFINE w == WithA(v)
<1> DEFINE Q == PutNZ(cpu.P, v, WidthM)
<1>1. Advance([Raised(n) EXCEPT !.C = w, !.P = PutNZ(@, v, WidthM)], 0, Wide(WidthM))
  BY DEF PullA
<1>2. v \in Words /\ n \in Nat
  BY PullFits, Widths DEF Fits
<1>3. w \in Words /\ Flagged(Q) /\ StackFits(Above(n))
  BY <1>2, WithAWord, NZFlagged, AboveFits
<1>4. [Raised(n) EXCEPT !.C = w, !.P = PutNZ(@, v, WidthM)] = [cpu EXCEPT !.S = Above(n), !.C = w, !.P = Q]
  BY DEF Raised, CpuInv, Registers
<1> HIDE DEF v, n, w, Q
<1> DEFINE c == [cpu EXCEPT !.S = Above(n), !.C = w, !.P = Q]
<1>5. c \in Registers /\ c.E = cpu.E /\ c.P = Q /\ c.X = cpu.X /\ c.Y = cpu.Y /\ c.S = Above(n)
  BY <1>3 DEF CpuInv, Registers, Flagged, StackFits
<1>6. Advance(c, 0, Wide(WidthM))
  BY <1>1, <1>4
<1> HIDE DEF c
<1> QED BY <1>2, <1>3, <1>5, <1>6, RaisedKept, AdvanceGood
LEMMA PullIndexGood == ASSUME CpuAssumption, CpuInv, PullIndex PROVE Good
<1>1. PICK i \in {<<\hFA, "X">>, <<\h7A, "Y">>} :
        \/ Skip(0)
        \/ LET v == Pull(WidthX)
           IN Advance([Raised(WidthX \div 8) EXCEPT ![i[2]] = v, !.P = PutNZ(@, v, WidthX)], 0, 0)
  BY DEF PullIndex
<1>2. CASE Skip(0)
  BY <1>2, SkipGood
<1>3. CASE ~Skip(0)
  <2> DEFINE v == Pull(WidthX)
  <2> DEFINE n == WidthX \div 8
  <2> DEFINE Q == PutNZ(cpu.P, v, WidthX)
  <2>1. Advance([Raised(n) EXCEPT ![i[2]] = v, !.P = PutNZ(@, v, WidthX)], 0, 0)
    BY <1>1, <1>3
  <2>2. Fits(v, WidthX) /\ n \in Nat
    BY PullFits, Widths
  <2>3. Flagged(Q) /\ StackFits(Above(n)) /\ v \in Words
    BY <2>2, NZFlagged, AboveFits DEF Fits
  <2>4. CASE i[2] = "X"
    <3> DEFINE c == [cpu EXCEPT !.S = Above(n), !.X = v, !.P = Q]
    <3>1. [Raised(n) EXCEPT !.X = v, !.P = PutNZ(@, v, WidthX)] = c
      BY DEF Raised, CpuInv, Registers
    <3>2. Advance(c, 0, 0)
      BY <2>1, <2>4, <3>1
    <3> HIDE DEF v, n, Q
    <3>3. c \in Registers /\ c.E = cpu.E /\ c.P = Q /\ c.X = v /\ c.Y = cpu.Y /\ c.S = Above(n)
      BY <2>3 DEF CpuInv, Registers, Flagged, StackFits
    <3> HIDE DEF c
    <3> QED BY <2>2, <2>3, <3>2, <3>3, RaisedKept, AdvanceGood
  <2>5. CASE i[2] = "Y"
    <3> DEFINE c == [cpu EXCEPT !.S = Above(n), !.Y = v, !.P = Q]
    <3>1. [Raised(n) EXCEPT !.Y = v, !.P = PutNZ(@, v, WidthX)] = c
      BY DEF Raised, CpuInv, Registers
    <3>2. Advance(c, 0, 0)
      BY <2>1, <2>5, <3>1
    <3> HIDE DEF v, n, Q
    <3>3. c \in Registers /\ c.E = cpu.E /\ c.P = Q /\ c.X = cpu.X /\ c.Y = v /\ c.S = Above(n)
      BY <2>3 DEF CpuInv, Registers, Flagged, StackFits
    <3> HIDE DEF c
    <3> QED BY <2>2, <2>3, <3>2, <3>3, RaisedKept, AdvanceGood
  <2> QED BY <2>4, <2>5
<1> QED BY <1>2, <1>3
LEMMA PullBankGood == ASSUME CpuAssumption, CpuInv, PullBank PROVE Good
<1>1. CASE Skip(0)
  BY <1>1, SkipGood
<1>2. CASE ~Skip(0)
  <2> DEFINE v == Pulled(1)
  <2> DEFINE Q == PutNZ(cpu.P, v, 8)
  <2> DEFINE c == [cpu EXCEPT !.S = Above(1), !.DBR = v, !.P = Q]
  <2>1. Advance([Raised(1) EXCEPT !.DBR = v, !.P = PutNZ(@, v, 8)], 0, 0)
    BY <1>2 DEF PullBank
  <2>2. [Raised(1) EXCEPT !.DBR = v, !.P = PutNZ(@, v, 8)] = c
    BY DEF Raised, CpuInv, Registers
  <2>3. v \in Byte /\ Flagged(Q) /\ StackFits(Above(1))
    BY PulledByte, NZFlagged, AboveFits
  <2>4. Advance(c, 0, 0)
    BY <2>1, <2>2
  <2> HIDE DEF v, Q
  <2>5. c \in Registers /\ c.E = cpu.E /\ c.P = Q /\ c.X = cpu.X /\ c.Y = cpu.Y /\ c.S = Above(1)
    BY <2>3 DEF CpuInv, Registers, Flagged, StackFits
  <2> HIDE DEF c
  <2> QED BY <2>3, <2>4, <2>5, RaisedKept, AdvanceGood
<1> QED BY <1>1, <1>2
LEMMA PullDGood == ASSUME CpuAssumption, CpuInv, PullD PROVE Good
<1>1. CASE Skip(0)
  BY <1>1, SkipGood
<1>2. CASE ~Skip(0)
  <2> DEFINE v == PulledWord(1)
  <2> DEFINE Q == PutNZ(cpu.P, v, 16)
  <2> DEFINE c == [cpu EXCEPT !.S = Above(2), !.D = v, !.P = Q]
  <2>1. Advance([Raised(2) EXCEPT !.D = v, !.P = PutNZ(@, v, 16)], 0, 0)
    BY <1>2 DEF PullD
  <2>2. [Raised(2) EXCEPT !.D = v, !.P = PutNZ(@, v, 16)] = c
    BY DEF Raised, CpuInv, Registers
  <2>3. v \in Words /\ Flagged(Q) /\ StackFits(Above(2))
    BY PulledWords, NZFlagged, AboveFits
  <2>4. Advance(c, 0, 0)
    BY <2>1, <2>2
  <2> HIDE DEF v, Q
  <2>5. c \in Registers /\ c.E = cpu.E /\ c.P = Q /\ c.X = cpu.X /\ c.Y = cpu.Y /\ c.S = Above(2)
    BY <2>3 DEF CpuInv, Registers, Flagged, StackFits
  <2> HIDE DEF c
  <2> QED BY <2>3, <2>4, <2>5, RaisedKept, AdvanceGood
<1> QED BY <1>1, <1>2

\* Narrowing the indexes, which a change of the X flag or of the mode brings.
LEMMA Narrowed == ASSUME NEW c \in Registers
  PROVE  /\ Narrow(c) \in Registers /\ Narrow(c).X < 256 /\ Narrow(c).Y < 256
         /\ Narrow(c).E = c.E /\ Narrow(c).S = c.S /\ Narrow(c).P = c.P /\ Narrow(c).PBR = c.PBR
<1>1. c.X \in Words /\ c.Y \in Words
  BY DEF Registers
<1>2. Low(c.X) \in Words /\ Low(c.X) < 256 /\ Low(c.Y) \in Words /\ Low(c.Y) < 256
  BY <1>1 DEF Low, Words
<1> QED BY <1>2 DEF Narrow, Registers
LEMMA RestoredKept ==
  ASSUME CpuInv, NEW n \in Nat, NEW byte
  PROVE  LET c == RestoredP(Raised(n), byte) IN
         Kept(c) /\ c.E = cpu.E /\ c.S = Above(n)
         /\ (Indexes(cpu) => Indexes(c)) /\ (cpu.E => c.X = cpu.X /\ c.Y = cpu.Y)
<1> DEFINE d == Raised(n)
<1>1. d \in Registers /\ d.E = cpu.E /\ d.X = cpu.X /\ d.Y = cpu.Y /\ d.S = Above(n)
  BY AboveFits DEF Raised, CpuInv, Registers, StackFits
<1>2. StackFits(Above(n))
  BY AboveFits
<1>3. cpu.E => cpu.X < 256 /\ cpu.Y < 256
  BY Fields
<1> HIDE DEF d
<1> DEFINE c == RestoredP(d, byte)
<1> SUFFICES Kept(c) /\ c.E = cpu.E /\ c.S = Above(n)
             /\ (Indexes(cpu) => Indexes(c)) /\ (cpu.E => c.X = cpu.X /\ c.Y = cpu.Y)
  BY DEF d
<1>a. FlagsOf(byte) \in SUBSET Flags /\ "M" \in Flags
  BY FlagNames DEF FlagsOf
<1>4. CASE cpu.E
  <2> DEFINE Q == (FlagsOf(byte) \ {"X"}) \union {"M"}
  <2>1. Q \in SUBSET Flags
    BY <1>a
  <2>2. c = [d EXCEPT !.P = Q]
    BY <1>4 DEF RestoredP
  <2> HIDE DEF Q, c
  <2>3. c \in Registers /\ c.E = cpu.E /\ c.X = cpu.X /\ c.Y = cpu.Y /\ c.S = Above(n)
    BY <1>1, <2>1, <2>2 DEF Registers
  <2> QED BY <1>2, <1>3, <1>4, <2>3 DEF Kept, EmulationFits, Indexes, StackFits
<1>5. CASE ~cpu.E
  <2> DEFINE r == [d EXCEPT !.P = FlagsOf(byte)]
  <2>1. r \in Registers /\ r.E = cpu.E /\ r.X = cpu.X /\ r.Y = cpu.Y /\ r.S = Above(n)
    BY <1>1, <1>a DEF Registers
  <2>2. c = IF "X" \notin cpu.P /\ "X" \in r.P THEN Narrow(r) ELSE r
    BY <1>5 DEF RestoredP
  <2> HIDE DEF r, c
  <2>3. CASE "X" \notin cpu.P /\ "X" \in r.P
    <3>1. c = Narrow(r)
      BY <2>2, <2>3
    <3> QED BY <1>5, <2>1, <3>1, Narrowed DEF Kept, EmulationFits, Indexes
  <2>4. CASE ~("X" \notin cpu.P /\ "X" \in r.P)
    <3>1. c = r
      BY <2>2, <2>4
    <3> QED BY <1>5, <2>1, <2>4, <3>1 DEF Kept, EmulationFits, Indexes
  <2> QED BY <2>3, <2>4
<1> QED BY <1>4, <1>5
LEMMA PullPGood == ASSUME CpuAssumption, CpuInv, PullP PROVE Good
<1>1. Advance(RestoredP(Raised(1), Pulled(1)), 0, 0)
  BY DEF PullP
<1> QED BY <1>1, RestoredKept, AdvanceGood

(* Jumps, calls and returns *)
LEMMA JumpGood == ASSUME CpuInv, NEW pc \in Words, NEW x, Done(cpu, pc, mem, x) PROVE Good
<1>1. Holds(mem)
  BY DEF CpuInv
<1> QED BY <1>1, SameKept, DoneGood
LEMMA TakenGood == ASSUME CpuInv, NEW pc \in Words, Taken(pc) PROVE Good
  BY JumpGood DEF Taken
LEMMA DisplacedWord == ASSUME NEW pc \in Words, NEW b \in Byte PROVE Displaced(pc, b) \in Words
  BY DEF Displaced, Words, Byte
LEMMA BranchGood == ASSUME CpuAssumption, CpuInv, Branch PROVE Good
<1>1. Taken(Displaced(After(1), ir[2])) \/ Advance(cpu, 1, 0)
  BY DEF Branch
<1>2. Displaced(After(1), ir[2]) \in Words
  BY AfterWord, IrBytes, DisplacedWord
<1> QED BY <1>1, <1>2, TakenGood, SameKept, AdvanceGood
LEMMA BranchAlwaysGood == ASSUME CpuAssumption, CpuInv, BranchAlways PROVE Good
<1>1. Displaced(After(1), ir[2]) \in Words
  BY AfterWord, IrBytes, DisplacedWord
<1>2. (After(2) + Operand) % 65536 \in Words
  BY AfterWord, OperandWord DEF Words
<1> QED BY <1>1, <1>2, TakenGood, JumpGood DEF BranchAlways
LEMMA OperandCells == ASSUME CpuAssumption, CpuInv
  PROVE  /\ Operand \in Space /\ (Operand + 1) % 65536 \in Space /\ (Operand + 2) % 65536 \in Space
         /\ 256 * (Operand \div 256) + ((Operand + 1) % 256) \in Space
<1>1. Operand \in Nat /\ Operand < 65536
  BY OperandWord DEF Words
<1>2. Operand \div 256 \in Nat /\ Operand \div 256 < 256
  BY <1>1
<1> QED BY <1>1, <1>2 DEF Space
LEMMA JumpsGood == ASSUME CpuAssumption, CpuInv, Jump PROVE Good
<1>1. PICK pc \in {Operand, Word16(Operand, 256 * (Operand \div 256) + ((Operand + 1) % 256))} : Done(cpu, pc, mem, 0)
  BY DEF Jump
<1>2. pc \in Words
  BY OperandWord, OperandCells, Word16Word
<1> QED BY <1>1, <1>2, JumpGood
LEMMA BankKept == ASSUME NEW c, Kept(c), NEW b \in Byte PROVE Kept([c EXCEPT !.PBR = b])
<1> DEFINE d == [c EXCEPT !.PBR = b]
<1> SUFFICES Kept(d)
  OBVIOUS
<1>1. d \in Registers /\ d.E = c.E /\ d.P = c.P /\ d.X = c.X /\ d.Y = c.Y /\ d.S = c.S
  BY DEF Kept, Registers
<1> HIDE DEF d
<1> QED BY <1>1 DEF Kept, EmulationFits, Indexes
LEMMA JumpLongGood == ASSUME CpuAssumption, CpuInv, JumpLong PROVE Good
<1>1. CASE Skip(3) \/ Skip(2)
  BY <1>1, SkipGood
<1>2. CASE ~(Skip(3) \/ Skip(2))
  <2>1. PICK b \in {ir[4], Rd((Operand + 2) % 65536)}, pc \in {Operand, Word16(Operand, (Operand + 1) % 65536)} :
           Done([cpu EXCEPT !.PBR = b], pc, mem, 0)
    BY <1>2 DEF JumpLong
  <2>2. b \in Byte /\ pc \in Words
    BY IrBytes, RdByte, OperandWord, OperandCells, Word16Word
  <2>3. Kept([cpu EXCEPT !.PBR = b]) /\ Holds(mem)
    BY <2>2, SameKept, BankKept DEF CpuInv
  <2> QED BY <2>1, <2>2, <2>3, DoneGood
<1> QED BY <1>1, <1>2
LEMMA CallGood == ASSUME CpuAssumption, CpuInv, Call PROVE Good
<1> DEFINE bytes == PushWord(After(1))
<1>1. \A k \in DOMAIN bytes : bytes[k] \in Byte
  BY AfterWord, WordBytes
<1>2. Done(Dropped(2), Operand, Onto(bytes), 0)
  BY DEF Call
<1> HIDE DEF bytes
<1> QED BY <1>1, <1>2, OperandWord, PushingGood
LEMMA OneAndTwo == ASSUME NEW S, NEW a \in S, NEW b \in S, NEW c \in S PROVE <<a>> \o <<b, c>> = <<a, b, c>>
<1> DEFINE s == <<a>>
<1> DEFINE t == <<b, c>>
<1> DEFINE u == <<a, b, c>>
<1> DEFINE q == s \o t
<1>1. s \in Seq(S) /\ t \in Seq(S) /\ u \in Seq(S) /\ Len(s) = 1 /\ Len(t) = 2 /\ Len(u) = 3
  OBVIOUS
<1>2. s[1] = a /\ t[1] = b /\ t[2] = c /\ u[1] = a /\ u[2] = b /\ u[3] = c
  OBVIOUS
<1> HIDE DEF s, t, u
<1>3. /\ q \in Seq(S) /\ Len(q) = Len(s) + Len(t)
      /\ \A i \in 1 .. Len(s) + Len(t) : q[i] = IF i <= Len(s) THEN s[i] ELSE t[i - Len(s)]
  BY <1>1, ConcatProperties
<1> HIDE DEF q
<1>4. Len(q) = 3 /\ q[1] = a /\ q[2] = b /\ q[3] = c
  BY <1>1, <1>2, <1>3
<1>5. q = u
  BY <1>1, <1>2, <1>3, <1>4, SeqEqual
<1> QED BY <1>5 DEF q, s, t, u
LEMMA TwoAndOne == ASSUME NEW S, NEW a \in S, NEW b \in S, NEW c \in S PROVE <<a, b>> \o <<c>> = <<a, b, c>>
<1> DEFINE s == <<a, b>>
<1> DEFINE t == <<c>>
<1> DEFINE u == <<a, b, c>>
<1> DEFINE q == s \o t
<1>1. s \in Seq(S) /\ t \in Seq(S) /\ u \in Seq(S) /\ Len(s) = 2 /\ Len(t) = 1 /\ Len(u) = 3
  OBVIOUS
<1>2. s[1] = a /\ s[2] = b /\ t[1] = c /\ u[1] = a /\ u[2] = b /\ u[3] = c
  OBVIOUS
<1> HIDE DEF s, t, u
<1>3. /\ q \in Seq(S) /\ Len(q) = Len(s) + Len(t)
      /\ \A i \in 1 .. Len(s) + Len(t) : q[i] = IF i <= Len(s) THEN s[i] ELSE t[i - Len(s)]
  BY <1>1, ConcatProperties
<1> HIDE DEF q
<1>4. Len(q) = 3 /\ q[1] = a /\ q[2] = b /\ q[3] = c
  BY <1>1, <1>2, <1>3
<1>5. q = u
  BY <1>1, <1>2, <1>3, <1>4, SeqEqual
<1> QED BY <1>5 DEF q, s, t, u
LEMMA ThreeAndOne == ASSUME NEW S, NEW a \in S, NEW b \in S, NEW c \in S, NEW d \in S PROVE <<a, b, c>> \o <<d>> = <<a, b, c, d>>
<1> DEFINE s == <<a, b, c>>
<1> DEFINE t == <<d>>
<1> DEFINE u == <<a, b, c, d>>
<1> DEFINE q == s \o t
<1>1. s \in Seq(S) /\ t \in Seq(S) /\ u \in Seq(S) /\ Len(s) = 3 /\ Len(t) = 1 /\ Len(u) = 4
  OBVIOUS
<1>2. s[1] = a /\ s[2] = b /\ s[3] = c /\ t[1] = d /\ u[1] = a /\ u[2] = b /\ u[3] = c /\ u[4] = d
  OBVIOUS
<1> HIDE DEF s, t, u
<1>3. /\ q \in Seq(S) /\ Len(q) = Len(s) + Len(t)
      /\ \A i \in 1 .. Len(s) + Len(t) : q[i] = IF i <= Len(s) THEN s[i] ELSE t[i - Len(s)]
  BY <1>1, ConcatProperties
<1> HIDE DEF q
<1>4. Len(q) = 4 /\ q[1] = a /\ q[2] = b /\ q[3] = c /\ q[4] = d
  BY <1>1, <1>2, <1>3
<1>5. q = u
  BY <1>1, <1>2, <1>3, <1>4, SeqEqual
<1> QED BY <1>5 DEF q, s, t, u
LEMMA CallLongGood == ASSUME CpuAssumption, CpuInv, CallLong PROVE Good
<1>1. CASE Skip(3)
  BY <1>1, SkipGood
<1>2. CASE ~Skip(3)
  <2> DEFINE bytes == <<cpu.PBR>> \o PushWord(After(2))
  <2>1. Done([Dropped(3) EXCEPT !.PBR = ir[4]], Operand, Onto(bytes), 0)
    BY <1>2 DEF CallLong
  <2>2. High(After(2)) \in Byte /\ Low(After(2)) \in Byte /\ cpu.PBR \in Byte
    BY AfterWord, LowHigh, Fields DEF Words
  <2>3. bytes = <<cpu.PBR, High(After(2)), Low(After(2))>>
    BY <2>2, OneAndTwo DEF PushWord
  <2>4. \A k \in DOMAIN bytes : bytes[k] \in Byte
    <3> HIDE DEF bytes
    <3> QED BY <2>2, <2>3
  <2>5. Kept([Dropped(3) EXCEPT !.PBR = ir[4]])
    BY DroppedIs, BelowFits, StackKept, IrBytes, BankKept
  <2> HIDE DEF bytes
  <2> QED BY <2>1, <2>4, <2>5, OntoHolds, OperandWord, DoneGood
<1> QED BY <1>1, <1>2
LEMMA RaisedStack == ASSUME CpuInv, NEW n \in Nat PROVE Kept(Raised(n))
  BY AboveFits, StackKept DEF Raised
LEMMA PulledNext == ASSUME CpuAssumption, CpuInv PROVE (PulledWord(1) + 1) % 65536 \in Words
  BY PulledWords DEF Words
LEMMA ReturnGood == ASSUME CpuAssumption, CpuInv, Return \/ ReturnLong PROVE Good
<1>0. Holds(mem)
  BY DEF CpuInv
<1>1. CASE Skip(0)
  BY <1>1, SkipGood
<1>2. CASE Done(Raised(2), (PulledWord(1) + 1) % 65536, mem, 0)
  BY <1>0, <1>2, RaisedStack, PulledNext, DoneGood
<1>3. CASE Done([Raised(3) EXCEPT !.PBR = Pulled(3)], (PulledWord(1) + 1) % 65536, mem, 0)
  BY <1>0, <1>3, RaisedStack, PulledByte, BankKept, PulledNext, DoneGood
<1> QED BY <1>1, <1>2, <1>3 DEF Return, ReturnLong
LEMMA ReturnInterruptGood == ASSUME CpuAssumption, CpuInv, ReturnInterrupt PROVE Good
<1>0. Holds(mem)
  BY DEF CpuInv
<1> DEFINE n == IF cpu.E THEN 3 ELSE 4
<1> DEFINE c == RestoredP(Raised(n), Pulled(1))
<1>1. Kept(c)
  BY RestoredKept
<1>2. Done(IF cpu.E THEN c ELSE [c EXCEPT !.PBR = Pulled(4)], PulledWord(2), mem, 0)
  BY DEF ReturnInterrupt
<1> HIDE DEF c
<1>3. PulledWord(2) \in Words /\ Pulled(4) \in Byte
  BY PulledByte, PulledWords
<1>4. Kept(IF cpu.E THEN c ELSE [c EXCEPT !.PBR = Pulled(4)])
  BY <1>1, <1>3, BankKept
<1> QED BY <1>0, <1>2, <1>3, <1>4, DoneGood

\* An interrupt, BRK or COP.
LEMMA ServiceBytes == ASSUME CpuInv, NEW pc \in Words, NEW byte \in Byte
  PROVE  LET bytes == (IF cpu.E THEN <<>> ELSE <<cpu.PBR>>) \o PushWord(pc) \o <<byte>> IN
         /\ cpu.E => bytes = <<High(pc), Low(pc), byte>> /\ Len(bytes) = 3
         /\ ~cpu.E => bytes = <<cpu.PBR, High(pc), Low(pc), byte>> /\ Len(bytes) = 4
         /\ \A k \in DOMAIN bytes : bytes[k] \in Byte
<1> DEFINE bytes == (IF cpu.E THEN <<>> ELSE <<cpu.PBR>>) \o PushWord(pc) \o <<byte>>
<1>1. High(pc) \in Byte /\ Low(pc) \in Byte /\ cpu.PBR \in Byte
  BY LowHigh, Fields DEF Words
<1>2. CASE cpu.E
  <2>1. bytes = <<High(pc), Low(pc), byte>>
    <3>1. (IF cpu.E THEN <<>> ELSE <<cpu.PBR>>) \o PushWord(pc) = <<High(pc), Low(pc)>>
      BY <1>2 DEF PushWord
    <3> QED BY <1>1, <3>1, TwoAndOne
  <2> HIDE DEF bytes
  <2>2. Len(bytes) = 3 /\ \A k \in DOMAIN bytes : bytes[k] \in Byte
    BY <1>1, <2>1
  <2> USE DEF bytes
  <2> QED BY <1>2, <2>1, <2>2
<1>3. CASE ~cpu.E
  <2>1. bytes = <<cpu.PBR, High(pc), Low(pc), byte>>
    <3>1. (IF cpu.E THEN <<>> ELSE <<cpu.PBR>>) \o PushWord(pc) = <<cpu.PBR, High(pc), Low(pc)>>
      <4>1. <<cpu.PBR>> \o <<High(pc), Low(pc)>> = <<cpu.PBR, High(pc), Low(pc)>>
        BY <1>1, OneAndTwo
      <4> QED BY <1>3, <4>1 DEF PushWord
    <3>2. <<cpu.PBR, High(pc), Low(pc)>> \o <<byte>> = <<cpu.PBR, High(pc), Low(pc), byte>>
      BY ONLY <1>1, byte \in Byte, ThreeAndOne
    <3> QED BY <3>1, <3>2
  <2> HIDE DEF bytes
  <2>2. Len(bytes) = 4 /\ \A k \in DOMAIN bytes : bytes[k] \in Byte
    BY <1>1, <2>1
  <2> USE DEF bytes
  <2> QED BY <1>3, <2>1, <2>2
<1> QED BY <1>2, <1>3
LEMMA ServiceGood ==
  ASSUME CpuAssumption, CpuInv, NEW pc \in Words, NEW byte \in Byte, NEW vector \in Words, NEW cleared, "X" \notin cleared,
         NEW halt \in {"stp", "wai", "no"}, Service(pc, byte, vector, cleared, halt)
  PROVE  Good
<1> DEFINE bytes == (IF cpu.E THEN <<>> ELSE <<cpu.PBR>>) \o PushWord(pc) \o <<byte>>
<1> DEFINE n == Len(bytes)
<1> DEFINE Q == (cpu.P \union {"I"}) \ cleared
<1> DEFINE b == IF cpu.E THEN cpu.PBR ELSE 0
<1> DEFINE d == Dropped(n)
<1> DEFINE c == [d EXCEPT !.PBR = IF cpu.E THEN @ ELSE 0, !.halt = halt,
                          !.P = (@ \union {"I"}) \ cleared]
<1>1. Done(c, Word16(vector, vector + 1), Onto(bytes), 0)
  BY DEF Service
<1>2. n \in Nat /\ \A k \in DOMAIN bytes : bytes[k] \in Byte
  BY ServiceBytes
<1>3. Word16(vector, vector + 1) \in Words
  <2>1. vector \in Space /\ vector + 1 \in Space
    BY DEF Words, Space
  <2> QED BY <2>1, Word16Word
<1>4. Flagged(Q) /\ b \in Byte
  <2>1. cpu.P \in SUBSET Flags /\ cpu.PBR \in Byte /\ 0 \in Byte
    BY Fields DEF Byte
  <2> QED BY <2>1, FlagNames DEF Flagged
<1> HIDE DEF bytes
<1>5. StackFits(Below(n)) /\ d = [cpu EXCEPT !.S = Below(n)]
  BY <1>2, BelowFits, DroppedIs
<1> HIDE DEF n
<1>6. d \in Registers /\ d.E = cpu.E /\ d.X = cpu.X /\ d.Y = cpu.Y /\ d.S = Below(n) /\ d.P = cpu.P /\ d.PBR = cpu.PBR
  BY <1>5 DEF CpuInv, Registers, StackFits
<1> HIDE DEF d
<1>7. c = [d EXCEPT !.PBR = b, !.halt = halt, !.P = Q]
  BY <1>6 DEF Registers
<1> HIDE DEF b, Q, c
<1>8. c \in Registers /\ c.E = cpu.E /\ c.X = cpu.X /\ c.Y = cpu.Y /\ c.S = Below(n) /\ c.P = Q
  BY <1>4, <1>6, <1>7 DEF Registers, Flagged
<1>9. Kept(c)
  BY <1>4, <1>5, <1>8, KeptBy DEF Flagged, StackFits
<1> QED BY <1>1, <1>2, <1>3, <1>9, OntoHolds, DoneGood

(* The block move. *)
LEMMA SetInduction ==
  ASSUME NEW S, 0 \in S, \A n \in Nat : n \in S => n + 1 \in S
  PROVE  Nat \subseteq S
<1> SUFFICES ASSUME NEW bad \in Nat, bad \notin S PROVE FALSE
  OBVIOUS
<1> DEFINE T == {0 .. n : n \in Nat \ S}
<1>1. T \subseteq FiniteSubsetsOf(Nat)
  <2> SUFFICES ASSUME NEW n \in Nat PROVE 0 .. n \in FiniteSubsetsOf(Nat)
    OBVIOUS
  <2> QED BY FS_Interval DEF FiniteSubsetsOf
<1>2. T # {}
  OBVIOUS
<1>3. PICK x \in T : \A y \in T : ~(<<y, x>> \in StrictSubsetOrdering(Nat))
  <2> HIDE DEF T
  <2> QED BY <1>1, <1>2, FS_StrictSubsetOrderingWellFounded, WFMin, Zenon
<1>4. PICK m \in Nat \ S : x = 0 .. m
  BY <1>3
<1>5. m # 0
  BY <1>4
<1>6. m - 1 \in Nat
  BY <1>4, <1>5
<1>7. m - 1 \notin S
  BY <1>4, <1>6
<1>8. 0 .. m - 1 \in T
  BY <1>6, <1>7
<1>9. <<0 .. m - 1, 0 .. m>> \in StrictSubsetOrdering(Nat)
  <2>1. 0 .. m - 1 \in SUBSET Nat /\ 0 .. m \in SUBSET Nat
    BY <1>4
  <2>2. 0 .. m - 1 \subseteq 0 .. m
    BY <1>4
  <2>3. m \in 0 .. m /\ m \notin 0 .. m - 1
    BY <1>4
  <2> QED BY <2>1, <2>2, <2>3 DEF StrictSubsetOrdering
<1> QED BY <1>3, <1>4, <1>8, <1>9

From(k) == 65536 * ir[3] + Moving("X", k)
To(k) == 65536 * ir[2] + Moving("Y", k)
Moves(f, n) == f = [k \in 0 .. n |-> IF k = 0 THEN mem ELSE Copied(f[k - 1], From(k - 1), To(k - 1))]
LEMMA MovesExist == \A n \in Nat : \E f : Moves(f, n)
<1> DEFINE S == {n \in Nat : \E f : Moves(f, n)}
<1>1. 0 \in S
  <2> DEFINE f == [k \in 0 .. 0 |-> mem]
  <2>1. Moves(f, 0)
    BY DEF Moves
  <2> QED BY <2>1
<1>2. \A n \in Nat : n \in S => n + 1 \in S
  <2> SUFFICES ASSUME NEW n \in Nat, n \in S PROVE n + 1 \in S
    OBVIOUS
  <2>1. PICK f : Moves(f, n)
    OBVIOUS
  <2> DEFINE g == [k \in 0 .. n + 1 |-> IF k = n + 1 THEN Copied(f[n], From(n), To(n)) ELSE f[k]]
  <2>2. Moves(g, n + 1)
    <3> DEFINE h == [k \in 0 .. n + 1 |-> IF k = 0 THEN mem ELSE Copied(g[k - 1], From(k - 1), To(k - 1))]
    <3>1. ASSUME NEW k \in 0 .. n + 1 PROVE g[k] = h[k]
      <4>1. CASE k = n + 1
        <5>1. k # 0 /\ k - 1 = n /\ n \in 0 .. n + 1 /\ n # n + 1
          BY <4>1
        <5>2. g[k] = Copied(f[n], From(n), To(n)) /\ g[n] = f[n]
          BY <4>1, <5>1
        <5>3. h[k] = Copied(g[k - 1], From(k - 1), To(k - 1))
          BY <5>1
        <5> QED BY <5>1, <5>2, <5>3
      <4>2. CASE k # n + 1
        <5>1. k \in 0 .. n /\ g[k] = f[k]
          BY <4>2
        <5>2. f[k] = IF k = 0 THEN mem ELSE Copied(f[k - 1], From(k - 1), To(k - 1))
          BY <2>1, <5>1 DEF Moves
        <5>3. k # 0 => k - 1 \in 0 .. n + 1 /\ k - 1 # n + 1
          BY <5>1
        <5>4. k # 0 => g[k - 1] = f[k - 1]
          BY <5>3
        <5>5. h[k] = IF k = 0 THEN mem ELSE Copied(g[k - 1], From(k - 1), To(k - 1))
          OBVIOUS
        <5> HIDE DEF g, h
        <5> QED BY <5>1, <5>2, <5>4, <5>5
      <4> QED BY <4>1, <4>2
    <3>2. g = h
      BY <3>1
    <3> HIDE DEF g
    <3> QED BY <3>2 DEF Moves
  <2> HIDE DEF g
  <2> QED BY <2>2
<1> HIDE DEF S
<1>3. Nat \subseteq S
  BY <1>1, <1>2, SetInduction
<1> QED BY <1>3 DEF S
LEMMA MovingWord == ASSUME CpuInv, NEW r \in {"X", "Y"} PROVE \A k \in Nat : Moving(r, k) \in Words
  BY Fields DEF Moving, Words
LEMMA MovesHold ==
  ASSUME CpuAssumption, CpuInv, NEW n \in Nat, NEW f, Moves(f, n)
  PROVE  Holds(f[n])
<1> DEFINE S == {k \in Nat : k <= n => Holds(f[k])}
<1>0. Holds(mem)
  BY DEF CpuInv
<1>1. 0 \in S
  <2>1. f[0] = mem
    BY DEF Moves
  <2> QED BY <1>0, <2>1
<1>2. \A k \in Nat : k \in S => k + 1 \in S
  <2> SUFFICES ASSUME NEW k \in Nat, k \in S, k + 1 <= n PROVE Holds(f[k + 1])
    OBVIOUS
  <2>1. Holds(f[k])
    OBVIOUS
  <2>2. f[k + 1] = Copied(f[k], From(k), To(k))
    <3>1. k + 1 \in 0 .. n /\ k + 1 # 0 /\ (k + 1) - 1 = k
      OBVIOUS
    <3> QED BY <3>1 DEF Moves
  <2>3. From(k) \in Space
    <3>1. ir[3] \in Byte /\ Moving("X", k) \in Words
      BY IrBytes, MovingWord
    <3> QED BY <3>1 DEF From, Byte, Words, Space
  <2>4. Blank(From(k)) \in Byte
    BY <2>3, Spaces DEF CpuAssumption
  <2> DEFINE b == IF From(k) \in DOMAIN f[k] THEN f[k][From(k)] ELSE Blank(From(k))
  <2>5. b \in Byte
    BY <2>1, <2>4 DEF Holds
  <2>6. f[k + 1] = Over(Cell(To(k), b), f[k])
    BY <2>2 DEF Copied
  <2> HIDE DEF b
  <2> QED BY <2>1, <2>5, <2>6, CellHolds, OverHolds
<1> HIDE DEF S
<1>3. Nat \subseteq S
  BY <1>1, <1>2, SetInduction
<1> QED BY <1>3 DEF S

LEMMA BlockMoveGood == ASSUME CpuAssumption, CpuInv, BlockMove PROVE Good
<1>1. CASE Skip(2)
  BY <1>1, SkipGood
<1>2. CASE ~Skip(2)
  <2> DEFINE n == cpu.C + 1
  <2> DEFINE moved == CHOOSE f : Moves(f, n)
  <2> DEFINE x == Moving("X", n)
  <2> DEFINE y == Moving("Y", n)
  <2> DEFINE w == 65535
  <2> DEFINE c == [cpu EXCEPT !.DBR = ir[2], !.C = w, !.X = x, !.Y = y]
  <2>1. ~cpu.E /\ op \in {\h44, \h54} /\ Done(c, After(2), moved[n], 7 * n)
    BY <1>2 DEF BlockMove, Native, Moves, From, To
  <2>2. n \in Nat /\ x \in Words /\ y \in Words /\ ir[2] \in Byte /\ w \in Words
    <3>1. n \in Nat
      BY Fields DEF Words
    <3>2. w \in Words
      BY DEF Words
    <3> HIDE DEF n, w
    <3> QED BY <3>1, <3>2, MovingWord, IrBytes
  <2> HIDE DEF n
  <2>3. Holds(moved[n])
    <3>1. Moves(moved, n)
      BY <2>2, MovesExist
    <3> HIDE DEF moved
    <3> QED BY <2>2, <3>1, MovesHold
  <2> HIDE DEF moved, x, y, w
  <2>4. c \in Registers /\ c.E = cpu.E /\ c.P = cpu.P
    BY <2>2 DEF CpuInv, Registers
  <2> HIDE DEF c
  <2>5. Kept(c)
    BY <2>1, <2>4 DEF Kept, EmulationFits, Indexes, NarrowMove, WidthX
  <2>6. After(2) \in Words
    BY AfterWord
  <2> QED BY <2>1, <2>3, <2>5, <2>6, DoneGood
<1> QED BY <1>1, <1>2

(* Flags, modes and the rest *)
LEMMA SetFlagGood == ASSUME CpuAssumption, CpuInv, SetFlag PROVE Good
<1>1. CASE \E f \in {<<\h18, "C">>, <<\h58, "I">>, <<\hD8, "D">>, <<\hB8, "V">>} :
               op = f[1] /\ Advance([cpu EXCEPT !.P = @ \ {f[2]}], 0, 0)
  <2>1. PICK f \in {<<\h18, "C">>, <<\h58, "I">>, <<\hD8, "D">>, <<\hB8, "V">>} :
               Advance([cpu EXCEPT !.P = @ \ {f[2]}], 0, 0)
    BY <1>1
  <2>2. Flagged(cpu.P \ {f[2]})
    BY FlaggedSame DEF Flagged
  <2> QED BY <2>1, <2>2, FlagsKept, AdvanceGood
<1>2. CASE \E f \in {<<\h38, "C">>, <<\h78, "I">>, <<\hF8, "D">>} :
               op = f[1] /\ Advance([cpu EXCEPT !.P = @ \union {f[2]}], 0, 0)
  <2>1. PICK f \in {<<\h38, "C">>, <<\h78, "I">>, <<\hF8, "D">>} :
               Advance([cpu EXCEPT !.P = @ \union {f[2]}], 0, 0)
    BY <1>2
  <2>2. Flagged(cpu.P \union {f[2]})
    BY FlaggedSame, FlagNames DEF Flagged
  <2> QED BY <2>1, <2>2, FlagsKept, AdvanceGood
<1> QED BY <1>1, <1>2 DEF SetFlag
LEMMA FlagsOfFlags == \A byte : FlagsOf(byte) \subseteq Flags
  BY DEF FlagsOf
LEMMA RepGood == ASSUME CpuAssumption, CpuInv, Rep PROVE Good
<1> DEFINE Q == (cpu.P \ FlagsOf(ir[2])) \union (IF cpu.E THEN {"M"} ELSE {})
<1> DEFINE c == [cpu EXCEPT !.P = Q]
<1>1. Advance(c, 1, 0)
  BY DEF Rep
<1>2. Q \in SUBSET Flags /\ ("X" \in Q => "X" \in cpu.P)
  BY Fields, FlagNames
<1> HIDE DEF Q
<1>3. c \in Registers /\ c.E = cpu.E /\ c.X = cpu.X /\ c.Y = cpu.Y /\ c.S = cpu.S /\ c.P = Q
  BY <1>2 DEF CpuInv, Registers
<1> HIDE DEF c
<1>4. Kept(c)
  BY <1>2, <1>3 DEF CpuInv, Kept, EmulationFits, Indexes
<1> QED BY <1>1, <1>4, AdvanceGood
LEMMA SepGood == ASSUME CpuAssumption, CpuInv, Sep PROVE Good
<1> DEFINE Q == cpu.P \union FlagsOf(ir[2])
<1> DEFINE c == [cpu EXCEPT !.P = Q]
<1>1. Advance(IF "X" \in FlagsOf(ir[2]) THEN Narrow(c) ELSE c, 1, 0)
  BY DEF Sep
<1>2. Q \in SUBSET Flags /\ ("X" \in Q => "X" \in cpu.P \/ "X" \in FlagsOf(ir[2]))
  BY Fields, FlagsOfFlags
<1> HIDE DEF Q
<1>3. c \in Registers /\ c.E = cpu.E /\ c.X = cpu.X /\ c.Y = cpu.Y /\ c.S = cpu.S /\ c.P = Q
  BY <1>2 DEF CpuInv, Registers
<1> HIDE DEF c
<1>4. EmulationFits(cpu)
  BY DEF CpuInv
<1>5. CASE "X" \in FlagsOf(ir[2])
  <2>1. Advance(Narrow(c), 1, 0)
    BY <1>1, <1>5
  <2>2. Kept(Narrow(c))
    BY <1>3, <1>4, Narrowed DEF Kept, EmulationFits, Indexes
  <2> QED BY <2>1, <2>2, AdvanceGood
<1>6. CASE "X" \notin FlagsOf(ir[2])
  <2>1. Advance(c, 1, 0)
    BY <1>1, <1>6
  <2>2. Kept(c)
    BY <1>2, <1>3, <1>4, <1>6 DEF Kept, EmulationFits, Indexes
  <2> QED BY <2>1, <2>2, AdvanceGood
<1> QED BY <1>5, <1>6
LEMMA ExchangeEGood == ASSUME CpuAssumption, CpuInv, ExchangeE PROVE Good
<1> DEFINE Q == Put(cpu.P, "C", cpu.E)
<1> DEFINE e == "C" \in cpu.P
<1> DEFINE c == [cpu EXCEPT !.E = e, !.P = Q]
<1> DEFINE d == [c EXCEPT !.P = @ \union {"M", "X"}, !.S = 256 + Low(@)]
<1>1. Advance(IF c.E THEN Narrow(d) ELSE c, 0, 0)
  BY DEF ExchangeE
<1>2. Flagged(Q)
  BY FlagNames, FlaggedSame, FlaggedPut
<1>a. e \in BOOLEAN
  OBVIOUS
<1> HIDE DEF Q, e
<1>3. c \in Registers /\ c.X = cpu.X /\ c.Y = cpu.Y /\ c.S = cpu.S /\ c.P = Q
  BY <1>2, <1>a DEF CpuInv, Registers, Flagged
<1> HIDE DEF c
<1>4. CASE c.E
  <2>1. Advance(Narrow(d), 0, 0)
    BY <1>1, <1>4
  <2>2. 256 + Low(c.S) \in Words /\ 256 <= 256 + Low(c.S) /\ 256 + Low(c.S) < 512
    <3>1. c.S \in Words
      BY <1>3 DEF Registers
    <3> QED BY <3>1 DEF Low, Words
  <2>3. d \in Registers /\ d.S = 256 + Low(c.S)
    <3> DEFINE R == c.P \union {"M", "X"}
    <3> DEFINE s == 256 + Low(c.S)
    <3>1. R \in SUBSET Flags
      BY <1>3, FlagNames DEF Registers
    <3>2. s \in Words /\ d = [c EXCEPT !.P = R, !.S = s]
      BY <1>3, <2>2 DEF Registers
    <3> HIDE DEF R, s, d
    <3>3. d \in Registers /\ d.S = s
      BY <1>3, <3>1, <3>2 DEF Registers
    <3> QED BY <3>3 DEF s
  <2> HIDE DEF d
  <2>4. Kept(Narrow(d))
    BY <2>2, <2>3, Narrowed DEF Kept, EmulationFits, Indexes
  <2> QED BY <2>1, <2>4, AdvanceGood
<1>5. CASE ~c.E
  <2>1. Advance(c, 0, 0)
    BY <1>1, <1>5
  <2>2. Kept(c)
    BY <1>2, <1>3, <1>5 DEF Kept, EmulationFits, Indexes, Flagged
  <2> QED BY <2>1, <2>2, AdvanceGood
<1> QED BY <1>4, <1>5
LEMMA HaltGood == ASSUME CpuAssumption, CpuInv, Halt PROVE Good
<1>1. PICK h \in {"stp", "wai"} : Skip(0) \/ Advance([cpu EXCEPT !.halt = h], 0, 0)
  BY DEF Halt
<1> DEFINE c == [cpu EXCEPT !.halt = h]
<1>2. c \in Registers /\ c.E = cpu.E /\ c.X = cpu.X /\ c.Y = cpu.Y /\ c.S = cpu.S /\ c.P = cpu.P
  BY DEF CpuInv, Registers
<1>3. Skip(0) \/ Advance(c, 0, 0)
  BY <1>1
<1> HIDE DEF c
<1> QED BY <1>2, <1>3, KeptBy, SkipGood, AdvanceGood
LEMMA PlainGood == ASSUME CpuAssumption, CpuInv, Nop \/ Wdm \/ Illegal PROVE Good
<1>1. OpcodeSize(op) - 1 \in Nat
  BY DEF OpcodeSize
<1> QED BY <1>1, SameKept, AdvanceGood DEF Nop, Wdm, Illegal
LEMMA ServicesGood == ASSUME CpuAssumption, CpuInv, Break \/ Cop \/ Nmi \/ Irq PROVE Good
<1>1. After(1) \in Words /\ cpu.PC \in Words /\ PushedP \in Byte /\ MaskedP \in Byte
  BY AfterWord, Fields, PushedPByte
<1>2. /\ InMode(\hFFFE, \hFFE6) \in Words /\ InMode(\hFFF4, \hFFE4) \in Words
      /\ InMode(\hFFFA, \hFFEA) \in Words /\ InMode(\hFFFE, \hFFEE) \in Words
  BY DEF InMode, Words
<1>3. "X" \notin Cleared /\ "X" \notin {"D"} /\ cpu.halt \in {"stp", "wai", "no"}
  BY DEF InMode, Cleared, CpuInv, Registers
<1>4. CASE Break
  BY <1>1, <1>2, <1>3, <1>4, ServiceGood DEF Break
<1>5. CASE Cop
  BY <1>1, <1>2, <1>3, <1>5, ServiceGood DEF Cop
<1>6. CASE Nmi
  BY <1>1, <1>2, <1>3, <1>6, ServiceGood DEF Nmi
<1>7. CASE Irq
  BY <1>1, <1>2, <1>3, <1>7, ServiceGood DEF Irq
<1> QED BY <1>4, <1>5, <1>6, <1>7
LEMMA WaitGood == ASSUME CpuAssumption, CpuInv, Wait PROVE Good
  BY Fields, JumpGood DEF Wait
LEMMA ExecuteGood == ASSUME CpuAssumption, CpuInv, Execute PROVE Good
<1>1. CASE LoadA \/ LoadX \/ LoadY
  BY <1>1, LoadAGood, LoadXYGood
<1>2. CASE StoreA \/ StoreALong \/ StoreX \/ StoreY \/ StoreZero
  BY <1>2, StoreAGood, StoreXYGood, StoreZeroGood
<1>3. CASE AddSub \/ Exchange \/ Logic \/ CompareA \/ CompareIndex \/ BitTest
  BY <1>3, AddSubGood, ExchangeGood, LogicGood, CompareAGood, CompareIndexGood, BitTestGood
<1>4. CASE ShiftA \/ ShiftMem \/ IncMem \/ DecMem \/ CountA \/ CountIndex
  BY <1>4, ShiftAGood, ShiftMemGood, CountMemGood, CountAGood, CountIndexGood
<1>5. CASE TransferIndex \/ TransferA \/ TransferWord \/ TransferStack
  BY <1>5, TransferIndexGood, TransferAGood, TransferWordGood, TransferStackGood
<1>6. CASE PushA \/ PushP \/ PushIndex \/ PushBank \/ PushEffective
  BY <1>6, PushAGood, PushPGood, PushIndexGood, PushBankGood, PushEffectiveGood
<1>7. CASE PullA \/ PullP \/ PullIndex \/ PullBank \/ PullD
  BY <1>7, PullAGood, PullPGood, PullIndexGood, PullBankGood, PullDGood
<1>8. CASE Branch \/ BranchAlways \/ Jump \/ JumpLong
  BY <1>8, BranchGood, BranchAlwaysGood, JumpsGood, JumpLongGood
<1>9. CASE Call \/ CallLong \/ Return \/ ReturnLong \/ ReturnInterrupt
  BY <1>9, CallGood, CallLongGood, ReturnGood, ReturnInterruptGood
<1>10. CASE Break \/ Cop
  BY <1>10, ServicesGood
<1>11. CASE BlockMove \/ SetFlag \/ Rep \/ Sep \/ ExchangeE \/ Halt \/ Nop \/ Wdm \/ Illegal
  BY <1>11, BlockMoveGood, SetFlagGood, RepGood, SepGood, ExchangeEGood, HaltGood, PlainGood
<1> QED BY <1>1, <1>2, <1>3, <1>4, <1>5, <1>6, <1>7, <1>8, <1>9, <1>10, <1>11 DEF Execute
LEMMA GoodStep == ASSUME CpuAssumption, CpuInv, Wait \/ Nmi \/ Irq \/ Run PROVE Good
  BY WaitGood, ServicesGood, ExecuteGood DEF Run
LEMMA GoodKeeps ==
  ASSUME CpuAssumption, CpuInv, Good
  PROVE  CpuInv' /\ (Indexes(cpu) => Indexes(cpu)' \/ NarrowMove)
  BY DoneKeeps DEF Good
LEMMA CpuStart == ASSUME CpuAssumption, Init PROVE CpuInv
<1>1. Holds(<<>>)
  BY DEF Holds
<1> QED BY <1>1 DEF CpuAssumption, Init, CpuInv
LEMMA CpuStep ==
  ASSUME CpuAssumption, CpuInv, [ReturnsNext]_<<vars, homes>>
  PROVE  CpuInv' /\ (Indexes(cpu) => Indexes(cpu)' \/ NarrowMove)
<1>1. CASE Wait \/ Nmi \/ Irq \/ Run
  BY <1>1, GoodStep, GoodKeeps
<1>2. CASE UNCHANGED <<vars, homes>>
  BY <1>2 DEF CpuInv, Indexes, vars, Holds, EmulationFits
<1> QED BY <1>1, <1>2 DEF ReturnsNext

\* Under every program the registers keep their width, the emulation stack stays in
\* page 1, narrow indexes of emulation mode have no high byte, and memory holds bytes.
THEOREM RegistersHold == ReturnsSpec => []CpuInv
<1>1. ReturnsInit => CpuInv
  BY CpuStart, CpuAssumption DEF ReturnsInit
<1>2. CpuInv /\ [ReturnsNext]_<<vars, homes>> => CpuInv'
  BY CpuStep, CpuAssumption
<1> QED BY <1>1, <1>2, PTL DEF ReturnsSpec

LEMMA FitsMode == ASSUME CpuInv PROVE RegistersFitMode <=> Indexes(cpu)
<1>1. WidthX = 8 <=> cpu.E \/ "X" \in cpu.P
  BY DEF WidthX
<1>2. cpu.E => cpu.S \div 256 = 1
  BY Fields DEF Words
<1> QED BY <1>1, <1>2 DEF RegistersFitMode, Indexes

\* No instruction but a block move with narrow indexes takes the registers out of
\* what their mode allows, whichever way the program changed modes.
THEOREM ModeRegistersKept == ReturnsSpec => ModesKept
<1>1. CpuInv /\ CpuInv' /\ [ReturnsNext]_<<vars, homes>>
      => [RegistersFitMode => RegistersFitMode' \/ NarrowMove]_<<vars, homes>>
  <2> SUFFICES ASSUME CpuInv, CpuInv', [ReturnsNext]_<<vars, homes>>, RegistersFitMode
               PROVE  RegistersFitMode' \/ NarrowMove
    OBVIOUS
  <2>1. Indexes(cpu)
    BY FitsMode
  <2>2. Indexes(cpu)' \/ NarrowMove
    BY <2>1, CpuStep, CpuAssumption
  <2>3. Indexes(cpu)' => RegistersFitMode'
    <3>1. (WidthX = 8)' <=> cpu'.E \/ "X" \in cpu'.P
      BY DEF WidthX
    <3>2. cpu'.E => cpu'.S \div 256 = 1
      BY DEF CpuInv, EmulationFits, Registers, Words
    <3> QED BY <3>1, <3>2 DEF RegistersFitMode, Indexes
  <2> QED BY <2>2, <2>3
<1> QED BY <1>1, RegistersHold, PTL DEF ReturnsSpec, ModesKept

(* Decimal mode *)
Digit == {n \in Nat : n < 10}
LEMMA PackedDigits == ASSUME NEW h \in Digit, NEW l \in Digit
  PROVE  /\ Packed(10 * h + l) = 16 * h + l
         /\ (16 * h + l) % 16 = l /\ (16 * h + l) \div 16 = h
         /\ (10 * h + l) % 10 = l /\ (10 * h + l) \div 10 = h
<1>1. (10 * h + l) % 10 = l /\ (10 * h + l) \div 10 = h
  BY DEF Digit
<1>2. (16 * h + l) % 16 = l /\ (16 * h + l) \div 16 = h
  BY DEF Digit
<1> QED BY <1>1, <1>2 DEF Packed
LEMMA Hundred == ASSUME NEW n \in Nat, n < 100
  PROVE  n \div 10 \in Digit /\ n % 10 \in Digit /\ n = 10 * (n \div 10) + (n % 10)
  BY DEF Digit
LEMMA Mod16 == ASSUME NEW n \in Nat, n < 32 PROVE n % 16 = IF n < 16 THEN n ELSE n - 16
  OBVIOUS
LEMMA Mod100 == ASSUME NEW n \in Nat, n < 200 PROVE n % 100 = IF n < 100 THEN n ELSE n - 100
  OBVIOUS
LEMMA PutIs == \A P, f : \A v \in BOOLEAN : f \in Put(P, f, v) <=> v
  BY DEF Put
LEMMA AddedDigits ==
  ASSUME NEW a1 \in Digit, NEW a0 \in Digit, NEW b1 \in Digit, NEW b0 \in Digit, NEW P
  PROVE  LET sum == DecimalAdd(16 * a1 + a0, 16 * b1 + b0, P)
             n == 10 * a1 + a0 + (10 * b1 + b0) + Carry(P)
         IN sum.v = Packed(n % 100) /\ ("C" \in sum.P <=> n > 99)
<1> DEFINE k == Carry(P)
<1> DEFINE total == a0 + b0 + k
<1> DEFINE low == IF total > 9 THEN total + 6 ELSE total
<1> DEFINE high == a1 + b1 + (IF low > 15 THEN 1 ELSE 0)
<1> DEFINE fixed == IF high > 9 THEN high + 6 ELSE high
<1> DEFINE sum == DecimalAdd(16 * a1 + a0, 16 * b1 + b0, P)
<1> DEFINE n == 10 * a1 + a0 + (10 * b1 + b0) + k
<1>1. /\ (16 * a1 + a0) % 16 = a0 /\ (16 * a1 + a0) \div 16 = a1
      /\ (16 * b1 + b0) % 16 = b0 /\ (16 * b1 + b0) \div 16 = b1
  BY PackedDigits
<1>2. sum.v = 16 * (fixed % 16) + (low % 16)
  BY <1>1 DEF DecimalAdd
<1>3. "C" \in sum.P <=> fixed > 15
  <2>1. (fixed > 15) \in BOOLEAN
    OBVIOUS
  <2>2. \E Q : sum.P = Put(Q, "C", fixed > 15)
    <3> DEFINE Q == Put(Put(Put(P, "Z", ((16 * a1 + a0 + (16 * b1 + b0) + k) % 256) = 0), "N", (high \div 8) % 2 = 1),
                    "V", Top(16 * a1 + a0, 8) = Top(16 * b1 + b0, 8) /\ Top(16 * a1 + a0, 8) # ((high \div 8) % 2 = 1))
    <3>1. sum.P = Put(Q, "C", fixed > 15)
      BY <1>1 DEF DecimalAdd
    <3> HIDE DEF sum, fixed, Q
    <3> QED BY <3>1
  <2> HIDE DEF sum, fixed
  <2> QED BY <2>1, <2>2, PutIs
<1>4. k \in {0, 1}
  BY CarryBit
<1> HIDE DEF k, sum
<1>5. low \in Nat /\ low < 32 /\ low % 16 \in Digit /\ (low > 15 <=> total > 9)
      /\ (low > 15 => low % 16 = total - 10) /\ (low <= 15 => low % 16 = total)
  BY <1>4, Mod16 DEF Digit
<1> DEFINE carry == IF low > 15 THEN 1 ELSE 0
<1>6. carry \in {0, 1} /\ total = 10 * carry + (low % 16) /\ total \in Nat
  BY <1>4, <1>5 DEF Digit
<1>7. high = a1 + b1 + carry
  OBVIOUS
<1> HIDE DEF low, carry, total
<1>8. fixed \in Nat /\ fixed < 32 /\ (fixed % 16) \in Digit /\ (fixed > 15 <=> high > 9)
      /\ (fixed > 15 => fixed % 16 = high - 10) /\ (fixed <= 15 => fixed % 16 = high) /\ high \in Nat /\ high < 20
  BY <1>6, <1>7, Mod16 DEF Digit
<1>9. n = 10 * high + (low % 16)
  BY <1>4, <1>5, <1>6, <1>7 DEF Digit, total
<1> HIDE DEF high, n
<1>10. n \in Nat /\ n < 200 /\ (n > 99 <=> fixed > 15)
  BY <1>5, <1>8, <1>9 DEF Digit
<1>11. n % 100 = 10 * (fixed % 16) + (low % 16)
  BY <1>5, <1>8, <1>9, <1>10, Mod100 DEF Digit
<1>12. Packed(n % 100) = 16 * (fixed % 16) + (low % 16)
  BY <1>5, <1>8, <1>11, PackedDigits
<1> QED BY <1>2, <1>3, <1>10, <1>12 DEF n, k, sum
LEMMA SubtractedDigits ==
  ASSUME NEW a1 \in Digit, NEW a0 \in Digit, NEW b1 \in Digit, NEW b0 \in Digit, NEW P
  PROVE  LET diff == DecimalSub(16 * a1 + a0, 16 * b1 + b0, P)
             n == 10 * a1 + a0 - (10 * b1 + b0) - (1 - Carry(P))
         IN diff.v = Packed((100 + n) % 100) /\ ("C" \in diff.P <=> n >= 0)
<1> DEFINE k == Carry(P)
<1> DEFINE bin == 256 + (16 * a1 + a0) - (16 * b1 + b0) - (1 - k)
<1> DEFINE low == 16 + a0 - b0 - (1 - k)
<1> DEFINE high == 16 + a1 - b1 - (IF low < 16 THEN 1 ELSE 0)
<1> DEFINE low1 == IF low < 16 THEN low + 10 ELSE low
<1> DEFINE high1 == IF high < 16 THEN high + 10 ELSE high
<1> DEFINE diff == DecimalSub(16 * a1 + a0, 16 * b1 + b0, P)
<1> DEFINE n == 10 * a1 + a0 - (10 * b1 + b0) - (1 - k)
<1>1. /\ (16 * a1 + a0) % 16 = a0 /\ (16 * a1 + a0) \div 16 = a1
      /\ (16 * b1 + b0) % 16 = b0 /\ (16 * b1 + b0) \div 16 = b1
  BY PackedDigits
<1>2. diff.v = 16 * (high1 % 16) + (low1 % 16)
  BY <1>1 DEF DecimalSub
<1>3. "C" \in diff.P <=> bin >= 256
  <2>1. (bin >= 256) \in BOOLEAN
    OBVIOUS
  <2>2. \E Q : diff.P = Put(Q, "C", bin >= 256)
    <3>1. diff.P = Put(Put(Put(Put(P, "Z", bin % 256 = 0), "N", Top(bin % 256, 8)), "V",
            Top(16 * a1 + a0, 8) # Top(16 * b1 + b0, 8) /\ Top(16 * a1 + a0, 8) # Top(bin % 256, 8)), "C", bin >= 256)
      BY DEF DecimalSub
    <3> HIDE DEF diff, bin
    <3> QED BY <3>1
  <2> HIDE DEF diff, bin
  <2> QED BY <2>1, <2>2, PutIs
<1>4. k \in {0, 1}
  BY CarryBit
<1> HIDE DEF k, diff
<1>5. low1 \in Nat /\ low1 < 32 /\ low \in Int
      /\ low1 % 16 = (IF low < 16 THEN low - 6 ELSE low - 16) /\ low1 % 16 \in Digit
  BY <1>4, Mod16 DEF Digit
<1> DEFINE borrow == IF low < 16 THEN 1 ELSE 0
<1>6. borrow \in {0, 1} /\ a0 - b0 - (1 - k) = (low1 % 16) - 10 * borrow
  BY <1>4, <1>5 DEF Digit
<1>7. high = 16 + a1 - b1 - borrow
  OBVIOUS
<1> HIDE DEF low, low1, borrow
<1>8. high1 \in Nat /\ high1 < 32 /\ high \in Int
      /\ high1 % 16 = (IF high < 16 THEN high - 6 ELSE high - 16) /\ high1 % 16 \in Digit
  BY <1>6, <1>7, Mod16 DEF Digit
<1> DEFINE under == IF high < 16 THEN 1 ELSE 0
<1>9. under \in {0, 1} /\ a1 - b1 - borrow = (high1 % 16) - 10 * under
  BY <1>6, <1>7, <1>8 DEF Digit
<1> HIDE DEF high, high1, under
<1>10. n = 10 * (high1 % 16) + (low1 % 16) - 100 * under
  BY <1>4, <1>5, <1>6, <1>8, <1>9 DEF Digit
<1>12. bin >= 256 <=> n >= 0
  <2>1. n >= 0 <=> 10 * (a1 - b1) + (a0 - b0 - (1 - k)) >= 0
    BY <1>4 DEF Digit
  <2>2. bin >= 256 <=> 16 * (a1 - b1) + (a0 - b0 - (1 - k)) >= 0
    BY <1>4 DEF Digit
  <2>3. a0 - b0 - (1 - k) \in Int /\ a0 - b0 - (1 - k) >= -10 /\ a0 - b0 - (1 - k) <= 9 /\ a1 - b1 \in Int
    BY <1>4 DEF Digit
  <2> DEFINE lo == a0 - b0 - (1 - k)
  <2> DEFINE hi == a1 - b1
  <2>4. 10 * hi + lo >= 0 <=> 16 * hi + lo >= 0
    <3>1. lo \in Int /\ -10 <= lo /\ lo <= 9 /\ hi \in Int
      BY <2>3
    <3> HIDE DEF lo, hi
    <3>2. CASE hi >= 1
      BY <3>1, <3>2
    <3>3. CASE hi = 0
      BY <3>1, <3>3
    <3>4. CASE hi <= -1
      BY <3>1, <3>4
    <3> QED BY <3>1, <3>2, <3>3, <3>4
  <2> QED BY <2>1, <2>2, <2>4
<1> HIDE DEF n, bin
<1>13. (100 + n) % 100 = 10 * (high1 % 16) + (low1 % 16)
  <2>1. 100 + n \in Nat /\ 100 + n < 200
        /\ 100 + n = 10 * (high1 % 16) + (low1 % 16) + 100 * (1 - under)
    BY <1>5, <1>8, <1>9, <1>10 DEF Digit
  <2> QED BY <1>5, <1>8, <1>9, <2>1, Mod100 DEF Digit
<1>14. Packed((100 + n) % 100) = 16 * (high1 % 16) + (low1 % 16)
  BY <1>5, <1>8, <1>13, PackedDigits
<1> QED BY <1>2, <1>3, <1>12, <1>14 DEF n, k, diff
LEMMA DecimalFits == ASSUME CpuInv PROVE DecimalRight
<1> SUFFICES ASSUME Unpacked(Low(cpu.C)) < 100, cpu.C % 16 < 10, NEW b \in 0 .. 99, NEW c \in {0, 1}
             PROVE LET a == Unpacked(Low(cpu.C))
                       P == Put(cpu.P, "C", c = 1)
                       sum == DecimalAdd(Low(cpu.C), Packed(b), P)
                       diff == DecimalSub(Low(cpu.C), Packed(b), P)
                   IN /\ sum.v = Packed((a + b + c) % 100) /\ ("C" \in sum.P) = (a + b + c > 99)
                      /\ diff.v = Packed((100 + a - b - (1 - c)) % 100) /\ ("C" \in diff.P) = (a - b - (1 - c) >= 0)
  BY DEF DecimalRight
<1> DEFINE P == Put(cpu.P, "C", c = 1)
<1>1. Carry(P) = c
  <2>1. (c = 1) \in BOOLEAN
    OBVIOUS
  <2>2. "C" \in P <=> c = 1
    BY <2>1, PutIs
  <2> HIDE DEF P
  <2> QED BY <2>2 DEF Carry
<1> DEFINE x == Low(cpu.C)
<1> DEFINE a1 == x \div 16
<1> DEFINE a0 == x % 16
<1>2. x \in Nat /\ x < 256 /\ x % 16 = cpu.C % 16
  BY Fields DEF Low, Words
<1>3. 10 * a1 + a0 < 100
  BY DEF Unpacked
<1> HIDE DEF x
<1>4. a1 \in Digit /\ a0 \in Digit /\ x = 16 * a1 + a0
  BY <1>2, <1>3 DEF Digit
<1> DEFINE b1 == b \div 10
<1> DEFINE b0 == b % 10
<1>5. b \in Nat /\ b < 100
  OBVIOUS
<1>6. b1 \in Digit /\ b0 \in Digit /\ b = 10 * b1 + b0
  BY <1>5, Hundred
<1>7. Unpacked(x) = 10 * a1 + a0
  BY DEF Unpacked
<1> HIDE DEF a1, a0, b1, b0, P
<1>8. Packed(b) = 16 * b1 + b0
  BY <1>6, PackedDigits
<1> DEFINE sum == DecimalAdd(x, Packed(b), P)
<1> DEFINE diff == DecimalSub(x, Packed(b), P)
<1> DEFINE a == Unpacked(x)
<1>9. sum.v = Packed((a + b + c) % 100) /\ ("C" \in sum.P <=> a + b + c > 99)
  BY <1>1, <1>4, <1>6, <1>7, <1>8, AddedDigits
<1>10. diff.v = Packed((100 + (a - b - (1 - c))) % 100) /\ ("C" \in diff.P <=> a - b - (1 - c) >= 0)
  <2>1. diff = DecimalSub(16 * a1 + a0, 16 * b1 + b0, P)
    BY <1>4, <1>8
  <2> DEFINE n == 10 * a1 + a0 - (10 * b1 + b0) - (1 - Carry(P))
  <2>2. n = a - b - (1 - c)
    BY <1>1, <1>4, <1>5, <1>6, <1>7 DEF Digit
  <2>3. diff.v = Packed((100 + n) % 100) /\ ("C" \in diff.P <=> n >= 0)
    BY <1>4, <1>6, <2>1, SubtractedDigits
  <2> HIDE DEF n, diff, a
  <2> QED BY <2>2, <2>3
<1>11. a \in Nat /\ 100 + (a - b - (1 - c)) = 100 + a - b - (1 - c)
  BY <1>4, <1>5, <1>7 DEF Digit
<1> HIDE DEF sum, diff, a
<1>12. /\ sum.v = Packed((a + b + c) % 100) /\ ("C" \in sum.P) = (a + b + c > 99)
       /\ diff.v = Packed((100 + a - b - (1 - c)) % 100) /\ ("C" \in diff.P) = (a - b - (1 - c) >= 0)
  BY <1>9, <1>10, <1>11
<1> QED BY <1>12 DEF sum, diff, a, x, P

\* op_adc and op_sbc in decimal mode are the packed sum and difference of every pair
\* of packed bytes, with their carry, from every accumulator a program reaches.
THEOREM DecimalModeRight == ReturnsSpec => []DecimalRight
  BY RegistersHold, DecimalFits, PTL

(* Calls and interrupts come back *)
\* How many cells a return takes, where each is, and what they give back.
Size(h) == CASE h.by = \h60 -> 2 [] h.by = \h6B -> 3 [] OTHER -> IF h.before.E THEN 3 ELSE 4
At(h, k) ==
  IF k = 0 THEN h.before.S
  ELSE IF h.before.E THEN 256 + ((h.before.S + 256 - k) % 256) ELSE (h.before.S + 65536 - k) % 65536
Held(h, k) == h.cells[At(h, k)]
Unused(h) == IF h.before.E THEN {"M", "X"} ELSE {}
HomeRight(h) ==
  /\ h.by \in {\h60, \h6B, \h40} /\ h.pc \in Words /\ (h.by = \h6B => ~h.before.E)
  /\ h.before.S \in Words /\ (h.before.E => 256 <= h.before.S /\ h.before.S < 512)
  /\ h.top = At(h, Size(h))
  /\ \A k \in 0 .. 3 : k < Size(h) => At(h, k) \in DOMAIN h.cells
  /\ h.by = \h60 => (Word(Held(h, 1), Held(h, 0)) + 1) % 65536 = h.pc
  /\ h.by = \h6B => Held(h, 0) = h.before.PBR /\ (Word(Held(h, 2), Held(h, 1)) + 1) % 65536 = h.pc
  /\ h.by = \h40 =>
       /\ Word(Held(h, Size(h) - 2), Held(h, Size(h) - 3)) = h.pc
       /\ FlagsOf(Held(h, Size(h) - 1)) \ Unused(h) = h.before.P \ Unused(h)
       /\ ~h.before.E => Held(h, 0) = h.before.PBR
HomesInv == \A h \in homes : HomeRight(h)

\* One bit more of a number: n is the bits below w, then b, then the rest.
BitOf(n, w, b, rest) == (n \div w) % 2 = b /\ \E l \in Nat : l < 2 * w /\ n = l + 2 * w * rest
LEMMA BitAt ==
  ASSUME NEW w \in {1, 2, 4, 8, 16, 32, 64, 128}, NEW b \in Nat, b <= 1, NEW rest \in Nat,
         NEW n, \E l \in Nat : l < w /\ n = l + w * (b + 2 * rest)
  PROVE  BitOf(n, w, b, rest)
<1>0. PICK l \in Nat : l < w /\ n = l + w * (b + 2 * rest)
  OBVIOUS
<1> DEFINE q == b + 2 * rest
<1>1. q \in Nat /\ q % 2 = b
  OBVIOUS
<1>2. n = l + w * q
  BY <1>0
<1> HIDE DEF q
<1>3. n \div w = q
  <2>1. CASE w = 1
    BY <1>0, <1>1, <1>2, <2>1
  <2>2. CASE w = 2
    BY <1>0, <1>1, <1>2, <2>2
  <2>3. CASE w = 4
    BY <1>0, <1>1, <1>2, <2>3
  <2>4. CASE w = 8
    BY <1>0, <1>1, <1>2, <2>4
  <2>5. CASE w = 16
    BY <1>0, <1>1, <1>2, <2>5
  <2>6. CASE w = 32
    BY <1>0, <1>1, <1>2, <2>6
  <2>7. CASE w = 64
    BY <1>0, <1>1, <1>2, <2>7
  <2>8. CASE w = 128
    BY <1>0, <1>1, <1>2, <2>8
  <2> QED BY <2>1, <2>2, <2>3, <2>4, <2>5, <2>6, <2>7, <2>8
<1>4. l + w * b \in Nat /\ l + w * b < 2 * w /\ n = l + w * b + 2 * w * rest
  <2>1. CASE w = 1
    BY <1>0, <2>1
  <2>2. CASE w = 2
    BY <1>0, <2>2
  <2>3. CASE w = 4
    BY <1>0, <2>3
  <2>4. CASE w = 8
    BY <1>0, <2>4
  <2>5. CASE w = 16
    BY <1>0, <2>5
  <2>6. CASE w = 32
    BY <1>0, <2>6
  <2>7. CASE w = 64
    BY <1>0, <2>7
  <2>8. CASE w = 128
    BY <1>0, <2>8
  <2> QED BY <2>1, <2>2, <2>3, <2>4, <2>5, <2>6, <2>7, <2>8
<1> QED BY <1>1, <1>3, <1>4 DEF BitOf
LEMMA FlagsBack == ASSUME NEW P \in SUBSET Flags PROVE FlagsOf(ByteOf(P)) = P
<1> DEFINE b(f) == IF f \in P THEN 1 ELSE 0
<1> DEFINE n == b("C") + 2 * b("Z") + 4 * b("I") + 8 * b("D") + 16 * b("X") + 32 * b("M") + 64 * b("V") + 128 * b("N")
<1> DEFINE bits == {Weight[f] : f \in P}
<1>1. \A f \in Flags : b(f) \in {0, 1}
  OBVIOUS
<1>2. \A w \in {256, 512, 1024, 2048, 4096, 8192, 16384, 32768} : w \notin bits
  BY FlagNames DEF Weight
<1>3. /\ 1 \in bits <=> "C" \in P
      /\ 2 \in bits <=> "Z" \in P
      /\ 4 \in bits <=> "I" \in P
      /\ 8 \in bits <=> "D" \in P
      /\ 16 \in bits <=> "X" \in P
      /\ 32 \in bits <=> "M" \in P
      /\ 64 \in bits <=> "V" \in P
      /\ 128 \in bits <=> "N" \in P
  BY FlagNames DEF Weight
<1>4. ByteOf(P) = n
  <2> HIDE DEF bits
  <2>1. Number(bits) = n
    BY <1>2, <1>3 DEF Number
  <2> QED BY <2>1 DEF ByteOf, bits
<1>5. /\ b("C") \in Nat /\ b("C") <= 1
      /\ b("Z") \in Nat /\ b("Z") <= 1
      /\ b("I") \in Nat /\ b("I") <= 1
      /\ b("D") \in Nat /\ b("D") <= 1
      /\ b("X") \in Nat /\ b("X") <= 1
      /\ b("M") \in Nat /\ b("M") <= 1
      /\ b("V") \in Nat /\ b("V") <= 1
      /\ b("N") \in Nat /\ b("N") <= 1
  OBVIOUS
<1>6. /\ (n \div 1) % 2 = b("C") /\ (n \div 2) % 2 = b("Z") /\ (n \div 4) % 2 = b("I") /\ (n \div 8) % 2 = b("D")
      /\ (n \div 16) % 2 = b("X") /\ (n \div 32) % 2 = b("M") /\ (n \div 64) % 2 = b("V") /\ (n \div 128) % 2 = b("N")
  <2> DEFINE c == b("C")
         z == b("Z")
         i == b("I")
         d == b("D")
         x == b("X")
         m == b("M")
         v == b("V")
         g == b("N")
  <2>0. c \in Nat /\ c <= 1 /\ z \in Nat /\ z <= 1 /\ i \in Nat /\ i <= 1 /\ d \in Nat /\ d <= 1 /\ x \in Nat /\ x <= 1 /\ m \in Nat /\ m <= 1 /\ v \in Nat /\ v <= 1 /\ g \in Nat /\ g <= 1
    BY <1>5
  <2>9. n = c + 2 * z + 4 * i + 8 * d + 16 * x + 32 * m + 64 * v + 128 * g
    OBVIOUS
  <2> HIDE DEF b, c, z, i, d, x, m, v, g, n
  <2> DEFINE h7 == g + 2 * 0
  <2> DEFINE h6 == v + 2 * h7
  <2> DEFINE h5 == m + 2 * h6
  <2> DEFINE h4 == x + 2 * h5
  <2> DEFINE h3 == d + 2 * h4
  <2> DEFINE h2 == i + 2 * h3
  <2> DEFINE h1 == z + 2 * h2
  <2>1. h1 \in Nat /\ h2 \in Nat /\ h3 \in Nat /\ h4 \in Nat /\ h5 \in Nat /\ h6 \in Nat /\ h7 \in Nat
    BY <2>0
  <2>2. n = 0 + 1 * (c + 2 * h1)
    BY <2>0, <2>9
  <2>a. h1 = z + 2 * h2 /\ h2 = i + 2 * h3 /\ h3 = d + 2 * h4 /\ h4 = x + 2 * h5 /\ h5 = m + 2 * h6 /\ h6 = v + 2 * h7 /\ h7 = g + 2 * 0
    OBVIOUS
  <2> HIDE DEF h1, h2, h3, h4, h5, h6, h7
  <2>10. BitOf(n, 1, c, h1)
    <3>1. \E l \in Nat : l < 1 /\ n = l + 1 * (c + 2 * h1)
      BY <2>2
    <3> QED BY <2>0, <2>1, <3>1, BitAt
  <2>11. BitOf(n, 2, z, h2)
    <3>1. \E l \in Nat : l < 2 /\ n = l + 2 * h1
      BY <2>10 DEF BitOf
    <3>2. \E l \in Nat : l < 2 /\ n = l + 2 * (z + 2 * h2)
      BY <2>a, <3>1
    <3> QED BY <2>0, <2>1, <3>2, BitAt
  <2>12. BitOf(n, 4, i, h3)
    <3>1. \E l \in Nat : l < 4 /\ n = l + 4 * h2
      BY <2>11 DEF BitOf
    <3>2. \E l \in Nat : l < 4 /\ n = l + 4 * (i + 2 * h3)
      BY <2>a, <3>1
    <3> QED BY <2>0, <2>1, <3>2, BitAt
  <2>13. BitOf(n, 8, d, h4)
    <3>1. \E l \in Nat : l < 8 /\ n = l + 8 * h3
      BY <2>12 DEF BitOf
    <3>2. \E l \in Nat : l < 8 /\ n = l + 8 * (d + 2 * h4)
      BY <2>a, <3>1
    <3> QED BY <2>0, <2>1, <3>2, BitAt
  <2>14. BitOf(n, 16, x, h5)
    <3>1. \E l \in Nat : l < 16 /\ n = l + 16 * h4
      BY <2>13 DEF BitOf
    <3>2. \E l \in Nat : l < 16 /\ n = l + 16 * (x + 2 * h5)
      BY <2>a, <3>1
    <3> QED BY <2>0, <2>1, <3>2, BitAt
  <2>15. BitOf(n, 32, m, h6)
    <3>1. \E l \in Nat : l < 32 /\ n = l + 32 * h5
      BY <2>14 DEF BitOf
    <3>2. \E l \in Nat : l < 32 /\ n = l + 32 * (m + 2 * h6)
      BY <2>a, <3>1
    <3> QED BY <2>0, <2>1, <3>2, BitAt
  <2>16. BitOf(n, 64, v, h7)
    <3>1. \E l \in Nat : l < 64 /\ n = l + 64 * h6
      BY <2>15 DEF BitOf
    <3>2. \E l \in Nat : l < 64 /\ n = l + 64 * (v + 2 * h7)
      BY <2>a, <3>1
    <3> QED BY <2>0, <2>1, <3>2, BitAt
  <2>17. BitOf(n, 128, g, 0)
    <3>1. \E l \in Nat : l < 128 /\ n = l + 128 * h7
      BY <2>16 DEF BitOf
    <3>2. \E l \in Nat : l < 128 /\ n = l + 128 * (g + 2 * 0)
      BY <2>a, <3>1
    <3> QED BY <2>0, <2>1, <3>2, BitAt
  <2> QED BY <2>10, <2>11, <2>12, <2>13, <2>14, <2>15, <2>16, <2>17 DEF BitOf, c, z, i, d, x, m, v, g
<1> HIDE DEF n
<1>7. \A f \in Flags : (n \div Weight[f]) % 2 = b(f)
  BY <1>6, FlagNames DEF Weight
<1>8. \A f \in Flags : Weight[f] \in Weights
  BY FlagNames DEF Weight, Weights
<1>9. \A f \in Flags : f \in FlagsOf(n) <=> f \in P
  BY <1>7, <1>8 DEF FlagsOf, BitsOf
<1>10. FlagsOf(n) \subseteq Flags
  BY FlagsOfFlags
<1> QED BY <1>4, <1>9, <1>10

LEMMA DoneParts ==
  ASSUME NEW c, NEW pc, NEW m, NEW x, Done(c, pc, m, x), c \in Registers, pc \in Words
  PROVE  cpu'.PC = pc /\ cpu'.S = c.S /\ cpu'.P = c.P /\ cpu'.PBR = c.PBR /\ mem' = m
<1> DEFINE r == [c EXCEPT !.PC = pc]
<1>1. r \in Registers /\ r.PC = pc /\ r.S = c.S /\ r.P = c.P /\ r.PBR = c.PBR
  BY DEF Registers
<1>2. cpu' = Woken(r, line') /\ mem' = m
  BY DEF Done
<1> HIDE DEF r
<1>3. \E h : cpu' = [r EXCEPT !.halt = h]
  BY <1>2 DEF Woken
<1> QED BY <1>1, <1>2, <1>3 DEF Registers
LEMMA BelowApart == ASSUME CpuInv, NEW j \in {0, 1, 2, 3}, NEW k \in {0, 1, 2, 3}, Below(j) = Below(k) PROVE j = k
<1>1. cpu.S \in Nat /\ cpu.S < 65536 /\ (cpu.E => 256 <= cpu.S /\ cpu.S < 512)
  BY Fields DEF Words
<1> DEFINE s == cpu.S
<1> HIDE DEF s
<1>2. CASE cpu.E
  <2>1. s \in Nat /\ 256 <= s /\ s < 512
    BY <1>1, <1>2 DEF s
  <2>2. \A i \in {0, 1, 2, 3} : Below(i) = IF s - i >= 256 THEN s - i ELSE s - i + 256
    BY <1>2, <2>1 DEF Below, Down, s
  <2> QED BY <2>1, <2>2
<1>3. CASE ~cpu.E
  <2>1. s \in Nat /\ s < 65536
    BY <1>1 DEF s
  <2>2. \A i \in {0, 1, 2, 3} : Below(i) = IF s - i >= 0 THEN s - i ELSE s - i + 65536
    BY <1>3, <2>1 DEF Below, Down, s
  <2> QED BY <2>1, <2>2
<1> QED BY <1>2, <1>3
LEMMA OntoCells ==
  ASSUME CpuInv, NEW bytes, NEW n \in {2, 3, 4}, DOMAIN bytes = 1 .. n, NEW k \in {1, 2, 3, 4}, k <= n
  PROVE  Below(k - 1) \in DOMAIN Onto(bytes) /\ Onto(bytes)[Below(k - 1)] = bytes[k]
<1> DEFINE at(a) == CHOOSE j \in DOMAIN bytes : a = Below(j - 1)
<1> DEFINE f == [a \in {Below(j - 1) : j \in DOMAIN bytes} |-> bytes[at(a)]]
<1>1. k \in DOMAIN bytes
  OBVIOUS
<1>2. at(Below(k - 1)) \in DOMAIN bytes /\ Below(k - 1) = Below(at(Below(k - 1)) - 1)
  BY <1>1
<1>3. at(Below(k - 1)) = k
  <2> DEFINE j == at(Below(k - 1))
  <2>1. j \in {1, 2, 3, 4} /\ Below(k - 1) = Below(j - 1)
    BY <1>2
  <2> HIDE DEF j
  <2>2. k - 1 \in {0, 1, 2, 3} /\ j - 1 \in {0, 1, 2, 3}
    BY <2>1
  <2>3. k - 1 = j - 1
    BY <2>1, <2>2, BelowApart
  <2> QED BY <2>1, <2>3 DEF j
<1>4. Below(k - 1) \in DOMAIN f /\ f[Below(k - 1)] = bytes[k]
  BY <1>1, <1>3
<1>5. Onto(bytes) = Over(f, mem)
  BY DEF Onto
<1> HIDE DEF f
<1> QED BY <1>4, <1>5 DEF Over

\* What a step that pushed some bytes and dropped the stack by as many remembers.
LEMMA HomeMade ==
  ASSUME CpuInv, NEW by, NEW pc, NEW n \in {2, 3, 4}, NEW bytes, DOMAIN bytes = 1 .. n,
         mem' = Onto(bytes), cpu'.S = Below(n), NEW h, h = Home(by, pc, n)
  PROVE  /\ h.by = by /\ h.pc = pc /\ h.before = cpu /\ h.top = At(h, n)
         /\ \A k \in 0 .. 3 : k < n => At(h, k) \in DOMAIN h.cells /\ Held(h, k) = bytes[k + 1]
<1>1. h.by = by /\ h.pc = pc /\ h.before = cpu /\ h.top = cpu'.S
      /\ h.cells = [a \in {Below(k) : k \in 0 .. n - 1} |-> mem'[a]]
  BY DEF Home
<1>2. \A k : At(h, k) = Below(k)
  BY <1>1 DEF At, Below, Down
<1>3. ASSUME NEW k \in 0 .. 3, k < n
      PROVE  At(h, k) \in DOMAIN h.cells /\ Held(h, k) = bytes[k + 1]
  <2>1. k + 1 \in {1, 2, 3, 4} /\ k + 1 <= n /\ (k + 1) - 1 = k /\ k \in 0 .. n - 1
    BY <1>3
  <2>2. Onto(bytes)[Below(k)] = bytes[k + 1]
    BY <2>1, OntoCells
  <2>3. Below(k) \in DOMAIN h.cells /\ h.cells[Below(k)] = mem'[Below(k)]
    BY <1>1, <2>1
  <2> QED BY <1>2, <2>2, <2>3 DEF Held
<1>4. h.top = At(h, n)
  BY <1>1, <1>2
<1> QED BY <1>1, <1>3, <1>4
LEMMA WordParts == \A w \in Words : Word(Low(w), High(w)) = w
  BY DEF Word, Low, High, Words
LEMMA Restores == ASSUME CpuInv
  PROVE  LET unused == IF cpu.E THEN {"M", "X"} ELSE {} IN
         FlagsOf(PushedP) \ unused = cpu.P \ unused /\ FlagsOf(MaskedP) \ unused = cpu.P \ unused
<1>1. cpu.P \in SUBSET Flags
  BY Fields
<1>2. CASE cpu.E
  <2>1. cpu.P \union {"X", "M"} \in SUBSET Flags /\ (cpu.P \ {"X"}) \union {"M"} \in SUBSET Flags
    BY <1>1, FlagNames
  <2>2. FlagsOf(PushedP) = cpu.P \union {"X", "M"} /\ FlagsOf(MaskedP) = (cpu.P \ {"X"}) \union {"M"}
    BY <1>2, <2>1, FlagsBack DEF PushedP, MaskedP
  <2> QED BY <1>2, <2>2
<1>3. CASE ~cpu.E
  <2>1. FlagsOf(PushedP) = cpu.P /\ FlagsOf(MaskedP) = cpu.P
    BY <1>1, <1>3, FlagsBack DEF PushedP, MaskedP
  <2> QED BY <1>3, <2>1
<1> QED BY <1>2, <1>3
LEMMA Pushed ==
  ASSUME CpuInv, NEW n \in Nat, NEW c, NEW pc \in Words, NEW m, NEW x, Done(c, pc, m, x), c \in Registers,
         c.S = Below(n)
  PROVE  cpu'.S = Below(n) /\ mem' = m
  BY DoneParts
LEMMA ServiceHome ==
  ASSUME CpuAssumption, CpuInv, NEW pc \in Words, NEW byte \in {PushedP, MaskedP}, NEW vector \in Words,
         NEW cleared, NEW halt \in {"stp", "wai", "no"}, Service(pc, byte, vector, cleared, halt)
  PROVE  HomeRight(InterruptHome(pc))
<1> DEFINE bytes == (IF cpu.E THEN <<>> ELSE <<cpu.PBR>>) \o PushWord(pc) \o <<byte>>
<1> DEFINE n == Len(bytes)
<1> DEFINE d == Dropped(n)
<1> DEFINE c == [d EXCEPT !.PBR = IF cpu.E THEN @ ELSE 0, !.halt = halt, !.P = (@ \union {"I"}) \ cleared]
<1> DEFINE h == InterruptHome(pc)
<1>1. Done(c, Word16(vector, vector + 1), Onto(bytes), 0)
  BY DEF Service
<1>2. byte \in Byte
  BY PushedPByte
<1>3. /\ cpu.E => bytes = <<High(pc), Low(pc), byte>> /\ n = 3
      /\ ~cpu.E => bytes = <<cpu.PBR, High(pc), Low(pc), byte>> /\ n = 4
  BY <1>2, ServiceBytes
<1>4. Word16(vector, vector + 1) \in Words
  <2>1. vector \in Space /\ vector + 1 \in Space
    BY DEF Words, Space
  <2> QED BY <2>1, Word16Word
<1>5. DOMAIN bytes = 1 .. n /\ n \in {3, 4}
  <2> HIDE DEF bytes
  <2> HIDE DEF n
  <2>1. CASE cpu.E
    <3>1. bytes = <<High(pc), Low(pc), byte>> /\ n = 3
      BY <1>3, <2>1
    <3> QED BY <3>1
  <2>2. CASE ~cpu.E
    <3>1. bytes = <<cpu.PBR, High(pc), Low(pc), byte>> /\ n = 4
      BY <1>3, <2>2
    <3> QED BY <3>1
  <2> QED BY <2>1, <2>2
<1> HIDE DEF bytes
<1>6. d = [cpu EXCEPT !.S = Below(n)] /\ StackFits(Below(n))
  BY <1>5, DroppedIs, BelowFits
<1> HIDE DEF n
<1>7. d \in Registers /\ d.S = Below(n) /\ d.PBR = cpu.PBR /\ d.P = cpu.P
  BY <1>6 DEF CpuInv, Registers, StackFits
<1> HIDE DEF d
<1>8. cpu'.S = Below(n) /\ mem' = Onto(bytes)
  <2> DEFINE b == IF cpu.E THEN d.PBR ELSE 0
  <2> DEFINE Q == (d.P \union {"I"}) \ cleared
  <2>1. b \in Byte
    BY <1>7 DEF Registers, Byte
  <2>2. Q \in SUBSET Flags
    BY <1>7, FlagNames DEF Registers
  <2>3. c = [d EXCEPT !.PBR = b, !.halt = halt, !.P = Q]
    BY <1>7 DEF Registers
  <2> HIDE DEF b, Q, c
  <2>4. c \in Registers /\ c.S = Below(n)
    BY <1>7, <2>1, <2>2, <2>3 DEF Registers
  <2> QED BY <1>1, <1>4, <2>4, DoneParts
<1>9. h = Home(\h40, pc, n)
  BY <1>3 DEF InterruptHome
<1> HIDE DEF h
<1> HIDE DEF c
<1>10. h.by = \h40 /\ h.pc = pc /\ h.before = cpu /\ h.top = At(h, n)
       /\ \A k \in 0 .. 3 : k < n => At(h, k) \in DOMAIN h.cells /\ Held(h, k) = bytes[k + 1]
  <2>1. CASE n = 3
    <3>1. DOMAIN bytes = 1 .. 3 /\ cpu'.S = Below(3) /\ h = Home(\h40, pc, 3)
      BY <1>5, <1>8, <1>9, <2>1
    <3>2. h.by = \h40 /\ h.pc = pc /\ h.before = cpu /\ h.top = At(h, 3)
          /\ \A k \in 0 .. 3 : k < 3 => At(h, k) \in DOMAIN h.cells /\ Held(h, k) = bytes[k + 1]
      BY <1>8, <3>1, HomeMade
    <3> QED BY <2>1, <3>2
  <2>2. CASE n = 4
    <3>1. DOMAIN bytes = 1 .. 4 /\ cpu'.S = Below(4) /\ h = Home(\h40, pc, 4)
      BY <1>5, <1>8, <1>9, <2>2
    <3>2. h.by = \h40 /\ h.pc = pc /\ h.before = cpu /\ h.top = At(h, 4)
          /\ \A k \in 0 .. 3 : k < 4 => At(h, k) \in DOMAIN h.cells /\ Held(h, k) = bytes[k + 1]
      BY <1>8, <3>1, HomeMade
    <3> QED BY <2>2, <3>2
  <2> QED BY <1>5, <2>1, <2>2
<1>11. Size(h) = n
  BY <1>3, <1>10 DEF Size
<1>12. cpu.S \in Words /\ (cpu.E => 256 <= cpu.S /\ cpu.S < 512)
  BY Fields
<1>13. Word(Low(pc), High(pc)) = pc
  BY WordParts
<1>14. FlagsOf(byte) \ Unused(h) = h.before.P \ Unused(h)
  BY <1>10, Restores DEF Unused
<1>15. Held(h, n - 1) = byte /\ Held(h, n - 2) = Low(pc) /\ Held(h, n - 3) = High(pc) /\ (~cpu.E => Held(h, 0) = cpu.PBR)
  <2>1. CASE cpu.E
    <3>1. n = 3 /\ bytes[1] = High(pc) /\ bytes[2] = Low(pc) /\ bytes[3] = byte
      BY <1>3, <2>1
    <3>2. Held(h, 0) = bytes[1] /\ Held(h, 1) = bytes[2] /\ Held(h, 2) = bytes[3]
      BY <1>10, <3>1
    <3> QED BY <2>1, <3>1, <3>2
  <2>2. CASE ~cpu.E
    <3>1. n = 4 /\ bytes[1] = cpu.PBR /\ bytes[2] = High(pc) /\ bytes[3] = Low(pc) /\ bytes[4] = byte
      BY <1>3, <2>2
    <3>2. Held(h, 0) = bytes[1] /\ Held(h, 1) = bytes[2] /\ Held(h, 2) = bytes[3] /\ Held(h, 3) = bytes[4]
      BY <1>10, <3>1
    <3> QED BY <2>2, <3>1, <3>2
  <2> QED BY <2>1, <2>2
<1>16. HomeRight(h)
  BY <1>10, <1>11, <1>12, <1>13, <1>14, <1>15 DEF HomeRight
<1> QED BY <1>16 DEF h
LEMMA CallHome == ASSUME CpuAssumption, CpuInv, Call PROVE HomeRight(Home(\h60, After(2), 2))
<1> DEFINE pc == After(1)
<1> DEFINE bytes == PushWord(pc)
<1> DEFINE h == Home(\h60, After(2), 2)
<1>1. Done(Dropped(2), Operand, Onto(bytes), 0)
  BY DEF Call
<1>2. pc \in Words /\ After(2) \in Words /\ (pc + 1) % 65536 = After(2)
  <2>1. cpu.PC \in Nat
    BY Fields DEF Words
  <2> QED BY <2>1, AfterWord DEF After
<1> HIDE DEF pc
<1>3. DOMAIN bytes = 1 .. 2 /\ bytes[1] = High(pc) /\ bytes[2] = Low(pc)
  BY DEF PushWord
<1> HIDE DEF bytes
<1>4. Dropped(2) \in Registers /\ Dropped(2).S = Below(2)
  <2>1. Dropped(2) = [cpu EXCEPT !.S = Below(2)] /\ StackFits(Below(2))
    BY DroppedIs, BelowFits
  <2> QED BY <2>1 DEF CpuInv, Registers, StackFits
<1>5. cpu'.S = Below(2) /\ mem' = Onto(bytes)
  BY <1>1, <1>4, OperandWord, DoneParts
<1>6. h.by = \h60 /\ h.pc = After(2) /\ h.before = cpu /\ h.top = At(h, 2)
      /\ \A k \in 0 .. 3 : k < 2 => At(h, k) \in DOMAIN h.cells /\ Held(h, k) = bytes[k + 1]
  BY <1>3, <1>5, HomeMade
<1> HIDE DEF h
<1>7. Size(h) = 2
  BY <1>6 DEF Size
<1>8. Held(h, 0) = High(pc) /\ Held(h, 1) = Low(pc)
  BY <1>3, <1>6
<1>9. Word(Low(pc), High(pc)) = pc
  BY <1>2, WordParts
<1>10. cpu.S \in Words /\ (cpu.E => 256 <= cpu.S /\ cpu.S < 512)
  BY Fields
<1>11. HomeRight(h)
  BY <1>2, <1>6, <1>7, <1>8, <1>9, <1>10 DEF HomeRight
<1> QED BY <1>11 DEF h
LEMMA CallLongHome == ASSUME CpuAssumption, CpuInv, CallLong, Native PROVE HomeRight(Home(\h6B, After(3), 3))
<1> DEFINE pc == After(2)
<1> DEFINE bytes == <<cpu.PBR>> \o PushWord(pc)
<1> DEFINE h == Home(\h6B, After(3), 3)
<1> DEFINE c == [Dropped(3) EXCEPT !.PBR = ir[4]]
<1>1. Done(c, Operand, Onto(bytes), 0) /\ ~cpu.E
  BY DEF CallLong, Native, Skip
<1>2. pc \in Words /\ After(3) \in Words /\ (pc + 1) % 65536 = After(3)
  <2>1. cpu.PC \in Nat
    BY Fields DEF Words
  <2> QED BY <2>1, AfterWord DEF After
<1> HIDE DEF pc
<1>3. DOMAIN bytes = 1 .. 3 /\ bytes[1] = cpu.PBR /\ bytes[2] = High(pc) /\ bytes[3] = Low(pc)
  <2>1. High(pc) \in Byte /\ Low(pc) \in Byte /\ cpu.PBR \in Byte
    BY <1>2, LowHigh, Fields DEF Words
  <2>2. bytes = <<cpu.PBR, High(pc), Low(pc)>>
    BY <2>1, OneAndTwo DEF PushWord
  <2> HIDE DEF bytes
  <2> QED BY <2>2
<1> HIDE DEF bytes
<1>4. c \in Registers /\ c.S = Below(3)
  <2>1. Dropped(3) = [cpu EXCEPT !.S = Below(3)] /\ StackFits(Below(3)) /\ ir[4] \in Byte
    BY DroppedIs, BelowFits, IrBytes
  <2> QED BY <2>1 DEF CpuInv, Registers, StackFits
<1> HIDE DEF c
<1>5. cpu'.S = Below(3) /\ mem' = Onto(bytes)
  BY <1>1, <1>4, OperandWord, DoneParts
<1>6. h.by = \h6B /\ h.pc = After(3) /\ h.before = cpu /\ h.top = At(h, 3)
      /\ \A k \in 0 .. 3 : k < 3 => At(h, k) \in DOMAIN h.cells /\ Held(h, k) = bytes[k + 1]
  BY <1>3, <1>5, HomeMade
<1> HIDE DEF h
<1>7. Size(h) = 3
  BY <1>6 DEF Size
<1>8. Held(h, 0) = cpu.PBR /\ Held(h, 1) = High(pc) /\ Held(h, 2) = Low(pc)
  BY <1>3, <1>6
<1>9. Word(Low(pc), High(pc)) = pc
  BY <1>2, WordParts
<1>10. cpu.S \in Words
  BY Fields
<1>11. HomeRight(h)
  BY <1>1, <1>2, <1>6, <1>7, <1>8, <1>9, <1>10 DEF HomeRight
<1> QED BY <1>11 DEF h

\* The opcodes of the calls and the returns belong to one action each.
Stacked == {0, 2, \h20, \h22, \h40, \h60, \h6B}
LEMMA AluApart == ASSUME op \in Stacked, NEW base \in {0, 32, 64, 96, 128, 160, 192, 224} PROVE op - base \notin Offsets
  BY DEF Stacked, Offsets, NearOffsets
LEMMA ShiftApart == ASSUME op \in Stacked, NEW base \in {0, 32, 64, 96, 192, 224} PROVE op - base \notin DOMAIN ShiftModes
  BY DEF Stacked, ShiftModes
LEMMA ApartLoads == ASSUME op \in Stacked
  PROVE ~LoadA /\ ~StoreA /\ ~StoreALong /\ ~AddSub /\ ~Logic /\ ~CompareA
<1>1. \A base \in {0, 32, 64, 96, 128, 160, 192, 224} : op - base \notin Offsets
  BY AluApart
<1>2. ~LoadA /\ ~AddSub /\ ~Logic /\ ~CompareA
  BY <1>1 DEF LoadA, AddSub, Logic, CompareA, SkipsLong, Decoded, IsAlu
<1>3. ~StoreA /\ ~StoreALong
  BY <1>1 DEF StoreA, StoreALong, SkipsLong, Offsets
<1> QED BY <1>2, <1>3
LEMMA ApartShifts == ASSUME op \in Stacked PROVE ~ShiftMem /\ ~IncMem /\ ~DecMem
  BY ShiftApart DEF ShiftMem, IncMem, DecMem, Modify
LEMMA ApartIndexes == ASSUME op \in Stacked
  PROVE  ~LoadX /\ ~LoadY /\ ~StoreX /\ ~StoreY /\ ~StoreZero /\ ~CountIndex
<1>1. LoadX => op \in {\hA2, \hA6, \hB6, \hAE, \hBE}
  <2>1. LoadX => \E c \in {<<\hA2, "imm">>, <<\hA6, "zp">>, <<\hB6, "zpy">>, <<\hAE, "abs">>, <<\hBE, "aby">>} : op = c[1]
    BY ZenonT(60) DEF LoadX, LoadIndex
  <2> QED BY <2>1
<1>2. LoadY => op \in {\hA0, \hA4, \hB4, \hAC, \hBC}
  <2>1. LoadY => \E c \in {<<\hA0, "imm">>, <<\hA4, "zp">>, <<\hB4, "zpx">>, <<\hAC, "abs">>, <<\hBC, "abx">>} : op = c[1]
    BY ZenonT(60) DEF LoadY, LoadIndex
  <2> QED BY <2>1
<1>3. StoreX => op \in {\h86, \h96, \h8E}
  <2>1. StoreX => \E c \in {<<\h86, "zp">>, <<\h96, "zpy">>, <<\h8E, "abs">>} : op = c[1]
    BY ZenonT(60) DEF StoreX, StoreIndex
  <2> QED BY <2>1
<1>4. StoreY => op \in {\h84, \h94, \h8C}
  <2>1. StoreY => \E c \in {<<\h84, "zp">>, <<\h94, "zpx">>, <<\h8C, "abs">>} : op = c[1]
    BY ZenonT(60) DEF StoreY, StoreIndex
  <2> QED BY <2>1
<1>5. StoreZero => op \in {\h9C, \h9E, \h64, \h74}
  <2>1. StoreZero => \E c \in {<<\h9C, "abs">>, <<\h9E, "abx">>, <<\h64, "zp">>, <<\h74, "zpx">>} : op = c[1]
    BY ZenonT(60) DEF StoreZero
  <2> QED BY <2>1
<1>6. CountIndex => op \in {\hE8, \hC8, \hCA, \h88}
  <2>1. CountIndex => \E c \in {<<\hE8, "X", 1>>, <<\hC8, "Y", 1>>, <<\hCA, "X", -1>>, <<\h88, "Y", -1>>} : op = c[1]
    BY ZenonT(60) DEF CountIndex
  <2> QED BY <2>1
<1> QED BY <1>1, <1>2, <1>3, <1>4, <1>5, <1>6 DEF Stacked
LEMMA ApartCompare == ASSUME op \in Stacked PROVE ~CompareIndex
<1>1. CompareIndex => \E reg \in {"X", "Y"}, c \in {<<0, "imm">>, <<4, "zp">>, <<12, "abs">>} :
                         op = (IF reg = "X" THEN \hE0 ELSE \hC0) + c[1]
  BY DEF CompareIndex
<1> QED BY <1>1 DEF Stacked
LEMMA ApartTransfers == ASSUME op \in Stacked
  PROVE  ~TransferIndex /\ ~TransferA /\ ~TransferWord /\ ~TransferStack /\ ~Exchange /\ ~BitTest /\ ~CountA
<1>1. TransferIndex => op \in {\hAA, \hA8, \h9B, \hBB, \hBA}
  <2> DEFINE codes == {<<\hAA, "X", cpu.C>>, <<\hA8, "Y", cpu.C>>, <<\h9B, "Y", Index("X")>>, <<\hBB, "X", Index("Y")>>,
                      <<\hBA, "X", IF WidthX = 8 THEN Low(cpu.S) ELSE cpu.S>>}
  <2> DEFINE Change(t) == LET v == t[3] % Span(WidthX)
                          IN Advance([cpu EXCEPT ![t[2]] = v, !.P = PutNZ(@, v, WidthX)], 0, 0)
  <2>1. TransferIndex => \E t \in codes : op = t[1] /\ Change(t)
    BY ZenonT(60) DEF TransferIndex
  <2> HIDE DEF Change
  <2> QED BY <2>1
<1>2. TransferA => op \in {\h8A, \h98}
  <2>1. TransferA => \E c \in {<<\h8A, "X">>, <<\h98, "Y">>} : op = c[1]
    BY ZenonT(60) DEF TransferA
  <2> QED BY <2>1
<1>3. TransferWord => op \in {\h5B, \h7B, \h3B}
  <2>1. TransferWord => \E c \in {<<\h5B, "D", "C">>, <<\h7B, "C", "D">>, <<\h3B, "C", "S">>} : op = c[1]
    BY ZenonT(60) DEF TransferWord
  <2> QED BY <2>1
<1>4. TransferStack => op \in {\h9A, \h1B}
  BY Zenon DEF TransferStack
<1>5. Exchange => op \in {\hEB}
  BY Zenon DEF Exchange
<1>6. BitTest => op \in {\h24, \h2C}
  BY Zenon DEF BitTest
<1>7. CountA => op \in {\h1A, \h3A}
  BY Zenon DEF CountA
<1> QED BY <1>1, <1>2, <1>3, <1>4, <1>5, <1>6, <1>7 DEF Stacked
LEMMA ApartShiftA == ASSUME op \in Stacked PROVE ~ShiftA
<1>1. ShiftA => \E kind \in {0, 32, 64, 96} : op = kind + 10
  BY Zenon DEF ShiftA
<1> QED BY <1>1 DEF Stacked
LEMMA ApartStack == ASSUME op \in Stacked
  PROVE  ~PushA /\ ~PushP /\ ~PushIndex /\ ~PushBank /\ ~PushEffective /\ ~PullA /\ ~PullP /\ ~PullIndex /\ ~PullBank /\ ~PullD
<1>1. PushA => op \in {\h48}
  BY Zenon DEF PushA
<1>2. PushP => op \in {\h08}
  BY Zenon DEF PushP
<1>3. PushIndex => op \in {\hDA, \h5A}
  <2>1. PushIndex => \E c \in {<<\hDA, "X">>, <<\h5A, "Y">>} : op = c[1]
    BY ZenonT(60) DEF PushIndex
  <2> QED BY <2>1
<1>4. PushBank => op \in {\h8B, \h4B}
  <2>1. PushBank => \E c \in {<<\h8B, "DBR">>, <<\h4B, "PBR">>} : op = c[1]
    BY ZenonT(60) DEF PushBank
  <2> QED BY <2>1
<1>5. PushEffective => op \in {\h0B, \hF4, \hD4, \h62}
  <2>1. PushEffective => \E c \in {<<\h0B, cpu.D, 0>>, <<\hF4, Operand, 2>>, <<\hD4, Pointer(ir[2]), 1>>,
                              <<\h62, (After(2) + Operand) % 65536, 2>>} : op = c[1]
    BY DEF PushEffective
  <2> QED BY <2>1
<1>6. PullA => op \in {\h68}
  BY Zenon DEF PullA
<1>7. PullP => op \in {\h28}
  BY Zenon DEF PullP
<1>8. PullIndex => op \in {\hFA, \h7A}
  <2>1. PullIndex => \E c \in {<<\hFA, "X">>, <<\h7A, "Y">>} : op = c[1]
    BY ZenonT(60) DEF PullIndex
  <2> QED BY <2>1
<1>9. PullBank => op \in {\hAB}
  BY Zenon DEF PullBank
<1>10. PullD => op \in {\h2B}
  BY Zenon DEF PullD
<1> QED BY <1>1, <1>2, <1>3, <1>4, <1>5, <1>6, <1>7, <1>8, <1>9, <1>10 DEF Stacked
LEMMA ApartJumps == ASSUME op \in Stacked
  PROVE  ~Branch /\ ~BranchAlways /\ ~Jump /\ ~JumpLong /\ ~BlockMove
<1>1. Branch => op \in {\h10, \h30, \h50, \h70, \h90, \hB0, \hD0, \hF0}
  <2>1. Branch => \E c \in {<<\h10, "N", FALSE>>, <<\h30, "N", TRUE>>, <<\h50, "V", FALSE>>, <<\h70, "V", TRUE>>,
                       <<\h90, "C", FALSE>>, <<\hB0, "C", TRUE>>, <<\hD0, "Z", FALSE>>, <<\hF0, "Z", TRUE>>} : op = c[1]
    BY ZenonT(60) DEF Branch
  <2> QED BY <2>1
<1>2. BranchAlways => op \in {\h80, \h82}
  BY DEF BranchAlways
<1>3. Jump => op \in {\h4C, \h6C}
  BY Zenon DEF Jump
<1>4. JumpLong => op \in {\h5C, \hDC}
  BY DEF JumpLong
<1>5. BlockMove => op \in {\h54, \h44}
  BY DEF BlockMove
<1> QED BY <1>1, <1>2, <1>3, <1>4, <1>5 DEF Stacked
LEMMA ApartModes == ASSUME op \in Stacked
  PROVE  ~Rep /\ ~Sep /\ ~ExchangeE /\ ~Halt /\ ~Nop /\ ~Wdm
<1>1. Rep => op \in {\hC2}
  BY Zenon DEF Rep
<1>2. Sep => op \in {\hE2}
  BY Zenon DEF Sep
<1>3. ExchangeE => op \in {\hFB}
  BY Zenon DEF ExchangeE
<1>4. Halt => op \in {\hDB, \hCB}
  <2>1. Halt => \E c \in {<<\hDB, "stp">>, <<\hCB, "wai">>} : op = c[1]
    BY ZenonT(60) DEF Halt
  <2> QED BY <2>1
<1>5. Nop => op \in {\hEA}
  BY Zenon DEF Nop
<1>6. Wdm => op \in {\h42}
  BY Zenon DEF Wdm
<1> QED BY <1>1, <1>2, <1>3, <1>4, <1>5, <1>6 DEF Stacked
LEMMA ApartFlags == ASSUME op \in Stacked PROVE ~SetFlag
<1>1. SetFlag => \/ \E f \in {<<\h18, "C">>, <<\h58, "I">>, <<\hD8, "D">>, <<\hB8, "V">>} : op = f[1]
                 \/ \E f \in {<<\h38, "C">>, <<\h78, "I">>, <<\hF8, "D">>} : op = f[1]
  BY ZenonT(60) DEF SetFlag
<1> QED BY <1>1 DEF Stacked
LEMMA ApartIllegal == ASSUME op \in Stacked PROVE ~Illegal
<1>1. \A k \in 0 .. 15 : op # 16 * k + 3
  BY DEF Stacked
<1> QED BY <1>1 DEF Stacked, Illegal
LEMMA Dispatched == ASSUME op \in Stacked, Execute
  PROVE  /\ op = 0 => Break
         /\ op = 2 => Cop
         /\ op = \h20 => Call
         /\ op = \h22 => CallLong
         /\ op = \h40 => ReturnInterrupt
         /\ op = \h60 => Return
         /\ op = \h6B => ReturnLong
<1>1. Break \/ Cop \/ Call \/ CallLong \/ Return \/ ReturnLong \/ ReturnInterrupt
  BY Zenon, ApartLoads, ApartShifts, ApartIndexes, ApartCompare, ApartTransfers, ApartShiftA, ApartStack,
     ApartJumps, ApartModes, ApartFlags, ApartIllegal DEF Execute
<1> QED BY <1>1 DEF Break, Cop, Call, CallLong, Return, ReturnLong, ReturnInterrupt

LEMMA InterruptsHome == ASSUME CpuAssumption, CpuInv, Nmi \/ Irq PROVE HomeRight(InterruptHome(cpu.PC))
<1>1. cpu.PC \in Words
  BY Fields
<1>2. /\ InMode(\hFFFA, \hFFEA) \in Words /\ InMode(\hFFFE, \hFFEE) \in Words
  BY DEF InMode, Words
<1>3. CASE Nmi
  BY <1>1, <1>2, <1>3, ServiceHome DEF Nmi
<1>4. CASE Irq
  BY <1>1, <1>2, <1>4, ServiceHome DEF Irq
<1> QED BY <1>3, <1>4
LEMMA BreaksHome == ASSUME CpuAssumption, CpuInv, Break \/ Cop PROVE HomeRight(InterruptHome(After(1)))
<1>1. After(1) \in Words
  BY AfterWord
<1>2. /\ InMode(\hFFFE, \hFFE6) \in Words /\ InMode(\hFFF4, \hFFE4) \in Words
      /\ cpu.halt \in {"stp", "wai", "no"}
  BY DEF InMode, Words, CpuInv, Registers
<1>3. CASE Break
  BY <1>1, <1>2, <1>3, ServiceHome DEF Break
<1>4. CASE Cop
  BY <1>1, <1>2, <1>4, ServiceHome DEF Cop
<1> QED BY <1>3, <1>4
LEMMA HomesStep ==
  ASSUME CpuAssumption, CpuInv, HomesInv, [ReturnsNext]_<<vars, homes>> PROVE HomesInv'
<1>1. HomesInv' <=> \A h \in homes' : HomeRight(h)
  BY DEF HomesInv
<1> SUFFICES \A h \in homes' : HomeRight(h)
  BY <1>1
<1>2. CASE (Wait /\ UNCHANGED homes) \/ UNCHANGED <<vars, homes>>
  BY <1>2 DEF HomesInv
<1>3. CASE (Nmi \/ Irq) /\ homes' = homes \union {InterruptHome(cpu.PC)}
  BY <1>3, InterruptsHome DEF HomesInv
<1>4. CASE Run /\ homes' = homes \union (CASE op \in {0, 2} -> {InterruptHome(After(1))}
                                          [] op = \h20 -> {Home(\h60, After(2), 2)}
                                          [] op = \h22 /\ Native -> {Home(\h6B, After(3), 3)}
                                          [] OTHER -> {})
  <2>1. Execute
    BY <1>4 DEF Run
  <2>2. CASE op \in {0, 2}
    <3>1. homes' = homes \union {InterruptHome(After(1))}
      BY <1>4, <2>2
    <3>2. Break \/ Cop
      BY <2>1, <2>2, Dispatched DEF Stacked
    <3> QED BY <3>1, <3>2, BreaksHome DEF HomesInv
  <2>3. CASE op = \h20
    <3>1. homes' = homes \union {Home(\h60, After(2), 2)}
      BY <1>4, <2>3
    <3>2. Call
      BY <2>1, <2>3, Dispatched DEF Stacked
    <3> QED BY <3>1, <3>2, CallHome DEF HomesInv
  <2>4. CASE op = \h22 /\ Native
    <3>1. homes' = homes \union {Home(\h6B, After(3), 3)}
      BY <1>4, <2>4
    <3>2. CallLong
      BY <2>1, <2>4, Dispatched DEF Stacked
    <3> QED BY <2>4, <3>1, <3>2, CallLongHome DEF HomesInv
  <2>5. CASE op \notin {0, 2, \h20} /\ ~(op = \h22 /\ Native)
    <3>1. homes' = homes \union {}
      BY <1>4, <2>5
    <3> QED BY <3>1 DEF HomesInv
  <2> QED BY <2>2, <2>3, <2>4, <2>5
<1> QED BY <1>2, <1>3, <1>4 DEF ReturnsNext

\* From the top of what was pushed, the cells above it in the order of the return.
LEMMA AboveIs ==
  ASSUME CpuInv, NEW h, HomeRight(h), cpu.S = h.top, cpu.E = h.before.E, NEW j \in {1, 2, 3, 4}, j <= Size(h)
  PROVE  Above(j) = At(h, Size(h) - j)
<1> DEFINE s == h.before.S
<1> DEFINE n == Size(h)
<1>1. s \in Nat /\ s < 65536 /\ (h.before.E => 256 <= s /\ s < 512) /\ cpu.S = At(h, n)
  BY DEF HomeRight, Words
<1>2. n \in {2, 3, 4}
  BY DEF Size
<1>3. CASE cpu.E
  <2>1. cpu.S = 256 + ((s + 256 - n) % 256)
    BY <1>1, <1>2, <1>3 DEF At
  <2>2. \A k \in {0, 1, 2, 3, 4} : At(h, k) = 256 + ((s + 256 - k) % 256)
    <3>1. 256 + ((s + 256 - 0) % 256) = s
      BY <1>1, <1>3
    <3> QED BY <1>3, <3>1 DEF At
  <2>3. n - j \in {0, 1, 2, 3}
    BY <1>2
  <2> HIDE DEF s, n
  <2>4. Above(j) = 256 + ((cpu.S + j) % 256)
    BY <1>3 DEF Above
  <2>5. (256 + ((s + 256 - n) % 256) + j) % 256 = (s + 256 - (n - j)) % 256
    BY <1>1, <1>2, <1>3
  <2> QED BY <2>1, <2>2, <2>3, <2>4, <2>5 DEF n
<1>4. CASE ~cpu.E
  <2>1. cpu.S = (s + 65536 - n) % 65536
    BY <1>1, <1>2, <1>4 DEF At
  <2>2. \A k \in {0, 1, 2, 3, 4} : At(h, k) = (s + 65536 - k) % 65536
    <3>1. (s + 65536 - 0) % 65536 = s
      BY <1>1
    <3> QED BY <1>4, <3>1 DEF At
  <2>3. n - j \in {0, 1, 2, 3}
    BY <1>2
  <2> HIDE DEF s, n
  <2>4. Above(j) = (cpu.S + j) % 65536
    BY <1>4 DEF Above
  <2>5. (((s + 65536 - n) % 65536) + j) % 65536 = (s + 65536 - (n - j)) % 65536
    BY <1>1, <1>2
  <2> QED BY <2>1, <2>2, <2>3, <2>4, <2>5 DEF n
<1> QED BY <1>3, <1>4
LEMMA PulledIs ==
  ASSUME CpuInv, NEW h, HomeRight(h), Takes(h), NEW j \in {1, 2, 3, 4}, j <= Size(h)
  PROVE  Pulled(j) = Held(h, Size(h) - j)
<1>1. Above(j) = At(h, Size(h) - j)
  BY AboveIs DEF Takes
<1>2. Size(h) - j \in 0 .. 3 /\ Size(h) - j < Size(h)
  BY DEF Size
<1>3. At(h, Size(h) - j) \in DOMAIN h.cells
  BY <1>2 DEF HomeRight
<1> QED BY <1>1, <1>3 DEF Pulled, Takes, Held

LEMMA BackBefore == ASSUME CpuInv, NEW h, HomeRight(h), Takes(h) PROVE Above(Size(h)) = h.before.S
<1>1. Size(h) \in {1, 2, 3, 4} /\ Size(h) <= Size(h) /\ Size(h) - Size(h) = 0
  BY DEF Size
<1>2. Above(Size(h)) = At(h, Size(h) - Size(h))
  BY <1>1, AboveIs DEF Takes
<1> QED BY <1>1, <1>2 DEF At
LEMMA RaisedReg == ASSUME CpuInv, NEW n \in Nat PROVE Raised(n) \in Registers /\ Raised(n).S = Above(n) /\ Raised(n).P = cpu.P
  BY AboveFits DEF Raised, CpuInv, Registers, StackFits
LEMMA ReturnBack == ASSUME CpuAssumption, CpuInv, NEW h, HomeRight(h), Takes(h), h.by = \h60, Return PROVE ComesBack(h)
<1>1. Size(h) = 2
  BY DEF Size
<1>2. Pulled(1) = Held(h, 1) /\ Pulled(2) = Held(h, 0)
  <2>1. Pulled(1) = Held(h, Size(h) - 1) /\ Pulled(2) = Held(h, Size(h) - 2)
    BY <1>1, PulledIs
  <2> QED BY <1>1, <2>1
<1>3. (PulledWord(1) + 1) % 65536 = h.pc
  <2>1. PulledWord(1) = Word(Pulled(1), Pulled(2))
    BY DEF PulledWord
  <2> QED BY <1>2, <2>1 DEF HomeRight
<1>4. Done(Raised(2), (PulledWord(1) + 1) % 65536, mem, 0)
  BY DEF Return
<1>5. cpu'.PC = h.pc /\ cpu'.S = Above(2)
  BY <1>3, <1>4, RaisedReg, PulledNext, DoneParts
<1>6. Above(2) = h.before.S
  BY <1>1, BackBefore
<1> QED BY <1>5, <1>6 DEF ComesBack
LEMMA ReturnLongBack == ASSUME CpuAssumption, CpuInv, NEW h, HomeRight(h), Takes(h), h.by = \h6B, ReturnLong PROVE ComesBack(h)
<1>1. Size(h) = 3
  BY DEF Size
<1>2. Pulled(1) = Held(h, 2) /\ Pulled(2) = Held(h, 1) /\ Pulled(3) = Held(h, 0)
  <2>1. Pulled(1) = Held(h, Size(h) - 1) /\ Pulled(2) = Held(h, Size(h) - 2) /\ Pulled(3) = Held(h, Size(h) - 3)
    BY <1>1, PulledIs
  <2> QED BY <1>1, <2>1
<1>3. (PulledWord(1) + 1) % 65536 = h.pc
  <2>1. PulledWord(1) = Word(Pulled(1), Pulled(2))
    BY DEF PulledWord
  <2> QED BY <1>2, <2>1 DEF HomeRight
<1>4. ~cpu.E
  BY DEF HomeRight, Takes
<1> DEFINE c == [Raised(3) EXCEPT !.PBR = Pulled(3)]
<1>5. Done(c, (PulledWord(1) + 1) % 65536, mem, 0)
  BY <1>4 DEF ReturnLong, Skip
<1>6. c \in Registers /\ c.S = Above(3) /\ c.PBR = Pulled(3)
  <2>1. Raised(3) \in Registers /\ Raised(3).S = Above(3) /\ Pulled(3) \in Byte
    BY RaisedReg, PulledByte
  <2> QED BY <2>1 DEF Registers
<1> HIDE DEF c
<1>7. cpu'.PC = h.pc /\ cpu'.S = Above(3) /\ cpu'.PBR = Pulled(3)
  BY <1>3, <1>5, <1>6, PulledNext, DoneParts
<1>8. Above(3) = h.before.S
  BY <1>1, BackBefore
<1>9. Pulled(3) = h.before.PBR
  BY <1>2 DEF HomeRight
<1> QED BY <1>7, <1>8, <1>9 DEF ComesBack
LEMMA RestoredFlags == ASSUME CpuInv, NEW n \in Nat, NEW byte
  PROVE  /\ cpu.E => RestoredP(Raised(n), byte).P = (FlagsOf(byte) \ {"X"}) \union {"M"}
         /\ ~cpu.E => RestoredP(Raised(n), byte).P = FlagsOf(byte)
<1> DEFINE d == Raised(n)
<1>1. d \in Registers
  BY RaisedReg
<1>2. FlagsOf(byte) \in SUBSET Flags /\ "M" \in Flags
  BY FlagNames DEF FlagsOf
<1> HIDE DEF d
<1>3. [d EXCEPT !.P = FlagsOf(byte)] \in Registers /\ [d EXCEPT !.P = FlagsOf(byte)].P = FlagsOf(byte)
      /\ [d EXCEPT !.P = (FlagsOf(byte) \ {"X"}) \union {"M"}].P = (FlagsOf(byte) \ {"X"}) \union {"M"}
  BY <1>1, <1>2 DEF Registers
<1>4. /\ cpu.E => RestoredP(d, byte).P = (FlagsOf(byte) \ {"X"}) \union {"M"}
      /\ ~cpu.E => RestoredP(d, byte).P = FlagsOf(byte)
  <2> DEFINE r == [d EXCEPT !.P = FlagsOf(byte)]
  <2>1. r \in Registers /\ r.P = FlagsOf(byte)
    BY <1>3
  <2>2. CASE cpu.E
    BY <1>3, <2>2 DEF RestoredP
  <2>3. CASE ~cpu.E
    <3>1. RestoredP(d, byte) = IF "X" \notin cpu.P /\ "X" \in r.P THEN Narrow(r) ELSE r
      BY <2>3 DEF RestoredP
    <3> HIDE DEF r
    <3>2. Narrow(r).P = r.P
      BY <2>1, Narrowed
    <3> QED BY <2>1, <2>3, <3>1, <3>2
  <2> QED BY <2>2, <2>3
<1> QED BY <1>4 DEF d
LEMMA InterruptBack ==
  ASSUME CpuAssumption, CpuInv, NEW h, HomeRight(h), Takes(h), h.by = \h40, ReturnInterrupt PROVE ComesBack(h)
<1> DEFINE n == IF cpu.E THEN 3 ELSE 4
<1> DEFINE c == RestoredP(Raised(n), Pulled(1))
<1> DEFINE d == IF cpu.E THEN c ELSE [c EXCEPT !.PBR = Pulled(4)]
<1>1. Size(h) = n /\ n \in {3, 4} /\ (cpu.E => n = 3) /\ (~cpu.E => n = 4)
  BY DEF Size, Takes
<1>2. Done(d, PulledWord(2), mem, 0)
  BY DEF ReturnInterrupt
<1>3. c \in Registers /\ c.E = cpu.E /\ c.S = Above(n)
  <2>1. n \in Nat
    BY <1>1
  <2> QED BY <2>1, RestoredKept DEF Kept
<1>4. /\ cpu.E => c.P = (FlagsOf(Pulled(1)) \ {"X"}) \union {"M"}
      /\ ~cpu.E => c.P = FlagsOf(Pulled(1))
  <2>1. n \in Nat
    BY <1>1
  <2> QED BY <2>1, RestoredFlags
<1> HIDE DEF c, n
<1>5. Pulled(1) = Held(h, n - 1) /\ Pulled(2) = Held(h, n - 2) /\ Pulled(3) = Held(h, n - 3)
      /\ (~cpu.E => Pulled(4) = Held(h, 0))
  <2>1. Pulled(1) = Held(h, Size(h) - 1) /\ Pulled(2) = Held(h, Size(h) - 2) /\ Pulled(3) = Held(h, Size(h) - 3)
    BY <1>1, PulledIs
  <2>2. ~cpu.E => Pulled(4) = Held(h, Size(h) - 4)
    BY <1>1, PulledIs
  <2> QED BY <1>1, <2>1, <2>2
<1>6. PulledWord(2) = h.pc
  <2>1. PulledWord(2) = Word(Pulled(2), Pulled(3))
    BY DEF PulledWord
  <2>2. Word(Held(h, n - 2), Held(h, n - 3)) = h.pc
    BY <1>1 DEF HomeRight
  <2> QED BY <1>5, <2>1, <2>2
<1>7. d \in Registers /\ d.S = Above(n) /\ d.P = c.P /\ (~cpu.E => d.PBR = Pulled(4))
  <2>1. Pulled(4) \in Byte
    BY PulledByte
  <2> QED BY <1>3, <2>1 DEF Registers
<1> HIDE DEF d
<1>8. PulledWord(2) \in Words
  BY PulledWords
<1>9. cpu'.PC = h.pc /\ cpu'.S = Above(n) /\ cpu'.P = c.P /\ (~cpu.E => cpu'.PBR = Pulled(4))
  BY <1>2, <1>6, <1>7, <1>8, DoneParts
<1>10. Above(n) = h.before.S
  BY <1>1, BackBefore
<1>11. ~cpu.E => Pulled(4) = h.before.PBR
  BY <1>5 DEF HomeRight, Takes
<1>12. cpu'.P \ Unused(h) = h.before.P \ Unused(h)
  <2>1. FlagsOf(Pulled(1)) \ Unused(h) = h.before.P \ Unused(h)
    BY <1>1, <1>5 DEF HomeRight
  <2>2. c.P \ Unused(h) = FlagsOf(Pulled(1)) \ Unused(h)
    <3>1. cpu.E = h.before.E
      BY DEF Takes
    <3>2. CASE cpu.E
      BY <1>4, <3>1, <3>2 DEF Unused
    <3>3. CASE ~cpu.E
      BY <1>4, <3>3
    <3> QED BY <3>2, <3>3
  <2> QED BY <1>9, <2>1, <2>2
<1>13. Unused(h) = IF cpu.E THEN {"M", "X"} ELSE {}
  BY DEF Unused, Takes
<1> QED BY <1>9, <1>10, <1>11, <1>12, <1>13 DEF ComesBack, Native

LEMMA ReturnsStep ==
  ASSUME CpuAssumption, CpuInv, HomesInv
  PROVE  Run => \A h \in homes : Takes(h) => ComesBack(h)
<1> SUFFICES ASSUME Run, NEW h \in homes, Takes(h) PROVE ComesBack(h)
  OBVIOUS
<1>1. HomeRight(h) /\ Execute /\ op = h.by
  BY DEF HomesInv, Run, Takes
<1>2. h.by \in {\h60, \h6B, \h40}
  BY <1>1 DEF HomeRight
<1>3. CASE h.by = \h60
  <2>1. Return
    BY <1>1, <1>3, Dispatched DEF Stacked
  <2> QED BY <1>1, <1>3, <2>1, ReturnBack
<1>4. CASE h.by = \h6B
  <2>1. ReturnLong
    BY <1>1, <1>4, Dispatched DEF Stacked
  <2> QED BY <1>1, <1>4, <2>1, ReturnLongBack
<1>5. CASE h.by = \h40
  <2>1. ReturnInterrupt
    BY <1>1, <1>5, Dispatched DEF Stacked
  <2> QED BY <1>1, <1>5, <2>1, InterruptBack
<1> QED BY <1>2, <1>3, <1>4, <1>5

\* What is remembered of a call or an interrupt is what its return will make of the
\* cells: the address, the bank, the flags and the stack of before.
THEOREM HomesHold == ReturnsSpec => []HomesInv
<1>1. ReturnsInit => HomesInv
  BY DEF ReturnsInit, HomesInv
<1>2. CpuInv /\ HomesInv /\ [ReturnsNext]_<<vars, homes>> => HomesInv'
  BY CpuAssumption, HomesStep
<1> QED BY <1>1, <1>2, RegistersHold, PTL DEF ReturnsSpec

\* RTS, RTL and RTI that find the cells of a call or an interrupt go back to it, for
\* every program, every place of the stack and every wrap of it.
THEOREM CallsComeBack == ReturnsSpec => ReturnsHome
<1>1. CpuInv /\ HomesInv => (Run => \A h \in homes : Takes(h) => ComesBack(h))
  BY CpuAssumption, ReturnsStep
<1>2. CpuInv /\ HomesInv /\ [ReturnsNext]_<<vars, homes>> => [Run => \A h \in homes : Takes(h) => ComesBack(h)]_<<vars, homes>>
  BY <1>1
<1> QED BY <1>2, RegistersHold, HomesHold, PTL DEF ReturnsSpec, ReturnsHome

(* Emulation mode.  V(c) is what the 6502 core sees of the registers c.  What   *)
(* the two cores share (words, flags, addresses, the stack) is shown equal      *)
(* operator by operator; then each action of the 65C816 ends in the Done of the *)
(* action of the 6502 core with the same opcode, or its opcode is a new one.    *)
R(a, x, y, s, pc, p) == [A |-> a, X |-> x, Y |-> y, SP |-> s, PC |-> pc, P |-> p]
V(c) == R(Low(c.C), Low(c.X), Low(c.Y), Low(c.S), c.PC, c.P)
LEMMA SetA == \A a, x, y, s, pc, p, v : [R(a, x, y, s, pc, p) EXCEPT !.A = v] = R(v, x, y, s, pc, p)
  BY DEF R
LEMMA SetX == \A a, x, y, s, pc, p, v : [R(a, x, y, s, pc, p) EXCEPT !.X = v] = R(a, v, y, s, pc, p)
  BY DEF R
LEMMA SetY == \A a, x, y, s, pc, p, v : [R(a, x, y, s, pc, p) EXCEPT !.Y = v] = R(a, x, v, s, pc, p)
  BY DEF R
LEMMA SetSP == \A a, x, y, s, pc, p, v : [R(a, x, y, s, pc, p) EXCEPT !.SP = v] = R(a, x, y, v, pc, p)
  BY DEF R
LEMMA SetPC == \A a, x, y, s, pc, p, v : [R(a, x, y, s, pc, p) EXCEPT !.PC = v] = R(a, x, y, s, v, p)
  BY DEF R
LEMMA SetP == \A a, x, y, s, pc, p, v : [R(a, x, y, s, pc, p) EXCEPT !.P = v] = R(a, x, y, s, pc, v)
  BY DEF R
LEMMA Viewed == ASSUME CpuInv, NEW c \in Registers, NEW pc \in Words, NEW m, NEW x, Done(c, pc, m, x)
  PROVE V(cpu') = [V(c) EXCEPT !.PC = pc] /\ mem' = m /\ extra' = x
<1> DEFINE r == [c EXCEPT !.PC = pc]
<1>1. r \in Registers /\ r.PC = pc /\ r.C = c.C /\ r.X = c.X /\ r.Y = c.Y /\ r.S = c.S /\ r.P = c.P
  BY DEF Registers
<1>2. cpu' = Woken(r, line') /\ mem' = m /\ extra' = x
  BY DEF Done
<1> HIDE DEF r
<1>3. cpu'.PC = pc /\ cpu'.C = c.C /\ cpu'.X = c.X /\ cpu'.Y = c.Y /\ cpu'.S = c.S /\ cpu'.P = c.P
  BY <1>1, <1>2 DEF Woken, Registers
<1> QED BY <1>2, <1>3, SetPC DEF V
LEMMA Mirrored ==
  ASSUME CpuAssumption, CpuInv, CpuInv', NEW c \in Registers, NEW pc \in Words, NEW m, NEW x, Done(c, pc, m, x),
         NEW r, r = V(c)
  PROVE  Legacy!Done(r, pc, m, x)
<1>1. V(cpu)' = [r EXCEPT !.PC = pc] /\ mem' = m /\ extra' = x
  BY Viewed DEF V
<1>2. ir' \in UNION {p.code : p \in Programs}
  BY DEF CpuInv
<1>3. line' \in {"none", "irq", "nmi"}
  BY DEF CpuInv, CpuAssumption
<1> QED BY <1>1, <1>2, <1>3 DEF Legacy!Done, V, R
LEMMA MirroredAdvance ==
  ASSUME CpuAssumption, CpuInv, CpuInv', NEW c \in Registers, NEW n \in Nat, NEW x, Advance(c, n, x), NEW r, r = V(c)
  PROVE  Legacy!Advance(r, n, x)
<1>1. After(n) = Legacy!After(n)
  BY DEF After, Legacy!After
<1>2. Done(c, After(n), mem, x) /\ After(n) \in Words
  BY AfterWord DEF Advance
<1>3. Legacy!Done(r, After(n), mem, x)
  BY <1>2, Mirrored
<1> QED BY <1>1, <1>3 DEF Legacy!Advance

LEMMA Emulates == ASSUME CpuInv, cpu.E
  PROVE  /\ WidthM = 8 /\ WidthX = 8 /\ A = Low(cpu.C) /\ Index("X") = Low(cpu.X) /\ Index("Y") = Low(cpu.Y)
         /\ Low(cpu.X) = cpu.X /\ Low(cpu.Y) = cpu.Y /\ cpu.S = 256 + Low(cpu.S)
         /\ Low(cpu.C) \in Byte /\ cpu.X \in Byte /\ cpu.Y \in Byte /\ Low(cpu.S) \in Byte
<1>1. cpu.X \in Nat /\ cpu.Y \in Nat /\ cpu.X < 256 /\ cpu.Y < 256 /\ cpu.C \in Nat
      /\ cpu.S \in Nat /\ 256 <= cpu.S /\ cpu.S < 512
  BY Fields DEF Words
<1>2. WidthM = 8 /\ WidthX = 8 /\ Span(8) = 256
  BY DEF WidthM, WidthX, Span
<1> QED BY <1>1, <1>2 DEF A, Index, Low, Byte

\* The two cores share Bytes.
LEMMA SameWords ==
  /\ \A l, h : Legacy!Word(l, h) = Word(l, h)
  /\ \A l : Legacy!Low(l) = Low(l)
  /\ \A l : Legacy!High(l) = High(l)
  /\ \A a, b : Legacy!SamePage(a, b) = SamePage(a, b)
  /\ \A a, b : Legacy!Displaced(a, b) = Displaced(a, b)
<1>1. \A l, h : Legacy!Word(l, h) = Word(l, h)
  BY DEF Word, Legacy!Word
<1>2. \A l : Legacy!Low(l) = Low(l)
  BY DEF Low, Legacy!Low
<1>3. \A l : Legacy!High(l) = High(l)
  BY DEF High, Legacy!High
<1>4. \A a, b : Legacy!SamePage(a, b) = SamePage(a, b)
  BY DEF SamePage, Legacy!SamePage
<1>5. \A a, b : Legacy!Displaced(a, b) = Displaced(a, b)
  BY DEF Displaced, Legacy!Displaced
<1> QED BY <1>1, <1>2, <1>3, <1>4, <1>5
LEMMA SamePuts ==
  /\ \A P, f, v : Legacy!Put(P, f, v) = Put(P, f, v)
  /\ \A P : Legacy!Carry(P) = Carry(P)
  /\ \A v : Legacy!Top(v, 8) = Top(v, 8)
  /\ \A P, v : Legacy!PutNZ(P, v, 8) = PutNZ(P, v, 8)
<1>1. \A P, f, v : Legacy!Put(P, f, v) = Put(P, f, v)
  BY DEF Put, Legacy!Put
<1>2. \A P : Legacy!Carry(P) = Carry(P)
  BY DEF Carry, Legacy!Carry
<1>3. \A v : Legacy!Top(v, 8) = Top(v, 8)
  BY DEF Top, Span, Legacy!Top, Legacy!Span
<1>4. \A P, v : Legacy!PutNZ(P, v, 8) = PutNZ(P, v, 8)
  BY <1>1, <1>3, Zenon DEF PutNZ, Legacy!PutNZ
<1> QED BY <1>1, <1>2, <1>3, <1>4
LEMMA SameBits ==
  /\ Legacy!Weights = Weights
  /\ \A v : Legacy!BitsOf(v) = BitsOf(v)
  /\ \A v : Legacy!Number(v) = Number(v)
  /\ Legacy!Weight = Weight /\ Legacy!Flags = Flags
  /\ \A a, b : Legacy!Or(a, b) = Or(a, b)
  /\ \A a, b : Legacy!And(a, b) = And(a, b)
  /\ \A a, b : Legacy!Xor(a, b) = Xor(a, b)
  /\ \A v : Legacy!FlagsOf(v) = FlagsOf(v)
  /\ \A v : Legacy!ByteOf(v) = ByteOf(v)
<1>1. Legacy!Weights = Weights
  BY SMT DEF Weights, Legacy!Weights
<1>2. \A v : Legacy!BitsOf(v) = BitsOf(v)
  BY <1>1, Zenon DEF BitsOf, Legacy!BitsOf
<1>3. \A v : Legacy!Number(v) = Number(v)
  BY SMT DEF Number, Legacy!Number
<1>4. Legacy!Weight = Weight /\ Legacy!Flags = Flags
  BY Zenon DEF Weight, Flags, Legacy!Weight, Legacy!Flags
<1>5. \A a, b : Legacy!Or(a, b) = Or(a, b)
  BY <1>2, <1>3, Zenon DEF Or, Legacy!Or
<1>6. \A a, b : Legacy!And(a, b) = And(a, b)
  BY <1>2, <1>3, Zenon DEF And, Legacy!And
<1>7. \A a, b : Legacy!Xor(a, b) = Xor(a, b)
  BY <1>2, <1>3, Zenon DEF Xor, Legacy!Xor
<1>8. \A v : Legacy!FlagsOf(v) = FlagsOf(v)
  BY <1>2, <1>4, Zenon DEF FlagsOf, Legacy!FlagsOf
<1>9. \A v : Legacy!ByteOf(v) = ByteOf(v)
  BY <1>3, <1>4, Zenon DEF ByteOf, Legacy!ByteOf
<1> QED BY <1>1, <1>2, <1>3, <1>4, <1>5, <1>6, <1>7, <1>8, <1>9
LEMMA SameCells ==
  /\ \A f, m : Legacy!Over(f, m) = Over(f, m)
  /\ \A a, b : Legacy!Cell(a, b) = Cell(a, b)
  /\ \A a : Legacy!Rd(a) = Rd(a)
  /\ \A a : Legacy!OpcodeSize(a) = OpcodeSize(a)
<1>1. \A f, m : Legacy!Over(f, m) = Over(f, m)
  BY DEF Over, Legacy!Over
<1>2. \A a, b : Legacy!Cell(a, b) = Cell(a, b)
  BY DEF Cell, Legacy!Cell
<1>3. \A a : Legacy!Rd(a) = Rd(a)
  BY DEF Rd, Legacy!Rd
<1>4. \A a : Legacy!OpcodeSize(a) = OpcodeSize(a)
  BY DEF OpcodeSize, TwoBytes, ThreeBytes, Legacy!OpcodeSize, Legacy!TwoBytes, Legacy!ThreeBytes
<1> QED BY <1>1, <1>2, <1>3, <1>4
LEMMA SameOp ==
  /\ Legacy!op = op
  /\ Legacy!Operand = Operand
  /\ \A a, b : Legacy!Word16(a, b) = Word16(a, b)
  /\ \A zp : Legacy!Pointer(zp) = Pointer(zp)
<1>1. Legacy!op = op
  BY DEF op, Legacy!op
<1>2. Legacy!Operand = Operand
  BY SameWords, Zenon DEF Operand, Legacy!Operand
<1>3. \A a, b : Legacy!Word16(a, b) = Word16(a, b)
  BY SameWords, SameCells, Zenon DEF Word16, Legacy!Word16
<1>4. \A zp : Legacy!Pointer(zp) = Pointer(zp)
  BY <1>3, Zenon DEF Pointer, Legacy!Pointer
<1> QED BY <1>1, <1>2, <1>3, <1>4
\* An address of the one core is an address of the other.
Same(f, e) == f.at = e.at /\ f.bytes = e.bytes /\ f.crossed = e.crossed
LEMMA SamePlain == \A a, n : Same(Legacy!Plain(a, n), Plain(a, n))
  BY DEF Same, Plain, Legacy!Plain
LEMMA SameIndexed ==
  ASSUME CpuInv, cpu.E, NEW b, NEW n
  PROVE  Same(Legacy!Indexed(b, Low(cpu.X), n), Indexed(b, "X", n)) /\ Same(Legacy!Indexed(b, Low(cpu.Y), n), Indexed(b, "Y", n))
<1>1. ASSUME NEW reg, NEW v, Index(reg) = v PROVE Same(Legacy!Indexed(b, v, n), Indexed(b, reg, n))
  <2> DEFINE a == (b + v) % 65536
  <2> DEFINE near == SamePage(b, a)
  <2>1. Legacy!Indexed(b, v, n) = [at |-> a, bytes |-> n, crossed |-> ~near]
    BY SameWords DEF Legacy!Indexed
  <2>2. Indexed(b, reg, n) = [at |-> a, next |-> (a + 1) % 65536, bytes |-> n, crossed |-> ~near]
    BY <1>1 DEF Indexed
  <2> HIDE DEF a, near
  <2> QED BY <2>1, <2>2 DEF Same
<1> QED BY <1>1, Emulates
LEMMA SameAddress ==
  ASSUME CpuAssumption, CpuInv, cpu.E, NEW mode \in NearModes
  PROVE  Same(Legacy!Address(mode), Near(mode, 8))
<1>1. Low(cpu.X) = cpu.X /\ Low(cpu.Y) = cpu.Y
  BY Emulates
<1>2. CASE mode = "imm"
  <2>1. Near(mode, 8) = Plain(-1, 1)
    BY <1>2 DEF Near, Wide
  <2>2. Legacy!Address(mode) = Legacy!Plain(-1, 1)
    BY <1>1, <1>2, SameOp DEF Legacy!Address
  <2> QED BY <2>1, <2>2, SamePlain, SameIndexed
<1>3. CASE mode = "zp"
  <2>1. Near(mode, 8) = Plain(ir[2], 1)
    BY <1>3 DEF Near
  <2>2. Legacy!Address(mode) = Legacy!Plain(ir[2], 1)
    BY <1>1, <1>3, SameOp DEF Legacy!Address
  <2> QED BY <2>1, <2>2, SamePlain, SameIndexed
<1>4. CASE mode = "zpx"
  <2>1. Near(mode, 8) = Plain((ir[2] + Low(cpu.X)) % 256, 1)
    BY <1>4 DEF Near
  <2>2. Legacy!Address(mode) = Legacy!Plain((ir[2] + Low(cpu.X)) % 256, 1)
    BY <1>1, <1>4, SameOp DEF Legacy!Address
  <2> QED BY <2>1, <2>2, SamePlain, SameIndexed
<1>5. CASE mode = "zpy"
  <2>1. Near(mode, 8) = Plain((ir[2] + Low(cpu.Y)) % 256, 1)
    BY <1>5 DEF Near
  <2>2. Legacy!Address(mode) = Legacy!Plain((ir[2] + Low(cpu.Y)) % 256, 1)
    BY <1>1, <1>5, SameOp DEF Legacy!Address
  <2> QED BY <2>1, <2>2, SamePlain, SameIndexed
<1>6. CASE mode = "abs"
  <2>1. Near(mode, 8) = Plain(Operand, 2)
    BY <1>6 DEF Near
  <2>2. Legacy!Address(mode) = Legacy!Plain(Operand, 2)
    BY <1>1, <1>6, SameOp DEF Legacy!Address
  <2> QED BY <2>1, <2>2, SamePlain, SameIndexed
<1>7. CASE mode = "abx"
  <2>1. Near(mode, 8) = Indexed(Operand, "X", 2)
    BY <1>7 DEF Near
  <2>2. Legacy!Address(mode) = Legacy!Indexed(Operand, Low(cpu.X), 2)
    BY <1>1, <1>7, SameOp DEF Legacy!Address
  <2> QED BY <2>1, <2>2, SamePlain, SameIndexed
<1>8. CASE mode = "aby"
  <2>1. Near(mode, 8) = Indexed(Operand, "Y", 2)
    BY <1>8 DEF Near
  <2>2. Legacy!Address(mode) = Legacy!Indexed(Operand, Low(cpu.Y), 2)
    BY <1>1, <1>8, SameOp DEF Legacy!Address
  <2> QED BY <2>1, <2>2, SamePlain, SameIndexed
<1>9. CASE mode = "izx"
  <2>1. Near(mode, 8) = Plain(Pointer((ir[2] + Low(cpu.X)) % 256), 1)
    BY <1>9 DEF Near
  <2>2. Legacy!Address(mode) = Legacy!Plain(Pointer((ir[2] + Low(cpu.X)) % 256), 1)
    BY <1>1, <1>9, SameOp DEF Legacy!Address
  <2> QED BY <2>1, <2>2, SamePlain, SameIndexed
<1>10. CASE mode = "izy"
  <2>1. Near(mode, 8) = Indexed(Pointer(ir[2]), "Y", 1)
    BY <1>10 DEF Near
  <2>2. Legacy!Address(mode) = Legacy!Indexed(Pointer(ir[2]), Low(cpu.Y), 1)
    BY <1>1, <1>10, SameOp DEF Legacy!Address
  <2> QED BY <2>1, <2>2, SamePlain, SameIndexed
<1> QED BY <1>2, <1>3, <1>4, <1>5, <1>6, <1>7, <1>8, <1>9, <1>10 DEF NearModes

LEMMA SameFetched ==
  ASSUME NEW f, NEW e, Same(f, e)
  PROVE  Legacy!Fetched(f) = Fetched(e, 8) /\ Legacy!Penalty(f) = Penalty(e, 8)
<1>1. Legacy!Fetched(f) = Fetched(e, 8)
  BY SameCells DEF Same, Fetched, Legacy!Fetched
<1>2. Legacy!Penalty(f) = Penalty(e, 8)
  BY DEF Same, Penalty, Legacy!Penalty, Wide
<1> QED BY <1>1, <1>2
\* The registers of the 6502 in those of an instruction.
LEMMA ByteLow == \A v \in Byte : v \in Words /\ Low(v) = v
  BY DEF Byte, Words, Low
LEMMA ViewA ==
  ASSUME CpuInv, cpu.E, NEW v \in Byte, NEW Q \in SUBSET Flags
  PROVE  LET c == [cpu EXCEPT !.C = WithA(v), !.P = Q] IN c \in Registers /\ V(c) = [V(cpu) EXCEPT !.A = v, !.P = Q]
<1> DEFINE w == WithA(v)
<1> DEFINE c == [cpu EXCEPT !.C = w, !.P = Q]
<1> SUFFICES c \in Registers /\ V(c) = [V(cpu) EXCEPT !.A = v, !.P = Q]
  OBVIOUS
<1>1. w = 256 * High(cpu.C) + v
  BY Emulates, ByteLow DEF WithA
<1> HIDE DEF w
<1>2. w \in Words /\ Low(w) = v
  BY <1>1, LowC DEF Byte, Low, Words
<1>3. c \in Registers /\ c.C = w /\ c.X = cpu.X /\ c.Y = cpu.Y /\ c.S = cpu.S /\ c.PC = cpu.PC /\ c.P = Q
  BY <1>2 DEF CpuInv, Registers
<1> HIDE DEF c
<1>7. [V(cpu) EXCEPT !.A = v] = R(v, Low(cpu.X), Low(cpu.Y), Low(cpu.S), cpu.PC, cpu.P)
  BY SetA DEF V
<1>8. [R(v, Low(cpu.X), Low(cpu.Y), Low(cpu.S), cpu.PC, cpu.P) EXCEPT !.P = Q] = R(v, Low(cpu.X), Low(cpu.Y), Low(cpu.S), cpu.PC, Q)
  BY SetP
<1>9. V(c) = R(v, Low(cpu.X), Low(cpu.Y), Low(cpu.S), cpu.PC, Q)
  BY <1>2, <1>3 DEF V
<1> QED BY <1>2, <1>3, <1>7, <1>8, <1>9
LEMMA ViewX ==
  ASSUME CpuInv, cpu.E, NEW v \in Byte, NEW Q \in SUBSET Flags
  PROVE  LET c == [cpu EXCEPT !.X = v, !.P = Q] IN c \in Registers /\ V(c) = [V(cpu) EXCEPT !.X = v, !.P = Q]
<1> DEFINE c == [cpu EXCEPT !.X = v, !.P = Q]
<1>1. v \in Words /\ Low(v) = v
  BY ByteLow
<1>2. c \in Registers /\ c.C = cpu.C /\ c.X = v /\ c.Y = cpu.Y /\ c.S = cpu.S /\ c.PC = cpu.PC /\ c.P = Q
  BY <1>1 DEF CpuInv, Registers
<1> SUFFICES c \in Registers /\ V(c) = [V(cpu) EXCEPT !.X = v, !.P = Q]
  OBVIOUS
<1> HIDE DEF c
<1>7. [V(cpu) EXCEPT !.X = v] = R(Low(cpu.C), v, Low(cpu.Y), Low(cpu.S), cpu.PC, cpu.P)
  BY SetX DEF V
<1>8. [R(Low(cpu.C), v, Low(cpu.Y), Low(cpu.S), cpu.PC, cpu.P) EXCEPT !.P = Q] = R(Low(cpu.C), v, Low(cpu.Y), Low(cpu.S), cpu.PC, Q)
  BY SetP
<1>9. V(c) = R(Low(cpu.C), v, Low(cpu.Y), Low(cpu.S), cpu.PC, Q)
  BY <1>1, <1>2 DEF V
<1> QED BY <1>1, <1>2, <1>7, <1>8, <1>9
LEMMA ViewY ==
  ASSUME CpuInv, cpu.E, NEW v \in Byte, NEW Q \in SUBSET Flags
  PROVE  LET c == [cpu EXCEPT !.Y = v, !.P = Q] IN c \in Registers /\ V(c) = [V(cpu) EXCEPT !.Y = v, !.P = Q]
<1> DEFINE c == [cpu EXCEPT !.Y = v, !.P = Q]
<1>1. v \in Words /\ Low(v) = v
  BY ByteLow
<1>2. c \in Registers /\ c.C = cpu.C /\ c.X = cpu.X /\ c.Y = v /\ c.S = cpu.S /\ c.PC = cpu.PC /\ c.P = Q
  BY <1>1 DEF CpuInv, Registers
<1> SUFFICES c \in Registers /\ V(c) = [V(cpu) EXCEPT !.Y = v, !.P = Q]
  OBVIOUS
<1> HIDE DEF c
<1>7. [V(cpu) EXCEPT !.Y = v] = R(Low(cpu.C), Low(cpu.X), v, Low(cpu.S), cpu.PC, cpu.P)
  BY SetY DEF V
<1>8. [R(Low(cpu.C), Low(cpu.X), v, Low(cpu.S), cpu.PC, cpu.P) EXCEPT !.P = Q] = R(Low(cpu.C), Low(cpu.X), v, Low(cpu.S), cpu.PC, Q)
  BY SetP
<1>9. V(c) = R(Low(cpu.C), Low(cpu.X), v, Low(cpu.S), cpu.PC, Q)
  BY <1>1, <1>2 DEF V
<1> QED BY <1>1, <1>2, <1>7, <1>8, <1>9
LEMMA ViewP ==
  ASSUME CpuInv, NEW Q \in SUBSET Flags
  PROVE  LET c == [cpu EXCEPT !.P = Q] IN c \in Registers /\ V(c) = [V(cpu) EXCEPT !.P = Q]
<1> DEFINE c == [cpu EXCEPT !.P = Q]
<1>1. c \in Registers /\ c.C = cpu.C /\ c.X = cpu.X /\ c.Y = cpu.Y /\ c.S = cpu.S /\ c.PC = cpu.PC /\ c.P = Q
  BY DEF CpuInv, Registers
<1> SUFFICES c \in Registers /\ V(c) = [V(cpu) EXCEPT !.P = Q]
  OBVIOUS
<1> HIDE DEF c
<1> QED BY <1>1, SetP DEF V
LEMMA RegsIs == [A |-> Low(cpu.C), X |-> Low(cpu.X), Y |-> Low(cpu.Y), SP |-> Low(cpu.S), PC |-> cpu.PC, P |-> cpu.P] = V(cpu)
                /\ V(cpu).A = Low(cpu.C) /\ V(cpu).X = Low(cpu.X) /\ V(cpu).Y = Low(cpu.Y) /\ V(cpu).SP = Low(cpu.S)
                /\ V(cpu).PC = cpu.PC /\ V(cpu).P = cpu.P
  BY DEF V, R
LEMMA SameResult ==
  ASSUME NEW v, NEW reg \in {"A", "X", "Y"}
  PROVE  Legacy!Result(reg, v) = [V(cpu) EXCEPT ![reg] = v, !.P = PutNZ(cpu.P, v, 8)]
<1>1. [V(cpu) EXCEPT ![reg] = v].P = cpu.P
  BY RegsIs DEF V, R
<1>2. Legacy!Result(reg, v) = [V(cpu) EXCEPT ![reg] = v, !.P = PutNZ(@, v, 8)]
  BY SamePuts, RegsIs DEF Legacy!Result
<1> QED BY <1>1, <1>2
LEMMA SameAlu ==
  ASSUME CpuAssumption, CpuInv, cpu.E, NEW base \in Nat, op - base \in NearOffsets
  PROVE  LET mode == Legacy!AluModes[op - base]
             e == Alu(base)
             f == Legacy!Address(mode)
         IN Same(f, e) /\ e.bytes \in Nat /\ Fetched(e, 8) \in Byte
<1> DEFINE mode == AluModes[op - base]
<1>1. mode \in NearModes /\ Legacy!AluModes[op - base] = mode
  BY DEF NearOffsets, Offsets, NearModes, AluModes, Legacy!AluModes
<1> HIDE DEF mode
<1>2. Alu(base) = Near(mode, 8)
  BY <1>1, Emulates DEF Alu, Address, mode
<1>3. Right(Near(mode, 8))
  BY <1>1, NearRight
<1> QED BY <1>1, <1>2, <1>3, SameAddress, FetchedFits, FitsByte DEF Right

\* The opcodes that are none of the 6502's and do not skip there what they skip here.
NewOpcodes ==
  {\h02, \h03, \h07, \h0B, \h0F, \h12, \h13, \h14, \h17, \h1A, \h1B, \h1C, \h1F, \h22,
   \h23, \h27, \h2B, \h2F, \h32, \h33, \h34, \h37, \h3A, \h3B, \h3C, \h3F, \h42, \h43,
   \h44, \h47, \h4B, \h4F, \h52, \h53, \h54, \h57, \h5A, \h5B, \h5C, \h5F, \h62, \h63,
   \h64, \h67, \h6B, \h6F, \h72, \h73, \h74, \h77, \h7A, \h7B, \h7C, \h7F, \h80, \h82,
   \h83, \h87, \h89, \h8B, \h8F, \h92, \h93, \h97, \h9B, \h9C, \h9E, \h9F, \hA3, \hA7,
   \hAB, \hAF, \hB2, \hB3, \hB7, \hBB, \hBF, \hC2, \hC3, \hC7, \hCB, \hCF, \hD2, \hD3,
   \hD4, \hD7, \hDA, \hDB, \hDC, \hDF, \hE2, \hE3, \hE7, \hEF, \hF2, \hF3, \hF4, \hF7,
   \hFA, \hFB, \hFC, \hFF}
LEMMA NewOnes == ASSUME op \in NewOpcodes PROVE NewInstruction
<1>1. \A n \in NewOpcodes : n \notin {b + o : b \in {0, 32, 64, 96, 160, 192, 224}, o \in AluOffsets}
  BY DEF NewOpcodes, AluOffsets
<1>2. \A n \in NewOpcodes : n \notin {128 + o : o \in AluOffsets \ {9}} \union {\hEB, \h24, \h2C}
  BY DEF NewOpcodes, AluOffsets
<1>3. \A n \in NewOpcodes : n \notin {b + o : b \in {0, 32, 64, 96, 192, 224}, o \in ShiftOffsets}
  BY DEF NewOpcodes, ShiftOffsets
<1>4. \A n \in NewOpcodes : n \notin {\h0A, \h2A, \h4A, \h6A, \hA2, \hA6, \hB6, \hAE, \hBE, \hA0, \hA4, \hB4, \hAC, \hBC}
  BY DEF NewOpcodes
<1>5. \A n \in NewOpcodes : n \notin {\h86, \h96, \h8E, \h84, \h94, \h8C, \hE0, \hE4, \hEC, \hC0, \hC4, \hCC}
  BY DEF NewOpcodes
<1>6. \A n \in NewOpcodes :
        n \notin {\hE8, \hC8, \hCA, \h88, \hAA, \h8A, \hA8, \h98, \hBA, \h9A, \h48, \h08, \h68, \h28}
  BY DEF NewOpcodes
<1>7. \A n \in NewOpcodes : n \notin {\h10, \h30, \h50, \h70, \h90, \hB0, \hD0, \hF0, \h4C, \h6C, \h20, \h60, \h40, 0}
  BY DEF NewOpcodes
<1>8. \A n \in NewOpcodes : n \notin {\h18, \h38, \h58, \h78, \hD8, \hF8, \hB8, \hEA} \union {\h04, \h0C}
  BY DEF NewOpcodes
<1>9. op \notin Opcodes6502 /\ op \notin {\h04, \h0C}
  BY <1>1, <1>2, <1>3, <1>4, <1>5, <1>6, <1>7, <1>8 DEF Opcodes6502
<1> QED BY <1>9 DEF NewInstruction
LEMMA LongOnes ==
  ASSUME CpuInv, NEW base \in {0, 32, 64, 96, 128, 160, 192, 224}, op - base \in Offsets \ NearOffsets, op \in Nat
  PROVE  NewInstruction
<1>1. op - base \in {7, 15, 18, 23, 31}
  BY DEF Offsets, NearOffsets
<1>2. op \in {base + o : o \in {7, 15, 18, 23, 31}}
  BY <1>1
<1>3. op \in NewOpcodes
  BY <1>2 DEF NewOpcodes
<1> QED BY <1>3, NewOnes
LEMMA OpByte == ASSUME CpuAssumption, CpuInv PROVE op \in Byte /\ op \in Nat /\ op < 256
  BY IrBytes DEF op, Byte

(* Loads and stores *)
LEMMA LoadedMirrors ==
  ASSUME CpuAssumption, CpuInv, CpuInv', cpu.E, NEW reg \in {"A", "X", "Y"}, NEW f, NEW e, Same(f, e), e.bytes \in Nat,
         NEW v, v = Fetched(e, 8), NEW c \in Registers, V(c) = [V(cpu) EXCEPT ![reg] = v, !.P = PutNZ(cpu.P, v, 8)],
         Advance(c, e.bytes, Penalty(e, 8))
  PROVE  Legacy!Advance(Legacy!Result(reg, Legacy!Fetched(f)), f.bytes, Legacy!Penalty(f))
<1>1. Legacy!Fetched(f) = v /\ Legacy!Penalty(f) = Penalty(e, 8) /\ f.bytes = e.bytes
  BY SameFetched DEF Same
<1>2. V(c) = Legacy!Result(reg, v)
  BY SameResult
<1>3. Legacy!Advance(Legacy!Result(reg, v), e.bytes, Penalty(e, 8))
  BY <1>2, MirroredAdvance
<1> QED BY <1>1, <1>3
LEMMA NZFlags == ASSUME CpuInv, NEW v PROVE PutNZ(cpu.P, v, 8) \in SUBSET Flags
  BY NZFlagged DEF Flagged
LEMMA LoadAMirrors == ASSUME CpuAssumption, CpuInv, CpuInv', cpu.E, LoadA PROVE NewInstruction \/ Legacy!LoadA
<1>1. CASE SkipsLong(160)
  BY <1>1, LongOnes, OpByte DEF SkipsLong
<1>2. CASE ~SkipsLong(160)
  <2> DEFINE e == Alu(160)
  <2> DEFINE v == Fetched(e, 8)
  <2> DEFINE mode == Legacy!AluModes[op - 160]
  <2> DEFINE f == Legacy!Address(mode)
  <2> DEFINE Q == PutNZ(cpu.P, v, 8)
  <2> DEFINE c == [cpu EXCEPT !.C = WithA(v), !.P = Q]
  <2>1. op - 160 \in NearOffsets /\ Advance(c, e.bytes, Penalty(e, 8))
    BY <1>2, Emulates DEF LoadA, Decoded, Native
  <2>2. Same(f, e) /\ e.bytes \in Nat /\ v \in Byte
    BY <2>1, SameAlu
  <2>3. Q \in SUBSET Flags
    BY NZFlags
  <2>4. c \in Registers /\ V(c) = [V(cpu) EXCEPT !.A = v, !.P = Q]
    <3> HIDE DEF v, Q
    <3> QED BY <2>2, <2>3, ViewA
  <2>5. v = Fetched(e, 8) /\ Q = PutNZ(cpu.P, v, 8)
    OBVIOUS
  <2> HIDE DEF e, v, c, f, Q
  <2>6. Legacy!Advance(Legacy!Result("A", Legacy!Fetched(f)), f.bytes, Legacy!Penalty(f))
    BY <2>1, <2>2, <2>4, <2>5, LoadedMirrors
  <2>7. <<160 + (op - 160), mode>> \in {<<160 + k, Legacy!AluModes[k]>> : k \in DOMAIN Legacy!AluModes}
    BY <2>1 DEF NearOffsets, Legacy!AluModes
  <2>8. 160 + (op - 160) = op
    BY OpByte
  <2> QED BY <2>6, <2>7, <2>8, SameOp DEF Legacy!LoadA, Legacy!Load, f
<1> QED BY <1>1, <1>2
LEMMA SameNear ==
  ASSUME CpuAssumption, CpuInv, cpu.E, NEW mode \in NearModes
  PROVE  LET e == Near(mode, 8)
             f == Legacy!Address(mode)
         IN /\ Address(mode, WidthM) = e /\ Address(mode, WidthX) = e /\ Address(mode, 8) = e
            /\ Same(f, e) /\ e.bytes \in Nat /\ Fetched(e, 8) \in Byte
<1>1. Address(mode, WidthM) = Near(mode, 8) /\ Address(mode, WidthX) = Near(mode, 8) /\ Address(mode, 8) = Near(mode, 8)
  BY Emulates DEF Address
<1>2. Right(Near(mode, 8))
  BY NearRight
<1> QED BY <1>1, <1>2, SameAddress, FetchedFits, FitsByte DEF Right
LEMMA LoadIndexMirrors ==
  ASSUME CpuAssumption, CpuInv, CpuInv', cpu.E, NEW reg \in {"X", "Y"}, NEW codes, \A c \in codes : c[2] \in NearModes,
         LoadIndex(reg, codes)
  PROVE  Legacy!Load(reg, codes)
<1>1. PICK c \in codes : LoadIndex(reg, {c})
  BY DEF LoadIndex
<1> DEFINE mode == c[2]
<1> DEFINE e == Near(mode, 8)
<1> DEFINE v == Fetched(e, 8)
<1> DEFINE f == Legacy!Address(mode)
<1> DEFINE Q == PutNZ(cpu.P, v, 8)
<1> DEFINE d == [cpu EXCEPT ![reg] = v, !.P = Q]
<1>2. mode \in NearModes
  OBVIOUS
<1>3. Address(mode, WidthX) = e /\ Same(f, e) /\ e.bytes \in Nat /\ v \in Byte
  BY <1>2, SameNear
<1>4. op = c[1] /\ Advance(d, e.bytes, Penalty(e, 8))
  BY <1>1, <1>3, Emulates DEF LoadIndex
<1>5. Q \in SUBSET Flags
  BY NZFlags
<1>6. d \in Registers /\ V(d) = [V(cpu) EXCEPT ![reg] = v, !.P = Q]
  <2> HIDE DEF v, Q
  <2> QED BY <1>3, <1>5, ViewX, ViewY
<1>7. v = Fetched(e, 8) /\ Q = PutNZ(cpu.P, v, 8)
  OBVIOUS
<1> HIDE DEF e, v, d, f, Q
<1>8. Legacy!Advance(Legacy!Result(reg, Legacy!Fetched(f)), f.bytes, Legacy!Penalty(f))
  BY <1>3, <1>4, <1>6, <1>7, LoadedMirrors
<1> QED BY <1>4, <1>8, SameOp DEF Legacy!Load, f
LEMMA LoadXYMirrors ==
  ASSUME CpuAssumption, CpuInv, CpuInv', cpu.E
  PROVE  (LoadX => Legacy!LoadX) /\ (LoadY => Legacy!LoadY)
<1>1. \A c \in {<<\hA2, "imm">>, <<\hA6, "zp">>, <<\hB6, "zpy">>, <<\hAE, "abs">>, <<\hBE, "aby">>} : c[2] \in NearModes
  BY DEF NearModes
<1>2. \A c \in {<<\hA0, "imm">>, <<\hA4, "zp">>, <<\hB4, "zpx">>, <<\hAC, "abs">>, <<\hBC, "abx">>} : c[2] \in NearModes
  BY DEF NearModes
<1>3. ASSUME LoadX PROVE Legacy!LoadX
  BY <1>1, <1>3, LoadIndexMirrors DEF LoadX, Legacy!LoadX
<1>4. ASSUME LoadY PROVE Legacy!LoadY
  BY <1>2, <1>4, LoadIndexMirrors DEF LoadY, Legacy!LoadY
<1> QED BY <1>3, <1>4
LEMMA StoredMirrors ==
  ASSUME CpuAssumption, CpuInv, CpuInv', cpu.E, NEW f, NEW e, Same(f, e), e.bytes \in Nat, NEW v \in Byte,
         Done(cpu, After(e.bytes), Written(e, v, 8), 0)
  PROVE  Legacy!Done(V(cpu), Legacy!After(f.bytes), Legacy!Over(Legacy!Cell(f.at, v), mem), 0)
<1>1. Written(e, v, 8) = Legacy!Over(Legacy!Cell(f.at, v), mem)
  BY ByteLow, SameCells DEF Written, Same
<1>2. Legacy!After(f.bytes) = After(e.bytes) /\ After(e.bytes) \in Words
  BY AfterWord DEF After, Legacy!After, Same
<1>3. cpu \in Registers
  BY DEF CpuInv
<1> QED BY <1>1, <1>2, <1>3, Mirrored
LEMMA StoreAMirrors ==
  ASSUME CpuAssumption, CpuInv, CpuInv', cpu.E, StoreA \/ StoreALong
  PROVE  NewInstruction \/ Legacy!StoreA
<1>1. CASE StoreALong
  BY <1>1, LongOnes, OpByte DEF StoreALong, SkipsLong
<1>2. CASE StoreA
  <2> DEFINE e == Alu(128)
  <2> DEFINE mode == Legacy!AluModes[op - 128]
  <2> DEFINE f == Legacy!Address(mode)
  <2>1. op - 128 \in NearOffsets \ {9} /\ Done(cpu, After(e.bytes), Written(e, A, 8), 0)
    BY <1>2, Emulates DEF StoreA, StoredA, Wide
  <2>2. Same(f, e) /\ e.bytes \in Nat
    BY <2>1, SameAlu
  <2>3. A = V(cpu).A /\ A \in Byte
    BY Emulates, RegsIs
  <2> HIDE DEF e, f
  <2>4. Legacy!Done(V(cpu), Legacy!After(f.bytes), Legacy!Over(Legacy!Cell(f.at, V(cpu).A), mem), 0)
    BY <2>1, <2>2, <2>3, StoredMirrors
  <2>6. op - 128 \in DOMAIN Legacy!AluModes \ {9}
    BY <2>1 DEF NearOffsets, Legacy!AluModes
  <2>7. <<128 + (op - 128), mode>> \in {<<128 + k, Legacy!AluModes[k]>> : k \in DOMAIN Legacy!AluModes \ {9}}
    BY <2>6
  <2>8. 128 + (op - 128) = op
    BY OpByte
  <2> QED BY <2>4, <2>7, <2>8, SameOp, RegsIs DEF Legacy!StoreA, Legacy!Store, f
<1> QED BY <1>1, <1>2
LEMMA StoreIndexMirrors ==
  ASSUME CpuAssumption, CpuInv, CpuInv', cpu.E, NEW reg \in {"X", "Y"}, NEW codes, \A c \in codes : c[2] \in NearModes,
         StoreIndex(reg, codes)
  PROVE  Legacy!Store(reg, codes)
<1>1. PICK c \in codes : StoreIndex(reg, {c})
  BY DEF StoreIndex
<1> DEFINE mode == c[2]
<1> DEFINE e == Near(mode, 8)
<1> DEFINE f == Legacy!Address(mode)
<1>2. mode \in NearModes
  OBVIOUS
<1>3. Address(mode, WidthX) = e /\ Same(f, e) /\ e.bytes \in Nat
  BY <1>2, SameNear
<1>4. op = c[1] /\ Done(cpu, After(e.bytes), Written(e, Index(reg), 8), 0)
  BY <1>1, <1>3, Emulates DEF StoreIndex, Wide
<1>5. Index(reg) = V(cpu)[reg] /\ Index(reg) \in Byte
  BY Emulates, RegsIs
<1> HIDE DEF e, f
<1>6. Legacy!Done(V(cpu), Legacy!After(f.bytes), Legacy!Over(Legacy!Cell(f.at, V(cpu)[reg]), mem), 0)
  BY <1>3, <1>4, <1>5, StoredMirrors
<1> QED BY <1>4, <1>6, SameOp, RegsIs DEF Legacy!Store, f
LEMMA StoreXYMirrors ==
  ASSUME CpuAssumption, CpuInv, CpuInv', cpu.E
  PROVE  (StoreX => Legacy!StoreX) /\ (StoreY => Legacy!StoreY)
<1>1. \A c \in {<<\h86, "zp">>, <<\h96, "zpy">>, <<\h8E, "abs">>} : c[2] \in NearModes
  BY DEF NearModes
<1>2. \A c \in {<<\h84, "zp">>, <<\h94, "zpx">>, <<\h8C, "abs">>} : c[2] \in NearModes
  BY DEF NearModes
<1>3. ASSUME StoreX PROVE Legacy!StoreX
  BY <1>1, <1>3, StoreIndexMirrors DEF StoreX, Legacy!StoreX
<1>4. ASSUME StoreY PROVE Legacy!StoreY
  BY <1>2, <1>4, StoreIndexMirrors DEF StoreY, Legacy!StoreY
<1> QED BY <1>3, <1>4

(* Arithmetic *)
LEMMA PutsCommute == \A P, f, u, g, w : f # g => Put(Put(P, f, u), g, w) = Put(Put(P, g, w), f, u)
  BY DEF Put
LEMMA AddedMirrors ==
  ASSUME CpuInv, NEW a \in Byte, NEW v \in Byte, "D" \notin cpu.P
  PROVE  LET r == Legacy!Adc(a, v, cpu.P)
             s == BinaryAdd(a, v, cpu.P, 8)
         IN r.A = s.v /\ r.P = s.P
<1> DEFINE sum == a + v + Carry(cpu.P)
<1> DEFINE n == sum % 256
<1> DEFINE over == Top(a, 8) = Top(v, 8) /\ Top(a, 8) # Top(n, 8)
<1> DEFINE cv == Put(Put(cpu.P, "C", sum > 255), "V", over)
<1>1. sum \in Nat
  BY CarryBit DEF Byte
<1>2. Legacy!Adc(a, v, cpu.P) = [A |-> n, P |-> Put(Put(cv, "N", Top(n, 8)), "Z", n = 0)]
  BY SamePuts DEF Legacy!Adc
<1>3. BinaryAdd(a, v, cpu.P, 8) = [v |-> n, P |-> PutNZ(Put(Put(cpu.P, "C", sum >= 256), "V", over), n, 8)]
  BY DEF BinaryAdd, Span
<1>4. (sum >= 256) = (sum > 255)
  BY <1>1
<1> HIDE DEF sum, n, over
<1>5. BinaryAdd(a, v, cpu.P, 8) = [v |-> n, P |-> PutNZ(cv, n, 8)]
  BY <1>3, <1>4
<1> HIDE DEF cv
<1>6. PutNZ(cv, n, 8) = Put(Put(cv, "N", Top(n, 8)), "Z", n = 0)
  BY PutsCommute DEF PutNZ
<1> QED BY <1>2, <1>5, <1>6
LEMMA SubtractedMirrors ==
  ASSUME CpuInv, NEW a \in Byte, NEW v \in Byte, "D" \notin cpu.P
  PROVE  LET r == Legacy!Sbc(a, v, cpu.P)
             s == BinarySub(a, v, cpu.P, 8)
         IN r.A = s.v /\ r.P = s.P
<1> DEFINE diff == 256 + a - v - (1 - Carry(cpu.P))
<1> DEFINE n == diff % 256
<1> DEFINE over == Top(a, 8) # Top(v, 8) /\ Top(a, 8) # Top(n, 8)
<1> DEFINE cv == Put(Put(cpu.P, "C", diff >= 256), "V", over)
<1>2. Legacy!Sbc(a, v, cpu.P) = [A |-> n, P |-> Put(Put(cv, "N", Top(n, 8)), "Z", n = 0)]
  BY SamePuts DEF Legacy!Sbc
<1>3. BinarySub(a, v, cpu.P, 8) = [v |-> n, P |-> PutNZ(cv, n, 8)]
  BY DEF BinarySub, Span
<1> HIDE DEF n, over, cv
<1>6. PutNZ(cv, n, 8) = Put(Put(cv, "N", Top(n, 8)), "Z", n = 0)
  BY PutsCommute DEF PutNZ
<1> QED BY <1>2, <1>3, <1>6
LEMMA AMirrors ==
  ASSUME CpuAssumption, CpuInv, CpuInv', cpu.E, NEW v \in Byte, NEW Q \in SUBSET Flags, NEW n \in Nat, NEW x,
         Advance([cpu EXCEPT !.C = WithA(v), !.P = Q], n, x)
  PROVE  Legacy!Advance([V(cpu) EXCEPT !.A = v, !.P = Q], n, x)
<1> DEFINE c == [cpu EXCEPT !.C = WithA(v), !.P = Q]
<1>1. c \in Registers /\ V(c) = [V(cpu) EXCEPT !.A = v, !.P = Q]
  BY ViewA
<1>2. Advance(c, n, x)
  OBVIOUS
<1> HIDE DEF c
<1> QED BY <1>1, <1>2, MirroredAdvance
LEMMA IndexMirrors ==
  ASSUME CpuAssumption, CpuInv, CpuInv', cpu.E, NEW reg \in {"X", "Y"}, NEW v \in Byte, NEW Q \in SUBSET Flags, NEW n \in Nat, NEW x,
         Advance([cpu EXCEPT ![reg] = v, !.P = Q], n, x)
  PROVE  Legacy!Advance([V(cpu) EXCEPT ![reg] = v, !.P = Q], n, x)
<1> DEFINE c == [cpu EXCEPT ![reg] = v, !.P = Q]
<1>1. c \in Registers /\ V(c) = [V(cpu) EXCEPT ![reg] = v, !.P = Q]
  BY ViewX, ViewY
<1>2. Advance(c, n, x)
  OBVIOUS
<1> HIDE DEF c
<1> QED BY <1>1, <1>2, MirroredAdvance
LEMMA PMirrors ==
  ASSUME CpuAssumption, CpuInv, CpuInv', cpu.E, NEW Q \in SUBSET Flags, NEW n \in Nat, NEW x,
         Advance([cpu EXCEPT !.P = Q], n, x)
  PROVE  Legacy!Advance([V(cpu) EXCEPT !.P = Q], n, x)
<1> DEFINE c == [cpu EXCEPT !.P = Q]
<1>1. c \in Registers /\ V(c) = [V(cpu) EXCEPT !.P = Q]
  BY ViewP
<1>2. Advance(c, n, x)
  OBVIOUS
<1> HIDE DEF c
<1> QED BY <1>1, <1>2, MirroredAdvance
LEMMA BinaryByte ==
  ASSUME CpuInv, NEW a \in Byte, NEW v \in Byte
  PROVE  LET r == BinaryAdd(a, v, cpu.P, 8)
             s == BinarySub(a, v, cpu.P, 8)
         IN r.v \in Byte /\ r.P \in SUBSET Flags /\ s.v \in Byte /\ s.P \in SUBSET Flags
<1> DEFINE r == BinaryAdd(a, v, cpu.P, 8)
<1> DEFINE s == BinarySub(a, v, cpu.P, 8)
<1>1. Fits(r.v, 8) /\ Flagged(r.P) /\ Fits(s.v, 8) /\ Flagged(s.P)
  BY BinaryGood, ByteFits, ByteLow
<1> QED BY <1>1, FitsByte DEF Flagged
Summed(base) ==
  /\ op - base \in DOMAIN Legacy!AluModes \/ (base = 224 /\ op = \hEB)
  /\ LET f == Legacy!Address(IF op = \hEB THEN "imm" ELSE Legacy!AluModes[op - base])
         s == IF base = 96 THEN Legacy!Adc(V(cpu).A, Legacy!Fetched(f), V(cpu).P)
                           ELSE Legacy!Sbc(V(cpu).A, Legacy!Fetched(f), V(cpu).P)
     IN Legacy!Advance([V(cpu) EXCEPT !.A = s.A, !.P = s.P], f.bytes, Legacy!Penalty(f))
LEMMA SummedIs == \A base \in {96, 224} : Summed(base) => Legacy!AddSub
<1> DEFINE Holding(b) ==
      /\ Legacy!op - b \in DOMAIN Legacy!AluModes \/ (b = 224 /\ Legacy!op = \hEB)
      /\ LET e == Legacy!Address(IF Legacy!op = \hEB THEN "imm" ELSE Legacy!AluModes[Legacy!op - b])
             r == IF b = 96 THEN Legacy!Adc(V(cpu).A, Legacy!Fetched(e), V(cpu).P)
                            ELSE Legacy!Sbc(V(cpu).A, Legacy!Fetched(e), V(cpu).P)
         IN Legacy!Advance([V(cpu) EXCEPT !.A = r.A, !.P = r.P], e.bytes, Legacy!Penalty(e))
<1>1. Legacy!AddSub <=> \E b \in {96, 224} : Holding(b)
  BY Zenon DEF Legacy!AddSub, V, R
<1>2. \A b : Summed(b) <=> Holding(b)
  BY Zenon DEF Summed, op, Legacy!op
<1> HIDE DEF Holding
<1> QED BY <1>1, <1>2
LEMMA AddSubMirrors ==
  ASSUME CpuAssumption, CpuInv, CpuInv', cpu.E, AddSub
  PROVE  NewInstruction \/ DecimalSum \/ Legacy!AddSub
<1>1. PICK base \in {96, 224} :
    \/ SkipsLong(base)
    \/ /\ Decoded(base)
       /\ LET e == Alu(base)
              v == Fetched(e, WidthM)
              r == IF "D" \in cpu.P
                     THEN IF base = 96 THEN DecimalAdd(Low(cpu.C), Low(v), cpu.P)
                                       ELSE DecimalSub(Low(cpu.C), Low(v), cpu.P)
                     ELSE IF base = 96 THEN BinaryAdd(A, v, cpu.P, WidthM)
                                       ELSE BinarySub(A, v, cpu.P, WidthM)
              c == IF "D" \in cpu.P THEN 256 * High(cpu.C) + r.v ELSE WithA(r.v)
          IN Advance([cpu EXCEPT !.C = c, !.P = r.P], e.bytes, Penalty(e, WidthM))
  BY DEF AddSub
<1>2. CASE SkipsLong(base)
  BY <1>2, LongOnes, OpByte DEF SkipsLong
<1>3. CASE ~SkipsLong(base)
  <2>1. op - base \in NearOffsets
    BY <1>1, <1>3 DEF Decoded, Native
  <2>2. CASE "D" \in cpu.P
    BY <2>1, <2>2 DEF DecimalSum
  <2>3. CASE "D" \notin cpu.P
    <3> DEFINE e == Alu(base)
    <3> DEFINE v == Fetched(e, 8)
    <3> DEFINE r == IF base = 96 THEN BinaryAdd(A, v, cpu.P, 8) ELSE BinarySub(A, v, cpu.P, 8)
    <3> DEFINE mode == Legacy!AluModes[op - base]
    <3> DEFINE f == Legacy!Address(mode)
    <3>1. Advance([cpu EXCEPT !.C = WithA(r.v), !.P = r.P], e.bytes, Penalty(e, 8))
      BY <1>1, <1>3, <2>3, Emulates
    <3>2. Same(f, e) /\ e.bytes \in Nat /\ v \in Byte
      BY <2>1, SameAlu
    <3>3. Legacy!Fetched(f) = v /\ Legacy!Penalty(f) = Penalty(e, 8) /\ f.bytes = e.bytes
      BY <3>2, SameFetched DEF Same
    <3>4. A \in Byte /\ A = V(cpu).A /\ V(cpu).P = cpu.P
      BY Emulates, RegsIs
    <3> DEFINE s == IF base = 96 THEN Legacy!Adc(V(cpu).A, v, V(cpu).P) ELSE Legacy!Sbc(V(cpu).A, v, V(cpu).P)
    <3> HIDE DEF v, e, f
    <3>5. r.v \in Byte /\ r.P \in SUBSET Flags
      BY <3>2, <3>4, BinaryByte
    <3>6. s.A = r.v /\ s.P = r.P
      BY <2>3, <3>2, <3>4, AddedMirrors, SubtractedMirrors
    <3>7. s = IF base = 96 THEN Legacy!Adc(V(cpu).A, Legacy!Fetched(f), V(cpu).P) ELSE Legacy!Sbc(V(cpu).A, Legacy!Fetched(f), V(cpu).P)
      BY <3>3
    <3> DEFINE a == r.v
    <3> DEFINE Q == r.P
    <3>8. s.A = a /\ s.P = Q
      BY <3>6
    <3>16. Advance([cpu EXCEPT !.C = WithA(a), !.P = Q], e.bytes, Penalty(e, 8))
      BY <3>1
    <3>17. a \in Byte /\ Q \in SUBSET Flags
      BY <3>5
    <3> HIDE DEF r, s, a, Q
    <3> DEFINE n == e.bytes
    <3> DEFINE x == Penalty(e, 8)
    <3>9. n \in Nat /\ Advance([cpu EXCEPT !.C = WithA(a), !.P = Q], n, x) /\ f.bytes = n /\ Legacy!Penalty(f) = x
      BY <3>2, <3>3, <3>16
    <3> HIDE DEF n, x
    <3>10. Legacy!Advance([V(cpu) EXCEPT !.A = a, !.P = Q], n, x)
      BY <3>9, <3>17, AMirrors, ZenonT(60)
    <3>11. Legacy!Advance([V(cpu) EXCEPT !.A = a, !.P = Q], f.bytes, Legacy!Penalty(f))
      BY <3>9, <3>10
    <3>12. op # \hEB /\ op - base \in DOMAIN Legacy!AluModes
      BY <2>1, OpByte DEF NearOffsets, Legacy!AluModes
    <3>13. f = Legacy!Address(IF op = \hEB THEN "imm" ELSE Legacy!AluModes[op - base])
      BY <3>12 DEF f
    <3>14. Legacy!Advance([V(cpu) EXCEPT !.A = s.A, !.P = s.P], f.bytes, Legacy!Penalty(f))
      BY <3>8, <3>11
    <3>15. Summed(base)
      BY <3>7, <3>12, <3>13, <3>14, Zenon DEF Summed
    <3> QED BY <3>15, SummedIs
  <2> QED BY <2>2, <2>3
<1> QED BY <1>2, <1>3
LEMMA ExchangeMirrors ==
  ASSUME CpuAssumption, CpuInv, CpuInv', cpu.E, Exchange
  PROVE  DecimalSum \/ Legacy!AddSub
<1>1. op = \hEB
  BY DEF Exchange
<1>2. CASE "D" \in cpu.P
  BY <1>1, <1>2 DEF DecimalSum
<1>3. CASE "D" \notin cpu.P
  <2> DEFINE v == ir[2]
  <2> DEFINE r == BinarySub(A, v, cpu.P, 8)
  <2> DEFINE s == Legacy!Sbc(V(cpu).A, v, V(cpu).P)
  <2> DEFINE f == Legacy!Address("imm")
  <2>1. Advance([cpu EXCEPT !.C = WithA(r.v), !.P = r.P], 1, 0)
    BY <1>3 DEF Exchange, Native
  <2>2. f = Legacy!Plain(-1, 1)
    BY DEF Legacy!Address
  <2>3. Legacy!Fetched(f) = v /\ Legacy!Penalty(f) = 0 /\ f.bytes = 1
    BY <2>2 DEF Legacy!Plain, Legacy!Fetched, Legacy!Penalty
  <2>4. A \in Byte /\ A = V(cpu).A /\ V(cpu).P = cpu.P /\ v \in Byte
    BY Emulates, RegsIs, IrBytes
  <2> HIDE DEF v, f
  <2>5. r.v \in Byte /\ r.P \in SUBSET Flags
    BY <2>4, BinaryByte
  <2>6. s.A = r.v /\ s.P = r.P
    BY <1>3, <2>4, SubtractedMirrors
  <2>7. s = Legacy!Sbc(V(cpu).A, Legacy!Fetched(f), V(cpu).P)
    BY <2>3
  <2> DEFINE a == r.v
  <2> DEFINE Q == r.P
  <2>8. Advance([cpu EXCEPT !.C = WithA(a), !.P = Q], 1, 0) /\ a \in Byte /\ Q \in SUBSET Flags /\ s.A = a /\ s.P = Q
    BY <2>1, <2>5, <2>6
  <2> HIDE DEF r, s, a, Q
  <2>9. Legacy!Advance([V(cpu) EXCEPT !.A = a, !.P = Q], f.bytes, Legacy!Penalty(f))
    BY <2>3, <2>8, AMirrors
  <2>10. 224 \in {96, 224} /\ 224 # 96 /\ f = Legacy!Address("imm")
    BY DEF f
  <2>11. Legacy!Advance([V(cpu) EXCEPT !.A = s.A, !.P = s.P], f.bytes, Legacy!Penalty(f))
    BY <2>8, <2>9
  <2>12. Summed(224)
    BY <1>1, <2>7, <2>10, <2>11, Zenon DEF Summed
  <2> QED BY <2>12, SummedIs
<1> QED BY <1>2, <1>3
LEMMA LogicMirrors ==
  ASSUME CpuAssumption, CpuInv, CpuInv', cpu.E, Logic
  PROVE  NewInstruction \/ Legacy!Logic
<1>1. PICK base \in {0, 32, 64} :
    \/ SkipsLong(base)
    \/ /\ Decoded(base)
       /\ LET e == Alu(base)
              v == Fetched(e, WidthM)
              r == CASE base = 0 -> Or(A, v) [] base = 32 -> And(A, v) [] OTHER -> Xor(A, v)
          IN Advance([cpu EXCEPT !.C = WithA(r), !.P = PutNZ(@, r, WidthM)], e.bytes, Penalty(e, WidthM))
  BY DEF Logic
<1>2. CASE SkipsLong(base)
  BY <1>2, LongOnes, OpByte DEF SkipsLong
<1>3. CASE ~SkipsLong(base)
  <2> DEFINE e == Alu(base)
  <2> DEFINE v == Fetched(e, 8)
  <2> DEFINE r == CASE base = 0 -> Or(A, v) [] base = 32 -> And(A, v) [] OTHER -> Xor(A, v)
  <2> DEFINE Q == PutNZ(cpu.P, r, 8)
  <2> DEFINE mode == Legacy!AluModes[op - base]
  <2> DEFINE f == Legacy!Address(mode)
  <2>1. Advance([cpu EXCEPT !.C = WithA(r), !.P = Q], e.bytes, Penalty(e, 8)) /\ op - base \in NearOffsets
    BY <1>1, <1>3, Emulates DEF Decoded, Native
  <2>2. Same(f, e) /\ e.bytes \in Nat /\ v \in Byte
    BY <2>1, SameAlu
  <2>3. Legacy!Fetched(f) = v /\ Legacy!Penalty(f) = Penalty(e, 8) /\ f.bytes = e.bytes
    BY <2>2, SameFetched DEF Same
  <2>4. A \in Byte /\ A = V(cpu).A
    BY Emulates, RegsIs
  <2> HIDE DEF v, e, f
  <2>5. r \in Byte
    BY <2>2, <2>4, LogicFits, ByteFits, FitsByte
  <2>6. r = CASE base = 0 -> Legacy!Or(V(cpu).A, v) [] base = 32 -> Legacy!And(V(cpu).A, v) [] OTHER -> Legacy!Xor(V(cpu).A, v)
    BY <2>4, SameBits
  <2> HIDE DEF r
  <2>7. Q \in SUBSET Flags
    BY NZFlags
  <2>8. Q = PutNZ(cpu.P, r, 8)
    OBVIOUS
  <2> HIDE DEF Q
  <2>9. Legacy!Advance([V(cpu) EXCEPT !.A = r, !.P = Q], e.bytes, Penalty(e, 8))
    BY <2>1, <2>2, <2>5, <2>7, AMirrors
  <2>10. Legacy!Advance(Legacy!Result("A", r), f.bytes, Legacy!Penalty(f))
    BY <2>3, <2>8, <2>9, SameResult
  <2>11. op - base \in DOMAIN Legacy!AluModes
    BY <2>1 DEF NearOffsets, Legacy!AluModes
  <2> QED BY <2>3, <2>6, <2>10, <2>11, SameOp, RegsIs DEF Legacy!Logic, f
<1> QED BY <1>2, <1>3
LEMMA ComparedMirrors ==
  ASSUME CpuAssumption, CpuInv, CpuInv', cpu.E, NEW f, NEW e, Same(f, e), e.bytes \in Nat, NEW w,
         Advance([cpu EXCEPT !.P = Compared(w, Fetched(e, 8), 8)], e.bytes, Penalty(e, 8))
  PROVE  LET v == Legacy!Fetched(f)
         IN Legacy!Advance([V(cpu) EXCEPT !.P = Legacy!PutNZ(Legacy!Put(@, "C", w >= v), (256 + w - v) % 256, 8)],
                           f.bytes, Legacy!Penalty(f))
<1> DEFINE v == Legacy!Fetched(f)
<1> DEFINE Q == Compared(w, v, 8)
<1>1. v = Fetched(e, 8) /\ Legacy!Penalty(f) = Penalty(e, 8) /\ f.bytes = e.bytes
  BY SameFetched DEF Same
<1>2. Q \in SUBSET Flags
  BY ComparedFlagged DEF Flagged
<1>3. Q = Legacy!PutNZ(Legacy!Put(cpu.P, "C", w >= v), (256 + w - v) % 256, 8)
  BY SamePuts DEF Compared, Span
<1>4. [V(cpu) EXCEPT !.P = Legacy!PutNZ(Legacy!Put(@, "C", w >= v), (256 + w - v) % 256, 8)] = [V(cpu) EXCEPT !.P = Q]
  BY <1>3, RegsIs
<1>5. Advance([cpu EXCEPT !.P = Q], e.bytes, Penalty(e, 8))
  BY <1>1
<1> DEFINE n == e.bytes
<1> DEFINE x == Penalty(e, 8)
<1>6. n \in Nat /\ Advance([cpu EXCEPT !.P = Q], n, x)
  BY <1>5
<1> HIDE DEF Q, n, x
<1>7. Legacy!Advance([V(cpu) EXCEPT !.P = Q], n, x)
  BY <1>2, <1>6, PMirrors
<1> QED BY <1>1, <1>4, <1>7 DEF n, x
LEMMA CompareAMirrors ==
  ASSUME CpuAssumption, CpuInv, CpuInv', cpu.E, CompareA
  PROVE  NewInstruction \/ Legacy!CompareA
<1>1. CASE SkipsLong(192)
  BY <1>1, LongOnes, OpByte DEF SkipsLong
<1>2. CASE ~SkipsLong(192)
  <2> DEFINE e == Alu(192)
  <2> DEFINE mode == Legacy!AluModes[op - 192]
  <2> DEFINE f == Legacy!Address(mode)
  <2>1. op - 192 \in NearOffsets /\ Advance([cpu EXCEPT !.P = Compared(A, Fetched(e, 8), 8)], e.bytes, Penalty(e, 8))
    BY <1>2, Emulates DEF CompareA, Decoded, Native
  <2>2. Same(f, e) /\ e.bytes \in Nat /\ A = Low(cpu.C)
    BY <2>1, SameAlu, Emulates
  <2> HIDE DEF e, f
  <2>3. LET v == Legacy!Fetched(f)
        IN Legacy!Advance([V(cpu) EXCEPT !.P = Legacy!PutNZ(Legacy!Put(@, "C", Low(cpu.C) >= v), (256 + Low(cpu.C) - v) % 256, 8)],
                          f.bytes, Legacy!Penalty(f))
    BY <2>1, <2>2, ComparedMirrors
  <2>4. op - 192 \in DOMAIN Legacy!AluModes
    BY <2>1 DEF NearOffsets, Legacy!AluModes
  <2>5. <<192 + (op - 192), mode>> \in {<<192 + k, Legacy!AluModes[k]>> : k \in DOMAIN Legacy!AluModes}
    BY <2>4
  <2>6. 192 + (op - 192) = op
    BY OpByte
  <2>7. \E c \in {<<192 + k, Legacy!AluModes[k]>> : k \in DOMAIN Legacy!AluModes} : op = c[1] /\ f = Legacy!Address(c[2])
    BY <2>5, <2>6 DEF f
  <2> QED BY <2>3, <2>7, SameOp, RegsIs DEF Legacy!CompareA, Legacy!Compare
<1> QED BY <1>1, <1>2
LEMMA CompareIndexMirrors ==
  ASSUME CpuAssumption, CpuInv, CpuInv', cpu.E, CompareIndex
  PROVE  Legacy!CompareX \/ Legacy!CompareY
<1>1. PICK reg \in {"X", "Y"}, c \in {<<0, "imm">>, <<4, "zp">>, <<12, "abs">>} :
    /\ op = (IF reg = "X" THEN \hE0 ELSE \hC0) + c[1]
    /\ LET e == Address(c[2], WidthX)
       IN Advance([cpu EXCEPT !.P = Compared(Index(reg), Fetched(e, WidthX), WidthX)], e.bytes, Penalty(e, WidthX))
  BY DEF CompareIndex
<1> DEFINE mode == c[2]
<1> DEFINE e == Near(mode, 8)
<1> DEFINE f == Legacy!Address(mode)
<1>2. mode \in NearModes
  BY DEF NearModes
<1>3. Address(mode, WidthX) = e /\ Same(f, e) /\ e.bytes \in Nat
  BY <1>2, SameNear
<1> DEFINE w == V(cpu)[reg]
<1>4. Index(reg) = w
  BY Emulates, RegsIs
<1>5. Advance([cpu EXCEPT !.P = Compared(w, Fetched(e, 8), 8)], e.bytes, Penalty(e, 8))
  BY <1>1, <1>3, <1>4, Emulates
<1> HIDE DEF e, f, w
<1>6. LET v == Legacy!Fetched(f)
      IN Legacy!Advance([V(cpu) EXCEPT !.P = Legacy!PutNZ(Legacy!Put(@, "C", w >= v), (256 + w - v) % 256, 8)],
                        f.bytes, Legacy!Penalty(f))
  BY <1>3, <1>5, ComparedMirrors, ZenonT(60)
<1>7. CASE reg = "X"
  <2>1. \E d \in {<<\hE0, "imm">>, <<\hE4, "zp">>, <<\hEC, "abs">>} : op = d[1] /\ mode = d[2]
    BY <1>1, <1>7
  <2> HIDE DEF mode
  <2>2. \E d \in {<<\hE0, "imm">>, <<\hE4, "zp">>, <<\hEC, "abs">>} : op = d[1] /\ f = Legacy!Address(d[2])
    BY <2>1 DEF f
  <2> QED BY <1>6, <1>7, <2>2, SameOp, RegsIs DEF w, Legacy!CompareX, Legacy!Compare
<1>8. CASE reg = "Y"
  <2>1. \E d \in {<<\hC0, "imm">>, <<\hC4, "zp">>, <<\hCC, "abs">>} : op = d[1] /\ mode = d[2]
    BY <1>1, <1>8
  <2> HIDE DEF mode
  <2>2. \E d \in {<<\hC0, "imm">>, <<\hC4, "zp">>, <<\hCC, "abs">>} : op = d[1] /\ f = Legacy!Address(d[2])
    BY <2>1 DEF f
  <2> QED BY <1>6, <1>8, <2>2, SameOp, RegsIs DEF w, Legacy!CompareY, Legacy!Compare
<1> QED BY <1>7, <1>8
LEMMA BitTestMirrors ==
  ASSUME CpuAssumption, CpuInv, CpuInv', cpu.E, BitTest
  PROVE  Legacy!BitTest
<1> DEFINE mode == IF op = \h24 THEN "zp" ELSE "abs"
<1> DEFINE e == Near(mode, 8)
<1> DEFINE f == Legacy!Address(mode)
<1> DEFINE v == Fetched(e, 8)
<1> DEFINE second == (v \div 64) % 2 = 1
<1> DEFINE Q == Put(Put(Put(cpu.P, "Z", And(A, v) = 0), "V", second), "N", Top(v, 8))
<1>1. mode \in NearModes
  BY DEF NearModes
<1>2. Address(mode, WidthM) = e /\ Same(f, e) /\ e.bytes \in Nat /\ v \in Byte
  BY <1>1, SameNear
<1>3. Span(8) \div 4 = 64
  BY DEF Span
<1>4. op \in {\h24, \h2C} /\ Advance([cpu EXCEPT !.P = Q], e.bytes, 0)
  BY <1>2, <1>3, Emulates DEF BitTest, Wide
<1>5. f.bytes = e.bytes /\ Legacy!Fetched(f) = v
  BY <1>2, SameFetched DEF Same
<1>6. ("V" \in Legacy!FlagsOf(v)) = second
  <2>1. "V" \in FlagsOf(v) <=> 64 \in BitsOf(v)
    BY DEF FlagsOf, Flags, Weight
  <2>2. 64 \in BitsOf(v) <=> second
    BY DEF BitsOf, Weights
  <2> QED BY <2>1, <2>2, SameBits
<1>7. A = V(cpu).A
  BY Emulates, RegsIs
<1> DEFINE L == Legacy!Put(Legacy!Put(Legacy!Put(cpu.P, "Z", Legacy!And(V(cpu).A, v) = 0), "V", "V" \in Legacy!FlagsOf(v)),
                           "N", Legacy!Top(v, 8))
<1> HIDE DEF e, f, v, mode
<1>8. L = Q
  BY <1>6, <1>7, SamePuts, SameBits
<1>9. Q \in SUBSET Flags
  <2> HIDE DEF second
  <2> QED BY FlaggedSame, FlaggedPut, FlagNames DEF Flagged
<1> DEFINE n == e.bytes
<1> HIDE DEF Q, L, n
<1>10. Legacy!Advance([V(cpu) EXCEPT !.P = Q], n, 0)
  BY <1>2, <1>4, <1>9, PMirrors DEF n
<1>11. Legacy!Advance([V(cpu) EXCEPT !.P = L], f.bytes, 0)
  BY <1>5, <1>8, <1>10 DEF n
<1> QED BY <1>4, <1>5, <1>11, SameOp, RegsIs DEF L, f, mode, Legacy!BitTest

(* Shifts and counts *)
LEMMA ModifyMirrors ==
  ASSUME CpuAssumption, CpuInv, CpuInv', cpu.E, NEW mode \in NearModes, NEW v \in Byte, NEW Q \in SUBSET Flags,
         LET e == Address(mode, 8) IN Done([cpu EXCEPT !.P = Q], After(e.bytes), Written(e, v, 8), 0)
  PROVE  LET f == Legacy!Address(mode)
         IN Legacy!Done([V(cpu) EXCEPT !.P = Q], Legacy!After(f.bytes), Legacy!Over(Legacy!Cell(f.at, v), mem), 0)
<1> DEFINE e == Near(mode, 8)
<1> DEFINE f == Legacy!Address(mode)
<1> DEFINE c == [cpu EXCEPT !.P = Q]
<1>1. Address(mode, 8) = e /\ Same(f, e) /\ e.bytes \in Nat
  BY SameNear
<1>2. c \in Registers /\ V(c) = [V(cpu) EXCEPT !.P = Q]
  BY ViewP
<1>3. Done(c, After(e.bytes), Written(e, v, 8), 0)
  BY <1>1
<1> HIDE DEF c, e, f
<1>4. Written(e, v, 8) = Legacy!Over(Legacy!Cell(f.at, v), mem)
  BY <1>1, ByteLow, SameCells DEF Written, Same
<1>5. Legacy!After(f.bytes) = After(e.bytes) /\ After(e.bytes) \in Words
  BY <1>1, AfterWord DEF After, Legacy!After, Same
<1>6. Legacy!Done(V(c), After(e.bytes), Written(e, v, 8), 0)
  BY <1>2, <1>3, <1>5, Mirrored
<1> QED BY <1>2, <1>4, <1>5, <1>6 DEF f
LEMMA ShiftCells ==
  ASSUME CpuAssumption, CpuInv, cpu.E, NEW base \in Nat, op - base \in DOMAIN ShiftModes
  PROVE  LET mode == ShiftModes[op - base]
             e == Address(mode, 8)
             f == Legacy!Address(mode)
         IN /\ mode \in NearModes /\ Legacy!ShiftModes[op - base] = mode /\ op - base \in DOMAIN Legacy!ShiftModes
            /\ f.at = e.at /\ Rd(e.at) \in Byte /\ Legacy!Rd(f.at) = Rd(e.at)
<1> DEFINE mode == ShiftModes[op - base]
<1>1. mode \in NearModes /\ Legacy!ShiftModes[op - base] = mode /\ op - base \in DOMAIN Legacy!ShiftModes
  BY DEF ShiftModes, Legacy!ShiftModes, NearModes
<1>2. Rd(Address(mode, 8).at) \in Byte
  BY ModifyRight
<1> HIDE DEF mode
<1>3. Legacy!Address(mode).at = Address(mode, 8).at
  BY <1>1, SameNear DEF Same
<1> QED BY <1>1, <1>2, <1>3, SameCells DEF mode
LEMMA SameShifted ==
  ASSUME CpuInv, NEW kind, NEW v \in Byte
  PROVE  LET r == Legacy!Shifted(kind, v, cpu.P)
             s == Shifted(kind, v, 8)
         IN r.v = s.v /\ r.P = s.P /\ s.v \in Byte /\ s.P \in SUBSET Flags
<1> DEFINE in == IF kind \in {32, 96} THEN Carry(cpu.P) ELSE 0
<1> DEFINE left == kind \in {0, 32}
<1> DEFINE n == IF left THEN (2 * v + in) % 256 ELSE v \div 2 + 128 * in
<1> DEFINE top == v >= 128
<1> DEFINE Q == PutNZ(Put(cpu.P, "C", IF left THEN top ELSE v % 2 = 1), n, 8)
<1>1. Span(8) = 256 /\ Span(8) \div 2 = 128 /\ Top(v, 8) = top
  BY DEF Span, Top
<1>2. Shifted(kind, v, 8).v = n
  BY <1>1 DEF Shifted
<1>3. Legacy!Shifted(kind, v, cpu.P).v = n
  BY SamePuts DEF Legacy!Shifted
<1>4. Shifted(kind, v, 8).P = Q
  BY <1>1 DEF Shifted
<1>5. Legacy!Shifted(kind, v, cpu.P).P = Q
  BY SamePuts DEF Legacy!Shifted
<1>6. Fits(Shifted(kind, v, 8).v, 8) /\ Flagged(Shifted(kind, v, 8).P)
  BY ByteFits, ShiftedFits
<1> HIDE DEF n, Q
<1> QED BY <1>2, <1>3, <1>4, <1>5, <1>6, FitsByte DEF Flagged
LEMMA ShiftMemMirrors ==
  ASSUME CpuAssumption, CpuInv, CpuInv', cpu.E, ShiftMem
  PROVE  Legacy!ShiftMem
<1>1. PICK kind \in {0, 32, 64, 96} :
        /\ op - kind \in DOMAIN ShiftModes
        /\ LET e == Address(ShiftModes[op - kind], 8)
               s == Shifted(kind, Rd(e.at), 8)
           IN Done([cpu EXCEPT !.P = s.P], After(e.bytes), Written(e, s.v, 8), 0)
  BY DEF ShiftMem, Modify
<1> DEFINE mode == ShiftModes[op - kind]
<1> DEFINE e == Address(mode, 8)
<1> DEFINE f == Legacy!Address(mode)
<1> DEFINE b == Rd(e.at)
<1> DEFINE s == Shifted(kind, b, 8)
<1> DEFINE v == s.v
<1> DEFINE Q == s.P
<1>2. mode \in NearModes /\ Legacy!ShiftModes[op - kind] = mode /\ op - kind \in DOMAIN Legacy!ShiftModes
      /\ b \in Byte /\ Legacy!Rd(f.at) = b
  BY <1>1, ShiftCells
<1>3. LET g == Address(mode, 8) IN Done([cpu EXCEPT !.P = Q], After(g.bytes), Written(g, v, 8), 0)
  BY <1>1
<1> DEFINE r == Legacy!Shifted(kind, b, cpu.P)
<1> HIDE DEF b
<1>4. r.v = v /\ r.P = Q /\ v \in Byte /\ Q \in SUBSET Flags
  BY <1>2, SameShifted
<1> HIDE DEF s, v, Q, mode
<1>5. LET g == Legacy!Address(mode)
      IN Legacy!Done([V(cpu) EXCEPT !.P = Q], Legacy!After(g.bytes), Legacy!Over(Legacy!Cell(g.at, v), mem), 0)
  BY <1>2, <1>3, <1>4, ModifyMirrors, ZenonT(60)
<1>6. Legacy!Done([V(cpu) EXCEPT !.P = r.P], Legacy!After(f.bytes), Legacy!Over(Legacy!Cell(f.at, r.v), mem), 0)
  BY <1>4, <1>5
<1>7. r = Legacy!Shifted(kind, Legacy!Rd(f.at), V(cpu).P)
  BY <1>2, RegsIs
<1> HIDE DEF r
<1> DEFINE Moved(k) ==
      /\ op - k \in DOMAIN Legacy!ShiftModes
      /\ LET g == Legacy!Address(Legacy!ShiftModes[op - k])
             t == Legacy!Shifted(k, Legacy!Rd(g.at), V(cpu).P)
         IN Legacy!Done([V(cpu) EXCEPT !.P = t.P], Legacy!After(g.bytes), Legacy!Over(Legacy!Cell(g.at, t.v), mem), 0)
<1>8. Moved(kind)
  BY <1>2, <1>6, <1>7
<1>9. Legacy!ShiftMem <=> \E k \in {0, 32, 64, 96} : Moved(k)
  BY Zenon DEF Legacy!ShiftMem, Legacy!Modify, V, R, op, Legacy!op
<1> HIDE DEF Moved
<1> QED BY <1>8, <1>9
LEMMA CountMemMirrors ==
  ASSUME CpuAssumption, CpuInv, CpuInv', cpu.E
  PROVE  (IncMem => Legacy!IncMem) /\ (DecMem => Legacy!DecMem)
<1> DEFINE Moved(base, k) ==
      /\ op - base \in DOMAIN Legacy!ShiftModes
      /\ LET g == Legacy!Address(Legacy!ShiftModes[op - base])
             v == (Legacy!Rd(g.at) + k) % 256
         IN Legacy!Done([V(cpu) EXCEPT !.P = Legacy!PutNZ(V(cpu).P, v, 8)], Legacy!After(g.bytes),
                        Legacy!Over(Legacy!Cell(g.at, v), mem), 0)
<1>1. ASSUME NEW base \in {224, 192}, NEW k \in {1, 255}, op - base \in DOMAIN ShiftModes,
             LET e == Address(ShiftModes[op - base], 8)
                 v == (Rd(e.at) + k) % 256
             IN Done([cpu EXCEPT !.P = PutNZ(cpu.P, v, 8)], After(e.bytes), Written(e, v, 8), 0)
      PROVE  Moved(base, k)
  <2> DEFINE mode == ShiftModes[op - base]
  <2> DEFINE e == Address(mode, 8)
  <2> DEFINE f == Legacy!Address(mode)
  <2> DEFINE b == Rd(e.at)
  <2> DEFINE v == (b + k) % 256
  <2> DEFINE Q == PutNZ(cpu.P, v, 8)
  <2>1. mode \in NearModes /\ Legacy!ShiftModes[op - base] = mode /\ op - base \in DOMAIN Legacy!ShiftModes
        /\ b \in Byte /\ Legacy!Rd(f.at) = b
    BY <1>1, ShiftCells
  <2>2. LET g == Address(mode, 8) IN Done([cpu EXCEPT !.P = Q], After(g.bytes), Written(g, v, 8), 0)
    BY <1>1
  <2>3. Q \in SUBSET Flags /\ Q = Legacy!PutNZ(V(cpu).P, v, 8)
    BY NZFlags, SamePuts, RegsIs
  <2> HIDE DEF b
  <2>4. v \in Byte /\ v = (Legacy!Rd(f.at) + k) % 256
    BY <2>1 DEF Byte
  <2> HIDE DEF v, Q, mode
  <2>5. LET g == Legacy!Address(mode)
        IN Legacy!Done([V(cpu) EXCEPT !.P = Q], Legacy!After(g.bytes), Legacy!Over(Legacy!Cell(g.at, v), mem), 0)
    <3>1. mode \in NearModes /\ v \in Byte /\ Q \in SUBSET Flags
      BY <2>1, <2>3, <2>4
    <3>2. Done([cpu EXCEPT !.P = Q], After(Address(mode, 8).bytes), Written(Address(mode, 8), v, 8), 0)
      BY <2>2
    <3> HIDE DEF Moved, e, f
    <3>3. \A m \in NearModes, w \in Byte, P \in SUBSET Flags :
            Done([cpu EXCEPT !.P = P], After(Address(m, 8).bytes), Written(Address(m, 8), w, 8), 0)
            => Legacy!Done([V(cpu) EXCEPT !.P = P], Legacy!After(Legacy!Address(m).bytes),
                           Legacy!Over(Legacy!Cell(Legacy!Address(m).at, w), mem), 0)
      BY ModifyMirrors
    <3>4. Legacy!Done([V(cpu) EXCEPT !.P = Q], Legacy!After(Legacy!Address(mode).bytes),
                      Legacy!Over(Legacy!Cell(Legacy!Address(mode).at, v), mem), 0)
      BY <3>1, <3>2, <3>3, SMT
    <3> QED BY <3>4
  <2> QED BY <2>1, <2>3, <2>4, <2>5
<1>2. Moved(224, 1) => Legacy!IncMem
  BY Zenon DEF Legacy!IncMem, Legacy!Modify, Legacy!Counted, V, R, op, Legacy!op
<1>3. Moved(192, 255) => Legacy!DecMem
  BY Zenon DEF Legacy!DecMem, Legacy!Modify, Legacy!Counted, V, R, op, Legacy!op
<1>4. ASSUME IncMem PROVE Legacy!IncMem
  <2> HIDE DEF Moved
  <2> QED BY <1>1, <1>2, <1>4 DEF IncMem, Modify, Counted
<1>5. ASSUME DecMem PROVE Legacy!DecMem
  <2> HIDE DEF Moved
  <2> QED BY <1>1, <1>3, <1>5 DEF DecMem, Modify, Counted
<1> QED BY <1>4, <1>5
LEMMA ShiftAMirrors ==
  ASSUME CpuAssumption, CpuInv, CpuInv', cpu.E, ShiftA
  PROVE  Legacy!ShiftA
<1>1. PICK kind \in {0, 32, 64, 96} :
        op = kind + 10 /\ LET s == Shifted(kind, A, WidthM) IN Advance([cpu EXCEPT !.C = WithA(s.v), !.P = s.P], 0, 0)
  BY DEF ShiftA
<1> DEFINE a == A
<1> DEFINE s == Shifted(kind, a, 8)
<1> DEFINE v == s.v
<1> DEFINE Q == s.P
<1> DEFINE r == Legacy!Shifted(kind, a, cpu.P)
<1>2. Advance([cpu EXCEPT !.C = WithA(v), !.P = Q], 0, 0) /\ a \in Byte /\ a = Low(cpu.C)
  BY <1>1, Emulates
<1> HIDE DEF a
<1>3. r.v = v /\ r.P = Q /\ v \in Byte /\ Q \in SUBSET Flags
  BY <1>2, SameShifted
<1> HIDE DEF s, v, Q
<1>9. v \in Byte /\ Q \in SUBSET Flags /\ 0 \in Nat
  BY <1>3
<1>10. Advance([cpu EXCEPT !.C = WithA(v), !.P = Q], 0, 0)
  BY <1>2
<1>4. Legacy!Advance([V(cpu) EXCEPT !.A = v, !.P = Q], 0, 0)
  BY <1>9, <1>10, AMirrors, ZenonT(60)
<1>5. r = Legacy!Shifted(kind, V(cpu).A, V(cpu).P)
  BY <1>2, RegsIs
<1>6. LET t == Legacy!Shifted(kind, V(cpu).A, V(cpu).P) IN Legacy!Advance([V(cpu) EXCEPT !.A = t.v, !.P = t.P], 0, 0)
  <2> HIDE DEF r
  <2> QED BY <1>3, <1>4, <1>5
<1> HIDE DEF r
<1> DEFINE Moved(k) ==
      op = k + 10 /\ LET t == Legacy!Shifted(k, V(cpu).A, V(cpu).P) IN Legacy!Advance([V(cpu) EXCEPT !.A = t.v, !.P = t.P], 0, 0)
<1>7. Moved(kind)
  BY <1>1, <1>6
<1>8. Legacy!ShiftA <=> \E k \in {0, 32, 64, 96} : Moved(k)
  BY Zenon DEF Legacy!ShiftA, V, R, op, Legacy!op
<1> HIDE DEF Moved
<1> QED BY <1>7, <1>8
LEMMA ResultMirrors ==
  ASSUME CpuAssumption, CpuInv, CpuInv', cpu.E, NEW v \in Byte
  PROVE  /\ Advance([cpu EXCEPT !.C = WithA(v), !.P = PutNZ(cpu.P, v, 8)], 0, 0) => Legacy!Advance(Legacy!Result("A", v), 0, 0)
         /\ \A reg \in {"X", "Y"} : Advance([cpu EXCEPT ![reg] = v, !.P = PutNZ(cpu.P, v, 8)], 0, 0)
                                    => Legacy!Advance(Legacy!Result(reg, v), 0, 0)
<1> DEFINE Q == PutNZ(cpu.P, v, 8)
<1>1. Q \in SUBSET Flags /\ 0 \in Nat
  BY NZFlags
<1>2. \A reg \in {"A", "X", "Y"} : Legacy!Result(reg, v) = [V(cpu) EXCEPT ![reg] = v, !.P = Q]
  BY SameResult
<1> SUFFICES /\ Advance([cpu EXCEPT !.C = WithA(v), !.P = Q], 0, 0) => Legacy!Advance([V(cpu) EXCEPT !.A = v, !.P = Q], 0, 0)
             /\ \A reg \in {"X", "Y"} : Advance([cpu EXCEPT ![reg] = v, !.P = Q], 0, 0)
                                        => Legacy!Advance([V(cpu) EXCEPT ![reg] = v, !.P = Q], 0, 0)
  BY <1>2
<1> HIDE DEF Q
<1> QED BY <1>1, AMirrors, IndexMirrors
LEMMA CountIndexMirrors ==
  ASSUME CpuAssumption, CpuInv, CpuInv', cpu.E, CountIndex
  PROVE  Legacy!CountIndex
<1> DEFINE Change(i) == LET r == (Index(i[2]) + Span(WidthX) + i[3]) % Span(WidthX)
                        IN Advance([cpu EXCEPT ![i[2]] = r, !.P = PutNZ(@, r, WidthX)], 0, 0)
<1> DEFINE Counts(j) == op = j[1] /\ Legacy!Advance(Legacy!Result(j[2], (V(cpu)[j[2]] + j[3]) % 256), 0, 0)
<1>1. \E i \in {<<\hE8, "X", 1>>, <<\hC8, "Y", 1>>, <<\hCA, "X", -1>>, <<\h88, "Y", -1>>} : op = i[1] /\ Change(i)
  BY ZenonT(60) DEF CountIndex
<1> HIDE DEF Change, Counts
<1>2. ASSUME NEW reg \in {"X", "Y"}, NEW k \in {1, 255}, NEW r, r = (V(cpu)[reg] + k) % 256,
             Advance([cpu EXCEPT ![reg] = r, !.P = PutNZ(cpu.P, r, 8)], 0, 0)
      PROVE  Legacy!Advance(Legacy!Result(reg, r), 0, 0)
  <2>1. V(cpu)[reg] \in Nat
    BY Emulates, RegsIs DEF Byte
  <2>2. r \in Byte
    <3> DEFINE w == V(cpu)[reg]
    <3>1. r = (w + k) % 256 /\ w \in Nat
      BY <1>2, <2>1
    <3> HIDE DEF w
    <3> QED BY <3>1 DEF Byte
  <2>3. \A g \in {"X", "Y"} : Advance([cpu EXCEPT ![g] = r, !.P = PutNZ(cpu.P, r, 8)], 0, 0)
                              => Legacy!Advance(Legacy!Result(g, r), 0, 0)
    BY <2>2, ResultMirrors
  <2> QED BY <1>2, <2>3, ZenonT(60)
<1> DEFINE J == {<<\hE8, "X", 1>>, <<\hC8, "Y", 1>>, <<\hCA, "X", 255>>, <<\h88, "Y", 255>>}
<1>3. (\E j \in J : Counts(j)) => Legacy!CountIndex
  BY ZenonT(60) DEF Legacy!CountIndex, V, R, op, Legacy!op, Counts
<1>4. PICK i \in {<<\hE8, "X", 1>>, <<\hC8, "Y", 1>>, <<\hCA, "X", -1>>, <<\h88, "Y", -1>>} : op = i[1] /\ Change(i)
  BY <1>1
<1>5. CASE i = <<\hE8, "X", 1>>
  <2> DEFINE r == (V(cpu)["X"] + 1) % 256
  <2>3. (Index("X") + Span(WidthX) + (1)) % Span(WidthX) = r /\ WidthX = 8
    <3>1. Span(WidthX) = 256 /\ Index("X") = V(cpu)["X"] /\ V(cpu)["X"] \in Nat /\ WidthX = 8
      BY Emulates, RegsIs DEF Span, Byte
    <3> QED BY <3>1
  <2>4. Advance([cpu EXCEPT !["X"] = r, !.P = PutNZ(cpu.P, r, 8)], 0, 0)
    BY <1>4, <1>5, <2>3 DEF Change
  <2>1. Legacy!Advance(Legacy!Result("X", r), 0, 0)
    <3> HIDE DEF r
    <3>1. r = (V(cpu)["X"] + 1) % 256
      BY DEF r
    <3> QED BY <1>2, <2>4, <3>1, ZenonT(60)
  <2>2. Counts(<<\hE8, "X", 1>>)
    BY <1>4, <1>5, <2>1 DEF Counts
  <2> QED BY <1>3, <2>2
<1>6. CASE i = <<\hC8, "Y", 1>>
  <2> DEFINE r == (V(cpu)["Y"] + 1) % 256
  <2>3. (Index("Y") + Span(WidthX) + (1)) % Span(WidthX) = r /\ WidthX = 8
    <3>1. Span(WidthX) = 256 /\ Index("Y") = V(cpu)["Y"] /\ V(cpu)["Y"] \in Nat /\ WidthX = 8
      BY Emulates, RegsIs DEF Span, Byte
    <3> QED BY <3>1
  <2>4. Advance([cpu EXCEPT !["Y"] = r, !.P = PutNZ(cpu.P, r, 8)], 0, 0)
    BY <1>4, <1>6, <2>3 DEF Change
  <2>1. Legacy!Advance(Legacy!Result("Y", r), 0, 0)
    <3> HIDE DEF r
    <3>1. r = (V(cpu)["Y"] + 1) % 256
      BY DEF r
    <3> QED BY <1>2, <2>4, <3>1, ZenonT(60)
  <2>2. Counts(<<\hC8, "Y", 1>>)
    BY <1>4, <1>6, <2>1 DEF Counts
  <2> QED BY <1>3, <2>2
<1>7. CASE i = <<\hCA, "X", -1>>
  <2> DEFINE r == (V(cpu)["X"] + 255) % 256
  <2>3. (Index("X") + Span(WidthX) + (-1)) % Span(WidthX) = r /\ WidthX = 8
    <3>1. Span(WidthX) = 256 /\ Index("X") = V(cpu)["X"] /\ V(cpu)["X"] \in Nat /\ WidthX = 8
      BY Emulates, RegsIs DEF Span, Byte
    <3> QED BY <3>1
  <2>4. Advance([cpu EXCEPT !["X"] = r, !.P = PutNZ(cpu.P, r, 8)], 0, 0)
    BY <1>4, <1>7, <2>3 DEF Change
  <2>1. Legacy!Advance(Legacy!Result("X", r), 0, 0)
    <3> HIDE DEF r
    <3>1. r = (V(cpu)["X"] + 255) % 256
      BY DEF r
    <3> QED BY <1>2, <2>4, <3>1, ZenonT(60)
  <2>2. Counts(<<\hCA, "X", 255>>)
    BY <1>4, <1>7, <2>1 DEF Counts
  <2> QED BY <1>3, <2>2
<1>8. CASE i = <<\h88, "Y", -1>>
  <2> DEFINE r == (V(cpu)["Y"] + 255) % 256
  <2>3. (Index("Y") + Span(WidthX) + (-1)) % Span(WidthX) = r /\ WidthX = 8
    <3>1. Span(WidthX) = 256 /\ Index("Y") = V(cpu)["Y"] /\ V(cpu)["Y"] \in Nat /\ WidthX = 8
      BY Emulates, RegsIs DEF Span, Byte
    <3> QED BY <3>1
  <2>4. Advance([cpu EXCEPT !["Y"] = r, !.P = PutNZ(cpu.P, r, 8)], 0, 0)
    BY <1>4, <1>8, <2>3 DEF Change
  <2>1. Legacy!Advance(Legacy!Result("Y", r), 0, 0)
    <3> HIDE DEF r
    <3>1. r = (V(cpu)["Y"] + 255) % 256
      BY DEF r
    <3> QED BY <1>2, <2>4, <3>1, ZenonT(60)
  <2>2. Counts(<<\h88, "Y", 255>>)
    BY <1>4, <1>8, <2>1 DEF Counts
  <2> QED BY <1>3, <2>2
<1> QED BY <1>5, <1>6, <1>7, <1>8
LEMMA TransfersIs ==
  \A t \in {<<\hAA, "X", "A">>, <<\h8A, "A", "X">>, <<\hA8, "Y", "A">>, <<\h98, "A", "Y">>, <<\hBA, "X", "SP">>} :
    op = t[1] /\ Legacy!Advance(Legacy!Result(t[2], V(cpu)[t[3]]), 0, 0) => Legacy!Transfer
  BY ZenonT(60) DEF Legacy!Transfer, V, R, op, Legacy!op
LEMMA TransferIndexMirrors ==
  ASSUME CpuAssumption, CpuInv, CpuInv', cpu.E, TransferIndex
  PROVE  NewInstruction \/ Legacy!Transfer
<1> DEFINE Change(t) == LET v == t[3] % Span(WidthX)
                        IN Advance([cpu EXCEPT ![t[2]] = v, !.P = PutNZ(@, v, WidthX)], 0, 0)
<1>1. \E t \in {<<\hAA, "X", cpu.C>>, <<\hA8, "Y", cpu.C>>, <<\h9B, "Y", Index("X")>>, <<\hBB, "X", Index("Y")>>,
            <<\hBA, "X", IF WidthX = 8 THEN Low(cpu.S) ELSE cpu.S>>} : op = t[1] /\ Change(t)
  BY ZenonT(60) DEF TransferIndex
<1>2. ASSUME NEW t, NEW reg \in {"X", "Y"}, t[2] = reg, NEW from \in {"A", "SP"}, t[3] % 256 = V(cpu)[from], Change(t)
      PROVE  Legacy!Advance(Legacy!Result(reg, V(cpu)[from]), 0, 0)
  <2> DEFINE v == t[3] % 256
  <2>1. Span(WidthX) = 256 /\ WidthX = 8
    BY Emulates DEF Span
  <2>2. Advance([cpu EXCEPT ![reg] = v, !.P = PutNZ(cpu.P, v, 8)], 0, 0)
    BY <1>2, <2>1
  <2>4. V(cpu).A \in Byte /\ V(cpu).SP \in Byte
    BY Emulates, RegsIs
  <2>3. v \in Byte /\ v = V(cpu)[from]
    <3> HIDE DEF Change
    <3>1. v = V(cpu)[from]
      BY <1>2
    <3>2. V(cpu)[from] \in Byte
      BY <2>4
    <3> QED BY <3>1, <3>2
  <2> HIDE DEF v
  <2> QED BY <2>2, <2>3, ResultMirrors
<1>3. cpu.C % 256 = V(cpu)["A"] /\ Low(cpu.S) % 256 = V(cpu)["SP"]
  BY RegsIs, Fields DEF Low, Words
<1> HIDE DEF Change
<1>4. PICK t \in {<<\hAA, "X", cpu.C>>, <<\hA8, "Y", cpu.C>>, <<\h9B, "Y", Index("X")>>, <<\hBB, "X", Index("Y")>>,
            <<\hBA, "X", IF WidthX = 8 THEN Low(cpu.S) ELSE cpu.S>>} : op = t[1] /\ Change(t)
  BY <1>1
<1>5. CASE t = <<\hAA, "X", cpu.C>>
  <2>1. Legacy!Advance(Legacy!Result("X", V(cpu)["A"]), 0, 0)
    BY <1>2, <1>3, <1>4, <1>5
  <2> QED BY <1>4, <1>5, <2>1, TransfersIs
<1>6. CASE t = <<\hA8, "Y", cpu.C>>
  <2>1. Legacy!Advance(Legacy!Result("Y", V(cpu)["A"]), 0, 0)
    BY <1>2, <1>3, <1>4, <1>6
  <2> QED BY <1>4, <1>6, <2>1, TransfersIs
<1>7. CASE t = <<\hBA, "X", IF WidthX = 8 THEN Low(cpu.S) ELSE cpu.S>>
  <2>1. t[3] = Low(cpu.S)
    BY <1>7, Emulates
  <2>2. Legacy!Advance(Legacy!Result("X", V(cpu)["SP"]), 0, 0)
    BY <1>2, <1>3, <1>4, <1>7, <2>1
  <2> QED BY <1>4, <1>7, <2>2, TransfersIs
<1>8. CASE t[1] \in {\h9B, \hBB}
  BY <1>4, <1>8, NewOnes DEF NewOpcodes
<1> QED BY <1>5, <1>6, <1>7, <1>8
LEMMA TransferAMirrors ==
  ASSUME CpuAssumption, CpuInv, CpuInv', cpu.E, TransferA
  PROVE  Legacy!Transfer
<1>1. PICK t \in {<<\h8A, "X">>, <<\h98, "Y">>} :
         op = t[1] /\ LET v == cpu[t[2]] % Span(WidthM)
                      IN Advance([cpu EXCEPT !.C = WithA(v), !.P = PutNZ(@, v, WidthM)], 0, 0)
  BY DEF TransferA
<1> DEFINE v == cpu[t[2]] % 256
<1>2. Span(WidthM) = 256 /\ WidthM = 8
  BY Emulates DEF Span
<1>3. Advance([cpu EXCEPT !.C = WithA(v), !.P = PutNZ(cpu.P, v, 8)], 0, 0)
  BY <1>1, <1>2
<1>4. t[2] \in {"X", "Y"} /\ v = V(cpu)[t[2]] /\ v \in Byte
  BY Emulates, RegsIs DEF Low
<1> HIDE DEF v
<1>5. Legacy!Advance(Legacy!Result("A", v), 0, 0)
  BY <1>3, <1>4, ResultMirrors
<1>6. CASE t = <<\h8A, "X">>
  BY <1>1, <1>4, <1>5, <1>6, TransfersIs
<1>7. CASE t = <<\h98, "Y">>
  BY <1>1, <1>4, <1>5, <1>7, TransfersIs
<1> QED BY <1>6, <1>7
LEMMA ViewS ==
  ASSUME CpuInv, NEW s \in Words
  PROVE  LET c == [cpu EXCEPT !.S = s] IN c \in Registers /\ V(c) = [V(cpu) EXCEPT !.SP = Low(s)]
<1> DEFINE c == [cpu EXCEPT !.S = s]
<1>1. c \in Registers /\ c.C = cpu.C /\ c.X = cpu.X /\ c.Y = cpu.Y /\ c.S = s /\ c.PC = cpu.PC /\ c.P = cpu.P
  BY DEF CpuInv, Registers
<1> SUFFICES c \in Registers /\ V(c) = [V(cpu) EXCEPT !.SP = Low(s)]
  OBVIOUS
<1> HIDE DEF c
<1> QED BY <1>1, SetSP DEF V
LEMMA TransferStackMirrors ==
  ASSUME CpuAssumption, CpuInv, CpuInv', cpu.E, TransferStack
  PROVE  NewInstruction \/ Legacy!TransferXS
<1>1. CASE op = \h1B
  BY <1>1, NewOnes DEF NewOpcodes
<1>2. CASE op # \h1B
  <2> DEFINE s == 256 + Low(Index("X"))
  <2>1. op = \h9A /\ Advance([cpu EXCEPT !.S = s], 0, 0)
    BY <1>2 DEF TransferStack
  <2>2. s \in Words /\ Low(s) = V(cpu).X
    BY Emulates, RegsIs DEF Low, Words, Byte
  <2> DEFINE c == [cpu EXCEPT !.S = s]
  <2> HIDE DEF s
  <2>3. c \in Registers /\ V(c) = [V(cpu) EXCEPT !.SP = V(cpu).X]
    BY <2>2, ViewS
  <2>4. Advance(c, 0, 0) /\ 0 \in Nat
    BY <2>1
  <2> HIDE DEF c
  <2>5. Legacy!Advance([V(cpu) EXCEPT !.SP = V(cpu).X], 0, 0)
    BY <2>3, <2>4, MirroredAdvance
  <2> QED BY <2>1, <2>5 DEF Legacy!TransferXS, V, R, op, Legacy!op
<1> QED BY <1>1, <1>2
(* The stack *)
Steps == {0, 1, 2, 3}
LEMMA SameStack == ASSUME CpuInv, cpu.E, NEW k \in Steps
  PROVE  /\ Legacy!Below(k) = Below(k) /\ Legacy!Above(k) = Above(k)
         /\ Below(k) \in Words /\ Low(Below(k)) = (V(cpu).SP + 256 - k) % 256
         /\ Above(k) \in Words /\ Low(Above(k)) = (V(cpu).SP + k) % 256
<1> DEFINE s == V(cpu).SP
<1>1. s \in Nat /\ s < 256 /\ cpu.S = 256 + s
  BY Emulates, RegsIs DEF Byte
<1>2. Legacy!Below(k) = 256 + ((s + 256 - k) % 256) /\ Legacy!Above(k) = 256 + ((s + k) % 256)
  BY RegsIs DEF Legacy!Below, Legacy!Above
<1> HIDE DEF s
<1>3. Below(k) = 256 + ((s + 256 - k) % 256)
  <2>1. CASE k = 0
    BY <1>1, <2>1 DEF Below
  <2>2. CASE k # 0
    BY <1>1, <2>2 DEF Below, Down, Steps
  <2> QED BY <2>1, <2>2
<1>4. Above(k) = 256 + ((s + k) % 256)
  BY <1>1 DEF Above, Steps
<1>5. (s + 256 - k) % 256 \in 0 .. 255 /\ (s + k) % 256 \in 0 .. 255
  BY <1>1 DEF Steps
<1>6. \A n \in 0 .. 255 : 256 + n \in Words /\ (256 + n) % 256 = n
  BY DEF Words
<1> QED BY <1>2, <1>3, <1>4, <1>5, <1>6 DEF Low, s
LEMMA SameOnto == ASSUME CpuInv, cpu.E, NEW bytes, NEW n \in {1, 2, 3}, DOMAIN bytes = 1 .. n
  PROVE  Legacy!Onto(bytes) = Onto(bytes)
<1> DEFINE D == DOMAIN bytes
<1>1. \A k \in D : Legacy!Below(k - 1) = Below(k - 1)
  BY SameStack DEF Steps
<1>2. {Legacy!Below(k - 1) : k \in D} = {Below(k - 1) : k \in D}
  BY <1>1, Zenon
<1> DEFINE at(a) == CHOOSE k \in D : a = Below(k - 1)
<1> DEFINE their(a) == CHOOSE k \in D : a = Legacy!Below(k - 1)
<1> DEFINE S == {Below(k - 1) : k \in D}
<1> DEFINE T == {Legacy!Below(k - 1) : k \in D}
<1>3. \A a : their(a) = at(a)
  <2> TAKE a
  <2>1. \A k : (k \in D /\ a = Legacy!Below(k - 1)) <=> (k \in D /\ a = Below(k - 1))
    BY <1>1, Zenon
  <2> QED BY <2>1, Zenon
<1>4. Onto(bytes) = Over([a \in S |-> bytes[at(a)]], mem)
  BY Zenon DEF Onto
<1>5. Legacy!Onto(bytes) = Legacy!Over([a \in T |-> bytes[their(a)]], mem)
  BY Zenon DEF Legacy!Onto
<1> HIDE DEF at, their, S, T
<1>6. [a \in T |-> bytes[their(a)]] = [a \in S |-> bytes[at(a)]]
  BY <1>2, <1>3 DEF S, T
<1> QED BY <1>4, <1>5, <1>6, SameCells
LEMMA StackViewed ==
  ASSUME CpuInv, NEW Q \in SUBSET Flags, NEW s \in Words, NEW d, d = [cpu EXCEPT !.S = s]
  PROVE  /\ d \in Registers /\ d.P = cpu.P /\ V(d) = [V(cpu) EXCEPT !.SP = Low(s)]
         /\ [d EXCEPT !.P = Q] \in Registers /\ V([d EXCEPT !.P = Q]) = [V(d) EXCEPT !.P = Q]
<1>1. d \in Registers /\ V(d) = [V(cpu) EXCEPT !.SP = Low(s)]
  BY ViewS
<1>2. d.P = cpu.P
  BY DEF CpuInv, Registers
<1> DEFINE c == [d EXCEPT !.P = Q]
<1> SUFFICES c \in Registers /\ V(c) = [V(d) EXCEPT !.P = Q]
  BY <1>1, <1>2
<1>3. c \in Registers /\ c.C = d.C /\ c.X = d.X /\ c.Y = d.Y /\ c.S = d.S /\ c.PC = d.PC /\ c.P = Q
  BY <1>1 DEF Registers
<1> HIDE DEF c
<1>4. V(c) = [V(d) EXCEPT !.P = Q]
  BY <1>3, SetP DEF V
<1> QED BY <1>3, <1>4
LEMMA ViewSP == ASSUME CpuInv, cpu.E, NEW k \in Steps, NEW Q \in SUBSET Flags
  PROVE  /\ LET c == [Dropped(k) EXCEPT !.P = Q] IN c \in Registers /\ V(c) = [Legacy!Dropped(k) EXCEPT !.P = Q]
         /\ LET c == [Raised(k) EXCEPT !.P = Q] IN c \in Registers /\ V(c) = [Legacy!Raised(k) EXCEPT !.P = Q]
         /\ Dropped(k) \in Registers /\ V(Dropped(k)) = Legacy!Dropped(k) /\ Dropped(k).P = cpu.P
         /\ Raised(k) \in Registers /\ V(Raised(k)) = Legacy!Raised(k) /\ Raised(k).P = cpu.P
<1>2. Dropped(k) = [cpu EXCEPT !.S = Below(k)] /\ Raised(k) = [cpu EXCEPT !.S = Above(k)]
  BY DroppedIs, RaisedIs DEF Steps
<1>3. Legacy!Dropped(k) = [V(cpu) EXCEPT !.SP = (V(cpu).SP + 256 - k) % 256]
      /\ Legacy!Raised(k) = [V(cpu) EXCEPT !.SP = (V(cpu).SP + k) % 256]
  BY RegsIs DEF Legacy!Dropped, Legacy!Raised
<1>4. Legacy!Dropped(k) = [V(cpu) EXCEPT !.SP = Low(Below(k))] /\ Legacy!Raised(k) = [V(cpu) EXCEPT !.SP = Low(Above(k))]
  BY <1>3, SameStack
<1>5. Below(k) \in Words /\ Above(k) \in Words
  BY SameStack
<1> DEFINE d == Dropped(k)
<1> DEFINE u == Raised(k)
<1> DEFINE D == Legacy!Dropped(k)
<1> DEFINE U == Legacy!Raised(k)
<1> SUFFICES /\ [d EXCEPT !.P = Q] \in Registers /\ V([d EXCEPT !.P = Q]) = [D EXCEPT !.P = Q]
             /\ [u EXCEPT !.P = Q] \in Registers /\ V([u EXCEPT !.P = Q]) = [U EXCEPT !.P = Q]
             /\ d \in Registers /\ V(d) = D /\ d.P = cpu.P
             /\ u \in Registers /\ V(u) = U /\ u.P = cpu.P
  OBVIOUS
<1> HIDE DEF d, u, D, U
<1>6. /\ d \in Registers /\ d.P = cpu.P /\ V(d) = [V(cpu) EXCEPT !.SP = Low(Below(k))]
      /\ [d EXCEPT !.P = Q] \in Registers /\ V([d EXCEPT !.P = Q]) = [V(d) EXCEPT !.P = Q]
  <2>1. d = [cpu EXCEPT !.S = Below(k)]
    BY <1>2 DEF d
  <2> QED BY ONLY CpuInv, Q \in SUBSET Flags, <1>5, <2>1, StackViewed, Zenon
<1>7. /\ u \in Registers /\ u.P = cpu.P /\ V(u) = [V(cpu) EXCEPT !.SP = Low(Above(k))]
      /\ [u EXCEPT !.P = Q] \in Registers /\ V([u EXCEPT !.P = Q]) = [V(u) EXCEPT !.P = Q]
  <2>1. u = [cpu EXCEPT !.S = Above(k)]
    BY <1>2 DEF u
  <2> QED BY ONLY CpuInv, Q \in SUBSET Flags, <1>5, <2>1, StackViewed, Zenon
<1>8. V(d) = D /\ V(u) = U
  BY <1>4, <1>6, <1>7 DEF D, U
<1> QED BY <1>6, <1>7, <1>8
LEMMA PushedMirrors ==
  ASSUME CpuAssumption, CpuInv, CpuInv', cpu.E, NEW c \in Registers, NEW pc \in Words, NEW n \in {1, 2, 3},
         NEW bytes, DOMAIN bytes = 1 .. n, NEW x, Done(c, pc, Onto(bytes), x), NEW r, r = V(c)
  PROVE  Legacy!Done(r, pc, Legacy!Onto(bytes), x)
<1>1. Legacy!Onto(bytes) = Onto(bytes)
  BY SameOnto
<1>2. Legacy!Done(r, pc, Onto(bytes), x)
  BY Mirrored
<1> QED BY <1>1, <1>2
LEMMA SameAfter == \A n : Legacy!After(n) = After(n)
  BY DEF After, Legacy!After
LEMMA PushIs ==
  ASSUME NEW bytes, NEW v, bytes = <<v>>,
         (op = \h48 /\ v = V(cpu).A) \/ (op = \h08 /\ v = Legacy!ByteOf(V(cpu).P \union {"X", "M"})),
         Legacy!Done(Legacy!Dropped(1), Legacy!After(0), Legacy!Onto(bytes), 0)
  PROVE  Legacy!Push
<1>1. Legacy!Push <=>
        /\ op \in {\h48, \h08}
        /\ Legacy!Done(Legacy!Dropped(1), Legacy!After(0),
                       Legacy!Onto(<<IF op = \h48 THEN V(cpu).A ELSE Legacy!ByteOf(V(cpu).P \union {"X", "M"})>>), 0)
  BY Zenon DEF Legacy!Push, V, R, op, Legacy!op
<1>2. v = IF op = \h48 THEN V(cpu).A ELSE Legacy!ByteOf(V(cpu).P \union {"X", "M"})
  OBVIOUS
<1> QED BY <1>1, <1>2
LEMMA PushMirrors ==
  ASSUME CpuAssumption, CpuInv, CpuInv', cpu.E, PushA \/ PushP
  PROVE  Legacy!Push
<1>1. ASSUME NEW v, NEW bytes, bytes = <<v>>, Done(Dropped(1), After(0), Onto(bytes), 0)
      PROVE  Legacy!Done(Legacy!Dropped(1), Legacy!After(0), Legacy!Onto(bytes), 0)
  <2>1. Dropped(1) \in Registers /\ V(Dropped(1)) = Legacy!Dropped(1) /\ After(0) \in Words
    BY ViewSP, AfterWord DEF Steps
  <2>2. DOMAIN bytes = 1 .. 1
    BY <1>1
  <2> QED BY <1>1, <2>1, <2>2, PushedMirrors, SameAfter
<1>2. CASE PushA
  <2> DEFINE bytes == <<Low(cpu.C)>>
  <2>1. AtWidth(A, WidthM) = bytes /\ Wide(WidthM) = 0
    BY Emulates, ByteLow DEF AtWidth, Wide
  <2>2. op = \h48 /\ Done(Dropped(1), After(0), Onto(bytes), 0)
    BY <1>2, <2>1, Emulates DEF PushA
  <2>3. bytes = <<V(cpu).A>>
    BY RegsIs
  <2> HIDE DEF bytes
  <2> QED BY <1>1, <2>2, <2>3, PushIs
<1>3. CASE PushP
  <2> DEFINE v == ByteOf(cpu.P \union {"X", "M"})
  <2> DEFINE bytes == <<v>>
  <2>1. PushedP = v
    BY DEF PushedP
  <2>2. Len(<<PushedP>>) = 1
    OBVIOUS
  <2>3. op = \h08 /\ Done(Dropped(1), After(0), Onto(bytes), 0)
    BY <1>3, <2>1, <2>2 DEF PushP, Pushing
  <2>4. v = Legacy!ByteOf(V(cpu).P \union {"X", "M"})
    BY SameBits, RegsIs
  <2> HIDE DEF bytes, v
  <2>5. bytes = <<v>>
    BY DEF bytes
  <2> QED BY <1>1, <2>3, <2>4, <2>5, PushIs
<1> QED BY <1>2, <1>3
LEMMA PullAMirrors ==
  ASSUME CpuAssumption, CpuInv, CpuInv', cpu.E, PullA
  PROVE  Legacy!PullA
<1> DEFINE v == Pulled(1)
<1> DEFINE w == WithA(v)
<1> DEFINE Q == PutNZ(cpu.P, v, 8)
<1> DEFINE d == Raised(1)
<1> DEFINE c == [d EXCEPT !.C = w, !.P = Q]
<1>1. d \in Registers /\ V(d) = Legacy!Raised(1) /\ d.P = cpu.P /\ Legacy!Above(1) = Above(1)
  BY ViewSP, SameStack, ZenonT(60) DEF Steps
<1>2. op = \h68 /\ Advance(c, 0, 0)
  <2>1. Pull(WidthM) = v /\ WidthM \div 8 = 1 /\ Wide(WidthM) = 0
    BY Emulates DEF Pull, Wide
  <2>2. op = \h68 /\ Advance([Raised(1) EXCEPT !.C = WithA(v), !.P = PutNZ(@, v, 8)], 0, 0)
    BY <2>1, Emulates DEF PullA
  <2>3. [d EXCEPT !.C = WithA(v), !.P = PutNZ(@, v, 8)] = c
    <3> HIDE DEF v, w
    <3>1. d.P = cpu.P
      BY <1>1
    <3> HIDE DEF d
    <3>2. w = WithA(v)
      BY DEF w
    <3>3. [d EXCEPT !.C = w].P = cpu.P
      BY <1>1, <3>1 DEF Registers
    <3> QED BY <3>2, <3>3
  <2> QED BY <2>2, <2>3
<1>3. v \in Byte /\ v = Legacy!Rd(Legacy!Above(1))
  BY <1>1, PulledByte, SameCells DEF Pulled
<1>4. w \in Words /\ Low(w) = v
  <2> HIDE DEF v
  <2>1. w = 256 * High(cpu.C) + v
    BY <1>3, Emulates, ByteLow DEF WithA
  <2> HIDE DEF w
  <2> QED BY <1>3, <2>1, LowC DEF Byte, Low, Words
<1>5. Q \in SUBSET Flags
  BY NZFlags
<1> HIDE DEF v, w, Q, d
<1>6. c \in Registers /\ c.C = w /\ c.X = d.X /\ c.Y = d.Y /\ c.S = d.S /\ c.PC = d.PC /\ c.P = Q
  BY <1>1, <1>4, <1>5 DEF Registers
<1> HIDE DEF c
<1>7. V(c) = [V(d) EXCEPT !.A = v, !.P = Q]
  <2>1. [V(d) EXCEPT !.A = v] = R(v, Low(d.X), Low(d.Y), Low(d.S), d.PC, d.P)
    BY SetA DEF V
  <2>2. [R(v, Low(d.X), Low(d.Y), Low(d.S), d.PC, d.P) EXCEPT !.P = Q] = R(v, Low(d.X), Low(d.Y), Low(d.S), d.PC, Q)
    BY SetP
  <2>3. V(c) = R(v, Low(d.X), Low(d.Y), Low(d.S), d.PC, Q)
    BY <1>4, <1>6 DEF V
  <2> QED BY <2>1, <2>2, <2>3
<1>8. Legacy!Raised(1).P = cpu.P
  BY RegsIs DEF Legacy!Raised, V, R
<1> DEFINE r == [Legacy!Raised(1) EXCEPT !.A = v, !.P = PutNZ(@, v, 8)]
<1>9. r = V(c)
  <2> DEFINE U == Legacy!Raised(1)
  <2>1. [U EXCEPT !.A = v].P = cpu.P
    <3>1. U = V(d)
      BY <1>1
    <3>2. V(d).P = cpu.P /\ "P" \in DOMAIN V(d)
      BY <1>1, RegsIs DEF V, R
    <3> HIDE DEF U
    <3> QED BY <3>1, <3>2
  <2>2. U = V(d)
    BY <1>1
  <2> HIDE DEF U
  <2>3. [U EXCEPT !.A = v, !.P = PutNZ(@, v, 8)] = [U EXCEPT !.A = v, !.P = Q]
    BY <2>1 DEF Q
  <2> QED BY <1>7, <2>2, <2>3 DEF U
<1> HIDE DEF r
<1>10. Legacy!Advance(r, 0, 0)
  BY <1>2, <1>6, <1>9, MirroredAdvance
<1> QED BY <1>2, <1>3, <1>10, SamePuts DEF Legacy!PullA, r, op, Legacy!op
LEMMA SameRestored ==
  ASSUME CpuInv, cpu.E, NEW k \in Steps, NEW byte
  PROVE  LET c == RestoredP(Raised(k), byte)
         IN c \in Registers /\ V(c) = [Legacy!Raised(k) EXCEPT !.P = Legacy!PulledP(byte)]
<1> DEFINE Q == (FlagsOf(byte) \ {"X"}) \union {"M"}
<1> DEFINE d == Raised(k)
<1> DEFINE c == RestoredP(d, byte)
<1>1. c = [d EXCEPT !.P = Q]
  BY DEF RestoredP
<1>2. Legacy!PulledP(byte) = Q
  BY SameBits DEF Legacy!PulledP
<1>3. Q \in SUBSET Flags
  BY FlagsOfFlags, FlagNames
<1> HIDE DEF Q
<1>4. [d EXCEPT !.P = Q] \in Registers /\ V([d EXCEPT !.P = Q]) = [Legacy!Raised(k) EXCEPT !.P = Q]
  BY <1>3, ViewSP
<1> HIDE DEF d
<1> QED BY <1>1, <1>2, <1>4 DEF d
LEMMA PullPMirrors ==
  ASSUME CpuAssumption, CpuInv, CpuInv', cpu.E, PullP
  PROVE  Legacy!PullP
<1> DEFINE c == RestoredP(Raised(1), Pulled(1))
<1> DEFINE r == [Legacy!Raised(1) EXCEPT !.P = Legacy!PulledP(Legacy!Rd(Legacy!Above(1)))]
<1>1. op = \h28 /\ Advance(c, 0, 0) /\ 0 \in Nat
  BY DEF PullP
<1>2. Pulled(1) = Legacy!Rd(Legacy!Above(1))
  BY SameStack, SameCells DEF Pulled, Steps
<1>3. c \in Registers /\ r = V(c)
  BY <1>2, SameRestored DEF Steps
<1> HIDE DEF c, r
<1>4. Legacy!Advance(r, 0, 0)
  BY <1>1, <1>3, MirroredAdvance
<1> QED BY <1>1, <1>4, Zenon DEF Legacy!PullP, r, op, Legacy!op
LEMMA SamePulledWord ==
  ASSUME CpuAssumption, CpuInv, cpu.E, NEW j \in {1, 2}
  PROVE  Legacy!Word16(Legacy!Above(j), Legacy!Above(j + 1)) = PulledWord(j) /\ PulledWord(j) \in Words
<1>1. Legacy!Above(j) = Above(j) /\ Legacy!Above(j + 1) = Above(j + 1)
  BY SameStack DEF Steps
<1>2. PulledWord(j) \in Words
  BY PulledWords
<1> QED BY <1>1, <1>2, SameOp DEF PulledWord, Pulled, Word16
LEMMA ReturnMirrors ==
  ASSUME CpuAssumption, CpuInv, CpuInv', cpu.E, Return
  PROVE  Legacy!Return
<1> DEFINE pc == (PulledWord(1) + 1) % 65536
<1>1. op = \h60 /\ Done(Raised(2), pc, mem, 0)
  BY DEF Return
<1>2. pc \in Words
  BY PulledNext
<1>3. pc = (Legacy!Word16(Legacy!Above(1), Legacy!Above(2)) + 1) % 65536
  BY SamePulledWord
<1>4. Raised(2) \in Registers /\ Legacy!Raised(2) = V(Raised(2))
  BY ViewSP DEF Steps
<1> HIDE DEF pc
<1>5. Legacy!Done(Legacy!Raised(2), pc, mem, 0)
  BY <1>1, <1>2, <1>4, Mirrored
<1> QED BY <1>1, <1>3, <1>5, SameOp DEF Legacy!Return
LEMMA ReturnInterruptMirrors ==
  ASSUME CpuAssumption, CpuInv, CpuInv', cpu.E, ReturnInterrupt
  PROVE  Legacy!ReturnInterrupt
<1> DEFINE c == RestoredP(Raised(3), Pulled(1))
<1> DEFINE r == [Legacy!Raised(3) EXCEPT !.P = Legacy!PulledP(Legacy!Rd(Legacy!Above(1)))]
<1>1. op = \h40 /\ Done(c, PulledWord(2), mem, 0)
  BY DEF ReturnInterrupt
<1>2. Pulled(1) = Legacy!Rd(Legacy!Above(1))
  BY SameStack, SameCells DEF Pulled, Steps
<1>3. c \in Registers /\ r = V(c)
  BY <1>2, SameRestored DEF Steps
<1>4. PulledWord(2) \in Words /\ PulledWord(2) = Legacy!Word16(Legacy!Above(2), Legacy!Above(3))
  BY SamePulledWord
<1> HIDE DEF c, r
<1>5. Legacy!Done(r, PulledWord(2), mem, 0)
  BY <1>1, <1>3, <1>4, Mirrored
<1> QED BY <1>1, <1>4, <1>5, Zenon DEF Legacy!ReturnInterrupt, r, op, Legacy!op
LEMMA CallMirrors ==
  ASSUME CpuAssumption, CpuInv, CpuInv', cpu.E, Call
  PROVE  Legacy!Call
<1> DEFINE bytes == PushWord(After(1))
<1>1. op = \h20 /\ Done(Dropped(2), Operand, Onto(bytes), 0)
  BY DEF Call
<1>2. DOMAIN bytes = 1 .. 2
  BY DEF PushWord
<1>3. bytes = <<Legacy!High(V(cpu).PC + 2), Legacy!Low(V(cpu).PC + 2)>>
  <2>1. cpu.PC \in Nat /\ V(cpu).PC = cpu.PC
    BY Fields, RegsIs DEF Words
  <2> DEFINE w == cpu.PC
  <2> HIDE DEF w
  <2>2. w \in Nat
    BY <2>1 DEF w
  <2>3. After(1) = (w + 2) % 65536
    BY <2>2 DEF After, w
  <2>4. ((w + 2) % 65536) % 256 = (w + 2) % 256 /\ ((((w + 2) % 65536) \div 256) % 256) = ((w + 2) \div 256) % 256
    BY <2>2
  <2> QED BY <2>1, <2>3, <2>4, SameWords DEF PushWord, Low, High, w
<1>4. Dropped(2) \in Registers /\ Legacy!Dropped(2) = V(Dropped(2))
  BY ViewSP DEF Steps
<1> HIDE DEF bytes
<1>5. Operand \in Words /\ Operand = Legacy!Operand
  BY OperandWord, SameOp
<1>6. Legacy!Done(Legacy!Dropped(2), Operand, Legacy!Onto(bytes), 0)
  BY <1>1, <1>2, <1>4, <1>5, PushedMirrors
<1>7. Legacy!Call <=> op = \h20 /\ Legacy!Done(Legacy!Dropped(2), Legacy!Operand,
                                      Legacy!Onto(<<Legacy!High(V(cpu).PC + 2), Legacy!Low(V(cpu).PC + 2)>>), 0)
  BY Zenon DEF Legacy!Call, V, R, op, Legacy!op
<1> QED BY <1>1, <1>3, <1>5, <1>6, <1>7
LEMMA ServiceMirrors ==
  ASSUME CpuAssumption, CpuInv, CpuInv', cpu.E, NEW pc \in Words, NEW byte \in Byte, NEW vector \in Words, NEW cleared,
         cleared = {}, NEW halt \in {"stp", "wai", "no"}, Service(pc, byte, vector, cleared, halt)
  PROVE  Legacy!Service(pc, byte, vector)
<1> DEFINE bytes == (IF cpu.E THEN <<>> ELSE <<cpu.PBR>>) \o PushWord(pc) \o <<byte>>
<1> DEFINE d == Dropped(3)
<1> DEFINE Q == cpu.P \union {"I"}
<1> DEFINE c == [d EXCEPT !.PBR = IF cpu.E THEN @ ELSE 0, !.halt = halt, !.P = (@ \union {"I"}) \ cleared]
<1> DEFINE next == Word16(vector, vector + 1)
<1>1. bytes = <<High(pc), Low(pc), byte>> /\ Len(bytes) = 3
  BY ServiceBytes
<1>2. Done(c, next, Onto(bytes), 0)
  BY <1>1 DEF Service
<1>3. next \in Words /\ next = Legacy!Word16(vector, vector + 1)
  <2>1. vector \in Space /\ vector + 1 \in Space
    BY DEF Words, Space
  <2> QED BY <2>1, Word16Word, SameOp
<1>4. d \in Registers /\ V(d) = Legacy!Dropped(3) /\ d.P = cpu.P
  BY ViewSP DEF Steps
<1>5. DOMAIN bytes = 1 .. 3
  BY <1>1
<1>6. Q \in SUBSET Flags
  BY Fields, FlagNames
<1> HIDE DEF bytes, d, next
<1>7. c \in Registers /\ c.C = d.C /\ c.X = d.X /\ c.Y = d.Y /\ c.S = d.S /\ c.PC = d.PC /\ c.P = Q
  <2> DEFINE b == IF cpu.E THEN d.PBR ELSE 0
  <2> DEFINE c1 == [d EXCEPT !.PBR = b]
  <2> DEFINE c2 == [c1 EXCEPT !.halt = halt]
  <2>1. c1 \in Registers /\ c1.C = d.C /\ c1.X = d.X /\ c1.Y = d.Y /\ c1.S = d.S /\ c1.PC = d.PC /\ c1.P = cpu.P
    BY <1>4 DEF Registers
  <2>2. c = [c2 EXCEPT !.P = (cpu.P \union {"I"}) \ cleared]
    BY <1>4 DEF Registers
  <2> HIDE DEF c1, c
  <2>3. c2 \in Registers /\ c2.C = d.C /\ c2.X = d.X /\ c2.Y = d.Y /\ c2.S = d.S /\ c2.PC = d.PC /\ c2.P = cpu.P
    BY <2>1 DEF Registers
  <2> HIDE DEF c2
  <2>4. (cpu.P \union {"I"}) \ cleared = Q
    OBVIOUS
  <2> HIDE DEF Q
  <2> QED BY <1>6, <2>2, <2>3, <2>4 DEF Registers
<1> HIDE DEF c, Q
<1>8. V(c) = [V(d) EXCEPT !.P = Q]
  BY <1>7, SetP DEF V
<1>9. Legacy!Dropped(3).P = cpu.P
  BY <1>4 DEF V, R
<1> DEFINE r == [Legacy!Dropped(3) EXCEPT !.P = @ \union {"I"}]
<1>10. r = V(c)
  BY <1>4, <1>8, <1>9 DEF Q
<1>11. bytes = <<Legacy!High(pc), Legacy!Low(pc), byte>>
  BY <1>1, SameWords
<1> HIDE DEF r
<1>12. Legacy!Done(r, next, Legacy!Onto(bytes), 0)
  BY <1>2, <1>3, <1>5, <1>7, <1>10, PushedMirrors
<1> QED BY <1>3, <1>11, <1>12 DEF Legacy!Service, r
LEMMA SameBytesOfP == ASSUME CpuInv, cpu.E
  PROVE  /\ PushedP = Legacy!ByteOf(V(cpu).P \union {"X", "M"}) /\ PushedP \in Byte
         /\ MaskedP = Legacy!Masked /\ MaskedP \in Byte
<1>1. PushedP = ByteOf(cpu.P \union {"X", "M"}) /\ MaskedP = ByteOf((cpu.P \ {"X"}) \union {"M"})
  BY DEF PushedP, MaskedP
<1>2. Legacy!Masked = Legacy!ByteOf((V(cpu).P \ {"X"}) \union {"M"})
  BY Zenon DEF Legacy!Masked, V, R
<1> QED BY <1>1, <1>2, SameBits, RegsIs, PushedPByte
LEMMA BreakMirrors ==
  ASSUME CpuAssumption, CpuInv, CpuInv', cpu.E, Break
  PROVE  Legacy!Break
<1>1. op = 0 /\ Service(After(1), PushedP, \hFFFE, {}, cpu.halt)
  BY RegsIs DEF Break, InMode, Cleared
<1>2. After(1) \in Words /\ \hFFFE \in Words /\ cpu.halt \in {"stp", "wai", "no"}
  BY AfterWord DEF Words, CpuInv, Registers
<1>3. Legacy!Service(After(1), PushedP, \hFFFE)
  BY <1>1, <1>2, SameBytesOfP, ServiceMirrors
<1>4. Legacy!Break <=> op = 0 /\ Legacy!Service(Legacy!After(1), Legacy!ByteOf(V(cpu).P \union {"X", "M"}), \hFFFE)
  BY RegsIs DEF Legacy!Break, V, R, op, Legacy!op
<1> QED BY <1>1, <1>3, <1>4, SameBytesOfP, SameAfter
LEMMA InterruptMirrors ==
  ASSUME CpuAssumption, CpuInv, CpuInv', cpu.E, Nmi \/ Irq
  PROVE  Legacy!Nmi \/ Legacy!Irq
<1> DEFINE pc == cpu.PC
<1>1. pc \in Words /\ \hFFFE \in Words /\ \hFFFA \in Words
  BY Fields DEF Words
<1>2. ASSUME NEW vector \in Words, Service(pc, MaskedP, vector, {}, "no")
      PROVE  Legacy!Service(V(cpu).PC, Legacy!Masked, vector)
  BY <1>1, <1>2, RegsIs, SameBytesOfP, ServiceMirrors
<1>3. CASE Nmi
  <2>1. line = "nmi" /\ Service(pc, MaskedP, \hFFFA, {}, "no")
    BY <1>3 DEF Nmi, InMode, Cleared
  <2>2. Legacy!Nmi <=> line = "nmi" /\ Legacy!Service(V(cpu).PC, Legacy!Masked, \hFFFA)
    BY RegsIs DEF Legacy!Nmi, V, R
  <2> QED BY <1>1, <1>2, <2>1, <2>2
<1>4. CASE Irq
  <2>1. line = "irq" /\ "I" \notin cpu.P /\ Service(pc, MaskedP, \hFFFE, {}, "no")
    BY <1>4 DEF Irq, InMode, Cleared
  <2>2. Legacy!Irq <=> line = "irq" /\ "I" \notin V(cpu).P /\ Legacy!Service(V(cpu).PC, Legacy!Masked, \hFFFE)
    BY RegsIs DEF Legacy!Irq, V, R
  <2> QED BY <1>1, <1>2, <2>1, <2>2, RegsIs
<1> QED BY <1>3, <1>4
LEMMA SelfView == ASSUME CpuInv PROVE cpu \in Registers
  BY DEF CpuInv
LEMMA BranchMirrors ==
  ASSUME CpuAssumption, CpuInv, CpuInv', cpu.E, Branch
  PROVE  Legacy!Branch
<1> DEFINE codes == {<<\h10, "N", FALSE>>, <<\h30, "N", TRUE>>, <<\h50, "V", FALSE>>, <<\h70, "V", TRUE>>,
                     <<\h90, "C", FALSE>>, <<\hB0, "C", TRUE>>, <<\hD0, "Z", FALSE>>, <<\hF0, "Z", TRUE>>}
<1> DEFINE target == Displaced(After(1), ir[2])
<1> DEFINE Ours == Taken(target)
<1> DEFINE Theirs == Legacy!Taken(Legacy!Displaced(Legacy!After(1), ir[2]))
<1> DEFINE Past == Advance(cpu, 1, 0)
<1> DEFINE TheirPast == Legacy!Advance(V(cpu), 1, 0)
<1>1. \E b \in codes : op = b[1] /\ IF (b[2] \in cpu.P) = b[3] THEN Ours ELSE Past
  BY ZenonT(60) DEF Branch
<1>2. Legacy!Branch <=> \E b \in codes : op = b[1] /\ IF (b[2] \in V(cpu).P) = b[3] THEN Theirs ELSE TheirPast
  BY ZenonT(60) DEF Legacy!Branch, V, R, op, Legacy!op
<1>3. Ours => Theirs
  <2>1. target \in Words
    BY AfterWord, IrBytes, DisplacedWord
  <2>2. Legacy!Displaced(Legacy!After(1), ir[2]) = target /\ Legacy!SamePage(Legacy!After(1), target) = SamePage(After(1), target)
    BY SameWords, SameAfter
  <2> HIDE DEF target
  <2> DEFINE x == IF SamePage(After(1), target) THEN 1 ELSE 2
  <2>3. Ours <=> Done(cpu, target, mem, x)
    BY Zenon DEF Taken
  <2>4. Legacy!Taken(target) <=> Legacy!Done(V(cpu), target, mem, IF Legacy!SamePage(Legacy!After(1), target) THEN 1 ELSE 2)
    BY Zenon DEF Legacy!Taken, V, R
  <2>5. (IF Legacy!SamePage(Legacy!After(1), target) THEN 1 ELSE 2) = x
    BY SameWords, SameAfter, Zenon
  <2> HIDE DEF x, Ours
  <2>6. Legacy!Taken(target) <=> Legacy!Done(V(cpu), target, mem, x)
    BY <2>4, <2>5, Zenon
  <2> QED BY <2>1, <2>2, <2>3, <2>6, Mirrored, SelfView
<1>4. Past => TheirPast
  BY MirroredAdvance, SelfView
<1>5. V(cpu).P = cpu.P
  BY RegsIs
<1> HIDE DEF Ours, Theirs, Past, TheirPast, codes
<1> QED BY <1>1, <1>2, <1>3, <1>4, <1>5, Zenon
LEMMA JumpMirrors ==
  ASSUME CpuAssumption, CpuInv, CpuInv', cpu.E, Jump
  PROVE  Legacy!Jump
<1> DEFINE across == 256 * (Operand \div 256) + ((Operand + 1) % 256)
<1> DEFINE indirect == Word16(Operand, across)
<1>1. Legacy!Jump <=> \/ op = \h4C /\ Legacy!Done(V(cpu), Legacy!Operand, mem, 0)
                      \/ op = \h6C /\ Legacy!Done(V(cpu), Legacy!Word16(Legacy!Operand,
                            256 * (Legacy!Operand \div 256) + ((Legacy!Operand + 1) % 256)), mem, 0)
  BY Zenon DEF Legacy!Jump, V, R, op, Legacy!op
<1>2. \/ op = \h4C /\ Done(cpu, Operand, mem, 0)
      \/ op = \h6C /\ Done(cpu, indirect, mem, 0)
  BY Zenon DEF Jump
<1>3. Operand \in Words /\ Operand \in Space /\ across \in Space
  BY OperandCells, OperandWord
<1>4. indirect \in Words
  <2> HIDE DEF across
  <2> QED BY <1>3, Word16Word
<1>5. indirect = Legacy!Word16(Legacy!Operand, 256 * (Legacy!Operand \div 256) + ((Legacy!Operand + 1) % 256))
  BY SameOp, Zenon
<1>6. Legacy!Operand = Operand
  BY SameOp
<1> HIDE DEF indirect
<1>7. Done(cpu, Operand, mem, 0) => Legacy!Done(V(cpu), Operand, mem, 0)
  BY <1>3, Mirrored, SelfView
<1>8. Done(cpu, indirect, mem, 0) => Legacy!Done(V(cpu), indirect, mem, 0)
  BY <1>4, Mirrored, SelfView
<1> QED BY <1>1, <1>2, <1>5, <1>6, <1>7, <1>8, Zenon
(* Flags and the rest *)
LEMMA PutMirrors ==
  ASSUME CpuAssumption, CpuInv, CpuInv', cpu.E, NEW Q \in SUBSET Flags, Advance([cpu EXCEPT !.P = Q], 0, 0)
  PROVE  Legacy!Advance([V(cpu) EXCEPT !.P = Q], 0, 0)
<1> DEFINE c == [cpu EXCEPT !.P = Q]
<1>1. c \in Registers /\ [V(cpu) EXCEPT !.P = Q] = V(c)
  BY ViewP
<1> HIDE DEF c
<1> QED BY <1>1, MirroredAdvance DEF c
LEMMA SetFlagMirrors ==
  ASSUME CpuAssumption, CpuInv, CpuInv', cpu.E, SetFlag
  PROVE  Legacy!SetFlag
<1> DEFINE theirs == {<<\h18, "C", FALSE>>, <<\h38, "C", TRUE>>, <<\h58, "I", FALSE>>, <<\h78, "I", TRUE>>,
                      <<\hD8, "D", FALSE>>, <<\hF8, "D", TRUE>>, <<\hB8, "V", FALSE>>}
<1> DEFINE Setting(f, Q) == op = f /\ Advance([cpu EXCEPT !.P = Q], 0, 0)
<1>1. \/ \E f \in {<<\h18, "C">>, <<\h58, "I">>, <<\hD8, "D">>, <<\hB8, "V">>} : Setting(f[1], cpu.P \ {f[2]})
      \/ \E f \in {<<\h38, "C">>, <<\h78, "I">>, <<\hF8, "D">>} : Setting(f[1], cpu.P \union {f[2]})
  BY ZenonT(60) DEF SetFlag
<1> DEFINE Flagging(f) == op = f[1] /\ Legacy!Advance([V(cpu) EXCEPT !.P = Legacy!Put(@, f[2], f[3])], 0, 0)
<1>2. \A f \in theirs : Flagging(f) => Legacy!SetFlag
  BY ZenonT(60) DEF Legacy!SetFlag, V, R, op, Legacy!op
<1>3. ASSUME NEW n, NEW g \in Flags, NEW f, f = <<n, g, FALSE>>, Setting(n, cpu.P \ {g})
      PROVE  Flagging(f)
  <2> DEFINE Q == cpu.P \ {g}
  <2>1. Legacy!Put(cpu.P, f[2], f[3]) = Q
    <3>1. f[2] = g /\ ~f[3]
      BY <1>3
    <3> QED BY <3>1, Zenon DEF Legacy!Put
  <2>2. Q \in SUBSET Flags
    BY Fields
  <2>3. f[1] = n
    BY <1>3
  <2>4. op = n /\ Advance([cpu EXCEPT !.P = Q], 0, 0)
    BY <1>3
  <2>5. [V(cpu) EXCEPT !.P = Legacy!Put(@, f[2], f[3])] = [V(cpu) EXCEPT !.P = Legacy!Put(cpu.P, f[2], f[3])]
    BY RegsIs
  <2> HIDE DEF Q
  <2>6. Legacy!Advance([V(cpu) EXCEPT !.P = Q], 0, 0)
    BY <2>2, <2>4, PutMirrors
  <2> QED BY <2>1, <2>3, <2>4, <2>5, <2>6
<1>4. ASSUME NEW n, NEW g \in Flags, NEW f, f = <<n, g, TRUE>>, Setting(n, cpu.P \union {g})
      PROVE  Flagging(f)
  <2> DEFINE Q == cpu.P \union {g}
  <2>1. Legacy!Put(cpu.P, f[2], f[3]) = Q
    <3>1. f[2] = g /\ f[3]
      BY <1>4
    <3> QED BY <3>1, Zenon DEF Legacy!Put
  <2>2. Q \in SUBSET Flags
    BY Fields
  <2>3. f[1] = n
    BY <1>4
  <2>4. op = n /\ Advance([cpu EXCEPT !.P = Q], 0, 0)
    BY <1>4
  <2>5. [V(cpu) EXCEPT !.P = Legacy!Put(@, f[2], f[3])] = [V(cpu) EXCEPT !.P = Legacy!Put(cpu.P, f[2], f[3])]
    BY RegsIs
  <2> HIDE DEF Q
  <2>6. Legacy!Advance([V(cpu) EXCEPT !.P = Q], 0, 0)
    BY <2>2, <2>4, PutMirrors
  <2> QED BY <2>1, <2>3, <2>4, <2>5, <2>6
<1> HIDE DEF Setting, Flagging
<1>5. "C" \in Flags /\ "I" \in Flags /\ "D" \in Flags /\ "V" \in Flags
  BY FlagNames
<1>6. CASE Setting(\h18, cpu.P \ {"C"})
  BY <1>2, <1>3, <1>5, <1>6, ZenonT(60)
<1>7. CASE Setting(\h58, cpu.P \ {"I"})
  BY <1>2, <1>3, <1>5, <1>7, ZenonT(60)
<1>8. CASE Setting(\hD8, cpu.P \ {"D"})
  BY <1>2, <1>3, <1>5, <1>8, ZenonT(60)
<1>9. CASE Setting(\hB8, cpu.P \ {"V"})
  BY <1>2, <1>3, <1>5, <1>9, ZenonT(60)
<1>10. CASE Setting(\h38, cpu.P \union {"C"})
  BY <1>2, <1>4, <1>5, <1>10, ZenonT(60)
<1>11. CASE Setting(\h78, cpu.P \union {"I"})
  BY <1>2, <1>4, <1>5, <1>11, ZenonT(60)
<1>12. CASE Setting(\hF8, cpu.P \union {"D"})
  BY <1>2, <1>4, <1>5, <1>12, ZenonT(60)
<1> QED BY <1>1, <1>6, <1>7, <1>8, <1>9, <1>10, <1>11, <1>12
LEMMA NopMirrors ==
  ASSUME CpuAssumption, CpuInv, CpuInv', cpu.E, Nop
  PROVE  Legacy!Nop
<1>1. op = \hEA /\ Advance(cpu, 0, 0) /\ 0 \in Nat
  BY DEF Nop
<1>2. Legacy!Advance(V(cpu), 0, 0)
  BY <1>1, MirroredAdvance, SelfView
<1> QED BY <1>1, <1>2 DEF Legacy!Nop, V, R, op, Legacy!op
LEMMA IllegalMirrors ==
  ASSUME CpuAssumption, CpuInv, CpuInv', cpu.E, Illegal
  PROVE  NewInstruction \/ Legacy!Illegal
<1>1. CASE op \in {\h04, \h0C}
  <2> DEFINE n == OpcodeSize(op) - 1
  <2>1. n \in Nat /\ Advance(cpu, n, 0)
    BY DEF Illegal, OpcodeSize
  <2>2. n = Legacy!OpcodeSize(op) - 1
    BY SameCells
  <2> HIDE DEF n
  <2>3. Legacy!Advance(V(cpu), n, 0)
    BY <2>1, MirroredAdvance, SelfView
  <2>4. op \notin Legacy!Opcodes6502
    <3>1. op \notin {b + o : b \in {0, 32, 64, 96, 160, 192, 224}, o \in Legacy!AluOffsets}
      BY <1>1 DEF Legacy!AluOffsets
    <3>2. op \notin {128 + o : o \in Legacy!AluOffsets \ {9}} \union {\hEB, \h24, \h2C}
      BY <1>1 DEF Legacy!AluOffsets
    <3>3. op \notin {b + o : b \in {0, 32, 64, 96, 192, 224}, o \in Legacy!ShiftOffsets}
      BY <1>1 DEF Legacy!ShiftOffsets
    <3> QED BY <1>1, <3>1, <3>2, <3>3 DEF Legacy!Opcodes6502
  <2>5. Legacy!Illegal <=> Legacy!op \notin Legacy!Opcodes6502 /\ Legacy!Advance(V(cpu), Legacy!OpcodeSize(Legacy!op) - 1, 0)
    BY Zenon DEF Legacy!Illegal, V, R
  <2>6. Legacy!op = op
    BY SameOp
  <2> QED BY <2>2, <2>3, <2>4, <2>5, <2>6
<1>2. CASE op \in {\h14, \h1C, \h34, \h3C, \h7C, \h89, \hFC}
  BY <1>2, NewOnes DEF NewOpcodes
<1>3. CASE op \in {16 * k + 3 : k \in 0 .. 15}
  <2>1. PICK k \in 0 .. 15 : op = 16 * k + 3
    BY <1>3
  <2>2. op \in {\h03, \h13, \h23, \h33, \h43, \h53, \h63, \h73, \h83, \h93, \hA3, \hB3, \hC3, \hD3, \hE3, \hF3}
    BY <2>1
  <2> QED BY <2>2, NewOnes DEF NewOpcodes
<1> QED BY <1>1, <1>2, <1>3 DEF Illegal
LEMMA NewMoves ==
  ASSUME StoreZero \/ CountA \/ TransferWord \/ BlockMove \/ Rep \/ Sep \/ ExchangeE \/ Halt \/ Wdm
  PROVE  NewInstruction
<1>1. StoreZero => op \in {\h9C, \h9E, \h64, \h74}
  <2>1. StoreZero => \E c \in {<<\h9C, "abs">>, <<\h9E, "abx">>, <<\h64, "zp">>, <<\h74, "zpx">>} : op = c[1]
    BY ZenonT(60) DEF StoreZero
  <2> QED BY <2>1
<1>2. TransferWord => op \in {\h5B, \h7B, \h3B}
  <2>1. TransferWord => \E c \in {<<\h5B, "D", "C">>, <<\h7B, "C", "D">>, <<\h3B, "C", "S">>} : op = c[1]
    BY ZenonT(60) DEF TransferWord
  <2> QED BY <2>1
<1>3. CountA => op \in {\h1A, \h3A}
  BY Zenon DEF CountA
<1>4. BlockMove => op \in {\h54, \h44}
  BY DEF BlockMove
<1>5. (Rep => op = \hC2) /\ (Sep => op = \hE2) /\ (ExchangeE => op = \hFB) /\ (Wdm => op = \h42)
  BY Zenon DEF Rep, Sep, ExchangeE, Wdm
<1>6. Halt => op \in {\hDB, \hCB}
  <2>1. Halt => \E c \in {<<\hDB, "stp">>, <<\hCB, "wai">>} : op = c[1]
    BY ZenonT(60) DEF Halt
  <2> QED BY <2>1
<1>7. op \in {\h9C, \h9E, \h64, \h74, \h5B, \h7B, \h3B, \h1A, \h3A, \h54, \h44, \hC2, \hE2, \hFB, \h42, \hDB, \hCB}
  BY <1>1, <1>2, <1>3, <1>4, <1>5, <1>6
<1> QED BY <1>7, NewOnes DEF NewOpcodes
LEMMA NewStack ==
  ASSUME PushIndex \/ PushBank \/ PushEffective \/ PullIndex \/ PullBank \/ PullD
  PROVE  NewInstruction
<1>1. PushIndex => op \in {\hDA, \h5A}
  <2>1. PushIndex => \E c \in {<<\hDA, "X">>, <<\h5A, "Y">>} : op = c[1]
    BY ZenonT(60) DEF PushIndex
  <2> QED BY <2>1
<1>2. PushBank => op \in {\h8B, \h4B}
  <2>1. PushBank => \E c \in {<<\h8B, "DBR">>, <<\h4B, "PBR">>} : op = c[1]
    BY ZenonT(60) DEF PushBank
  <2> QED BY <2>1
<1>3. PushEffective => op \in {\h0B, \hF4, \hD4, \h62}
  <2>1. PushEffective => \E c \in {<<\h0B, cpu.D, 0>>, <<\hF4, Operand, 2>>, <<\hD4, Pointer(ir[2]), 1>>,
                              <<\h62, (After(2) + Operand) % 65536, 2>>} : op = c[1]
    BY DEF PushEffective
  <2> QED BY <2>1
<1>4. PullIndex => op \in {\hFA, \h7A}
  <2>1. PullIndex => \E c \in {<<\hFA, "X">>, <<\h7A, "Y">>} : op = c[1]
    BY ZenonT(60) DEF PullIndex
  <2> QED BY <2>1
<1>5. (PullBank => op = \hAB) /\ (PullD => op = \h2B)
  BY Zenon DEF PullBank, PullD
<1>6. op \in {\hDA, \h5A, \h8B, \h4B, \h0B, \hF4, \hD4, \h62, \hFA, \h7A, \hAB, \h2B}
  BY <1>1, <1>2, <1>3, <1>4, <1>5
<1> QED BY <1>6, NewOnes DEF NewOpcodes
LEMMA NewJumps ==
  ASSUME BranchAlways \/ JumpLong \/ CallLong \/ ReturnLong \/ Cop
  PROVE  NewInstruction
<1>1. (BranchAlways => op \in {\h80, \h82}) /\ (JumpLong => op \in {\h5C, \hDC})
  BY DEF BranchAlways, JumpLong
<1>2. (CallLong => op = \h22) /\ (ReturnLong => op = \h6B) /\ (Cop => op = 2)
  BY DEF CallLong, ReturnLong, Cop
<1>3. op \in {\h80, \h82, \h5C, \hDC, \h22, \h6B, 2}
  BY <1>1, <1>2
<1> QED BY <1>3, NewOnes DEF NewOpcodes
LEMMA ExecuteMirrors ==
  ASSUME CpuAssumption, CpuInv, CpuInv', cpu.E, Execute
  PROVE  NewInstruction \/ DecimalSum \/ Legacy!Execute
<1>1. CASE LoadA \/ StoreA \/ StoreALong \/ LoadX \/ LoadY \/ StoreX \/ StoreY \/ AddSub \/ Exchange
  BY <1>1, LoadAMirrors, StoreAMirrors, LoadXYMirrors, StoreXYMirrors, AddSubMirrors, ExchangeMirrors, Zenon DEF Legacy!Execute
<1>2. CASE Logic \/ CompareA \/ CompareIndex \/ BitTest \/ ShiftA \/ ShiftMem \/ IncMem \/ DecMem
  BY <1>2, LogicMirrors, CompareAMirrors, CompareIndexMirrors, BitTestMirrors, ShiftAMirrors, ShiftMemMirrors, CountMemMirrors,
     Zenon DEF Legacy!Execute
<1>3. CASE CountIndex \/ TransferIndex \/ TransferA \/ TransferStack \/ PushA \/ PushP \/ PullA \/ PullP
  BY <1>3, CountIndexMirrors, TransferIndexMirrors, TransferAMirrors, TransferStackMirrors, PushMirrors, PullAMirrors, PullPMirrors,
     Zenon DEF Legacy!Execute
<1>4. CASE Branch \/ Jump \/ Call \/ Return \/ ReturnInterrupt \/ Break
  BY <1>4, BranchMirrors, JumpMirrors, CallMirrors, ReturnMirrors, ReturnInterruptMirrors, BreakMirrors, Zenon DEF Legacy!Execute
<1>5. CASE SetFlag \/ Nop \/ Illegal
  BY <1>5, SetFlagMirrors, NopMirrors, IllegalMirrors, Zenon DEF Legacy!Execute
<1>6. CASE StoreZero \/ CountA \/ TransferWord \/ BlockMove \/ Rep \/ Sep \/ ExchangeE \/ Halt \/ Wdm
  BY <1>6, NewMoves
<1>7. CASE PushIndex \/ PushBank \/ PushEffective \/ PullIndex \/ PullBank \/ PullD
  BY <1>7, NewStack
<1>8. CASE BranchAlways \/ JumpLong \/ CallLong \/ ReturnLong \/ Cop
  BY <1>8, NewJumps
<1> QED BY <1>1, <1>2, <1>3, <1>4, <1>5, <1>6, <1>7, <1>8, Zenon DEF Execute
\* The 65C816 in emulation mode implements the 6502 core on the low bytes of its
\* registers: every step is a step of that core, with its memory and its cycles, but
\* for the flags of decimal sums, the opcodes that core does not decode, and WAI.
THEOREM EmulationActs == ReturnsSpec => ActsAs6502
<1>1. ASSUME CpuAssumption, CpuInv, CpuInv', ReturnsNext, cpu.E
      PROVE  Wait \/ (Fetching /\ (DecimalSum \/ NewInstruction)) \/ Legacy!Next
  <2>1. CASE Wait
    BY <2>1
  <2>2. CASE Nmi \/ Irq
    BY <1>1, <2>2, InterruptMirrors, Zenon DEF Legacy!Next
  <2>3. CASE Run
    <3>1. Fetching /\ Execute
      BY <2>3, Zenon DEF Run
    <3>2. Legacy!Next <=> Legacy!Nmi \/ Legacy!Irq \/ ((line = "none" \/ (line = "irq" /\ "I" \in V(cpu).P)) /\ Legacy!Execute)
      BY Zenon DEF Legacy!Next, V, R
    <3>3. (line = "none" \/ (line = "irq" /\ "I" \in V(cpu).P)) <=> Fetching
      BY RegsIs DEF Fetching
    <3> QED BY <1>1, <3>1, <3>2, <3>3, ExecuteMirrors, Zenon
  <2> QED BY <1>1, <2>1, <2>2, <2>3, Zenon DEF ReturnsNext
<1>2. ASSUME CpuAssumption, CpuInv, CpuInv', [ReturnsNext]_<<vars, homes>>
      PROVE  [cpu.E => Wait \/ (Fetching /\ (DecimalSum \/ NewInstruction)) \/ Legacy!Next]_vars
  BY <1>1, <1>2, Zenon
<1>3. ReturnsSpec => []CpuInv
  BY RegistersHold
<1> QED BY <1>2, <1>3, CpuAssumption, PTL DEF ReturnsSpec, ActsAs6502
=============================================================================
