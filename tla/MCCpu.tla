-------------------------------- MODULE MCCpu --------------------------------
(* Emulated programs: every opcode the 6502 core names, and some it does not,  *)
(* with operands that index across pages and wrap in page zero.  Native        *)
(* programs: what moves the modes, the stack, the banks and the blocks.        *)
EXTENDS CpuReturns

MCBlank(a) == (37 * a + a \div 256 + 13) % 256

With(c, x, y, s, p, e) == [Reset EXCEPT !.C = c, !.X = x, !.Y = y, !.S = s, !.P = p, !.E = e]
Emulated ==
  [starts |-> {With(c, x, 256 - x, s, p, TRUE) : c \in {\h0099, \h7F80, \h0100}, x \in {1, 240},
                                                 s \in {\h01FF, \h0100}, p \in {{"M", "I"}, {"M", "D", "C"}}},
   code |-> {<<o, b, b, 0>> : o \in Opcodes6502 \union {\h04, \h0C, \hC2, \hE2, \hFB}, b \in {16, 255}},
   lines |-> {"none", "irq", "nmi"}, steps |-> 1]
InNative ==
  [starts |-> {With(\h0102, \h01FE, 1, s, p, FALSE) : s \in {0, \h01FF}, p \in {{}, {"C"}}}
              \union {With(2, 255, 255, \h01FF, {"M", "X", "C"}, FALSE), With(\h0199, 128, 1, \h01FF, {"M"}, TRUE)},
   code |-> {<<o, 48, 1, 2>> : o \in {\h00, \h02, \h08, \h18, \h1B, \h20, \h22, \h28, \h38, \h40, \h44, \h54, \h60,
                                      \h6B, \h8B, \h9A, \hAA, \hAB, \hC2, \hDA, \hE2, \hE8, \hFA, \hFB, \hCB, \hEB}},
   lines |-> {"none", "nmi"}, steps |-> 3]
\* Every opcode once from each native start.
Sampled ==
  [starts |-> InNative.starts, code |-> {<<o, 16, 3, 1>> : o \in 0 .. 255}, lines |-> {"none", "irq"}, steps |-> 1]
MCPrograms == {Emulated, InNative, Sampled}
=============================================================================
