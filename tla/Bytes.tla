-------------------------------- MODULE Bytes --------------------------------
(* What the two processor cores share: the status register as the set of its  *)
(* flags, words as sets of bits and as pairs of bytes, and the sizes of the    *)
(* opcodes neither decodes.  A flag has the name of its bit; bits 4 and 5 are  *)
(* B and unused on the 6502, X and M on the 65C816.                            *)
EXTENDS Naturals, TLC

\* The values of a byte and of a word, of one byte or two.
Byte  == {n \in Nat : n < 256}
Words == {n \in Nat : n < 65536}

\* A word as the set of the weights of its bits, and back.
Weights == {1, 2, 4, 8, 16, 32, 64, 128, 256, 512, 1024, 2048, 4096, 8192, 16384, 32768}
BitsOf(word) == {w \in Weights : (word \div w) % 2 = 1}
Number(bits) ==
  LET at(w) == IF w \in bits THEN w ELSE 0
  IN  at(1) + at(2) + at(4) + at(8) + at(16) + at(32) + at(64) + at(128) + at(256)
      + at(512) + at(1024) + at(2048) + at(4096) + at(8192) + at(16384) + at(32768)

Or(a, b) == Number(BitsOf(a) \union BitsOf(b))
And(a, b) == Number(BitsOf(a) \intersect BitsOf(b))
Xor(a, b) == Number((BitsOf(a) \union BitsOf(b)) \ (BitsOf(a) \intersect BitsOf(b)))

Weight == [N |-> 128, V |-> 64, M |-> 32, X |-> 16, D |-> 8, I |-> 4, Z |-> 2, C |-> 1]
Flags == DOMAIN Weight

\* The flags set in a byte, and the byte of a set of flags.
FlagsOf(byte) == {f \in Flags : Weight[f] \in BitsOf(byte)}
ByteOf(P) == Number({Weight[f] : f \in P})

\* Memory with other cells written over it, and one cell.
Over(cells, m) == [a \in DOMAIN cells \union DOMAIN m |-> IF a \in DOMAIN cells THEN cells[a] ELSE m[a]]
Cell(a, byte) == [x \in {a} |-> byte]

\* setf
Put(P, flag, value) == IF value THEN P \union {flag} ELSE P \ {flag}
Carry(P) == IF "C" \in P THEN 1 ELSE 0

Span(width) == IF width = 8 THEN 256 ELSE 65536   \* width is 8 or 16
Top(v, width) == v >= Span(width) \div 2        \* the sign bit of a value in range
PutNZ(P, v, width) == Put(Put(P, "Z", v = 0), "N", Top(v, width))

Low(word) == word % 256
High(word) == (word \div 256) % 256
Word(lo, hi) == lo + 256 * hi
SamePage(a, b) == a \div 256 = b \div 256
\* A byte read as a signed displacement, added to a 16-bit address.
Displaced(pc, byte) == (pc + (IF byte >= 128 THEN 65280 + byte ELSE byte)) % 65536

\* The size of the opcodes that neither core decodes: one byte but for these.
TwoBytes == {\h04, \h14, \h34, \h44, \h54, \h64, \h74, \h80, \h82, \h89, \hC2, \hD4, \hE2, \hF4}
ThreeBytes == {\h0C, \h1C, \h3C, \h5C, \h7C, \hDC, \hFC}
OpcodeSize(op) == CASE op \in TwoBytes -> 2 [] op \in ThreeBytes -> 3 [] OTHER -> 1

\* The opcodes the switch of the 6502 core names.
AluOffsets == {1, 5, 9, 13, 17, 21, 25, 29}
ShiftOffsets == {6, 14, 22, 30}
Opcodes6502 ==
  {b + o : b \in {0, 32, 64, 96, 160, 192, 224}, o \in AluOffsets}
  \union {128 + o : o \in AluOffsets \ {9}} \union {\hEB, \h24, \h2C}
  \union {b + o : b \in {0, 32, 64, 96, 192, 224}, o \in ShiftOffsets}
  \union {\h0A, \h2A, \h4A, \h6A, \hA2, \hA6, \hB6, \hAE, \hBE, \hA0, \hA4, \hB4, \hAC, \hBC}
  \union {\h86, \h96, \h8E, \h84, \h94, \h8C, \hE0, \hE4, \hEC, \hC0, \hC4, \hCC}
  \union {\hE8, \hC8, \hCA, \h88, \hAA, \h8A, \hA8, \h98, \hBA, \h9A, \h48, \h08, \h68, \h28}
  \union {\h10, \h30, \h50, \h70, \h90, \hB0, \hD0, \hF0, \h4C, \h6C, \h20, \h60, \h40, 0}
  \union {\h18, \h38, \h58, \h78, \hD8, \hF8, \hB8, \hEA}
=============================================================================
