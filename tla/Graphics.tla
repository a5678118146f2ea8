------------------------------ MODULE Graphics ------------------------------
(* The video memory of the Oric 2 and its blitter (vram_device.c,              *)
(* gpu_device.c): a program writes their registers a byte at a time; the       *)
(* trigger draws in the video memory, two pixels a byte, and the DMA control   *)
(* moves bytes between it and the banks of the bus.                            *)
EXTENDS MemoryMap, Sequences, SequencesExt

CONSTANTS
  Requests,      \* what programs ask for: sequences of accesses <<register, byte, value>>
  Memories,      \* the memories they start with
  Picture,       \* what is in the video memory before: fonts, strings and pixels
  DmaMax,        \* what a DMA length of 0 stands for, 65536 in the code
  MaxText,       \* the longest text, 256 characters in the code
  MaxRequests    \* bound: the requests of a behaviour

VARIABLES
  words,         \* the registers: ARG1 .. ARG4, ADDR, SRC, DST, LEN; and the opcode OP
  failed,        \* the last opcode was unknown
  vram,          \* the bytes of the video memory that were written
  bus,           \* the memory of the machine
  queue, given,  \* the accesses left of the request, and the requests made
  canvas,        \* the picture as a map from pixels to colours, that the requests meant
  expected       \* the bytes of the bus that they meant to change

vars == <<words, failed, vram, bus, queue, given, canvas, expected>>

VramSize == 16777216
Stride == 512                    \* GPU_XVGA_BPL, the bytes of a line
Byte(w, k) == (words[w] \div (256 ^ k)) % 256
WithByte(n, k, v) == n + (256 ^ k) * (v - ((n \div (256 ^ k)) % 256))
Address(w) == words[w] % VramSize
Colour(v) == v % 16

Peek(m, a) == LET k == a % VramSize IN IF k \in DOMAIN m THEN m[k] ELSE 0
Poke(m, a, v) == (a % VramSize :> v) @@ m

(* The commands: what each leaves in the video memory. *)

\* gpu_set_pixel: a pixel is a nibble, the left one in the high half.
SetPixelWhole(m, base, p, colour) ==    \* faulty: the other pixel of the byte cleared
  Poke(m, base + Stride * p[2] + p[1] \div 2, IF p[1] % 2 = 1 THEN colour ELSE 16 * colour)
SetPixel(m, base, p, colour) ==
  LET a == base + Stride * p[2] + p[1] \div 2
      old == Peek(m, a)
  IN Poke(m, a, IF p[1] % 2 = 1 THEN 16 * (old \div 16) + colour ELSE 16 * colour + (old % 16))
SetPixels(m, base, pixels, colour) == FoldLeft(LAMBDA v, p : SetPixel(v, base, p, colour), m, pixels)

\* Rows of columns, in the order of the loops.
Grid(left, top, width, height) ==
  [n \in 1 .. width * height |-> <<left + ((n - 1) % width), top + ((n - 1) \div width)>>]

Clear ==
  FoldLeft(LAMBDA m, i : Poke(m, Address("ARG1") + i - 1, 17 * Colour(Byte("ARG3", 0))),
           vram, [i \in 1 .. Address("ARG2") |-> i])
FillRect ==
  SetPixels(vram, Address("ARG1"),
            Grid(Byte("ARG2", 0), Byte("ARG2", 1), Byte("ARG3", 0), Byte("ARG3", 1)),
            Colour(Byte("ARG4", 0)))
Blit ==
  FoldLeft(LAMBDA m, p : LET off == Stride * p[2] + p[1]
                         IN Poke(m, Address("ARG2") + off, Peek(m, Address("ARG1") + off)),
           vram, Grid(0, 0, Byte("ARG3", 0), Byte("ARG3", 1)))

\* Bresenham: the points of the loop of gpu_exec_line, and one step of it.
Abs(n) == IF n < 0 THEN -n ELSE n
Sign(from, to) == IF from < to THEN 1 ELSE -1
LineStep(s, dx, dy, sx, sy) ==
  LET alongX == 2 * s.err >= dy
      alongY == 2 * s.err <= dx
  IN [p |-> <<s.p[1] + (IF alongX THEN sx ELSE 0), s.p[2] + (IF alongY THEN sy ELSE 0)>>,
      err |-> s.err + (IF alongX THEN dy ELSE 0) + (IF alongY THEN dx ELSE 0)]
LinePoints(from, to) ==
  LET dx == Abs(to[1] - from[1])
      dy == -Abs(to[2] - from[2])
      walk[n \in 0 .. dx - dy] ==
        IF n = 0 THEN [p |-> from, err |-> dx + dy]
        ELSE IF walk[n - 1].p = to THEN walk[n - 1]
        ELSE LineStep(walk[n - 1], dx, dy, Sign(from[1], to[1]), Sign(from[2], to[2]))
  IN [n \in 1 .. dx - dy + 1 |-> walk[n - 1].p]
Line ==
  SetPixels(vram, Address("ARG1"),
            LinePoints(<<Byte("ARG2", 0), Byte("ARG2", 1)>>, <<Byte("ARG3", 0), Byte("ARG3", 1)>>),
            Colour(Byte("ARG4", 0)))

\* Text: a row of a glyph is read, then its bits drawn; a character is its eight
\* rows; the string ends at its zero byte.
IsSet(bits, col) == (bits \div (2 ^ (7 - col))) % 2 = 1
TextRow(m, n, c, row) ==
  LET bits == Peek(m, Address("ARG2") + 8 * c + row)
      lit == SelectSeq(<<0, 1, 2, 3, 4, 5, 6, 7>>, LAMBDA col : IsSet(bits, col))
      point(col) == <<Byte("ARG4", 0) + 8 * n + col, Byte("ARG4", 1) + row>>
  IN SetPixels(m, Address("ARG1"), [k \in DOMAIN lit |-> point(lit[k])], Colour(Byte("ARG4", 2)))
TextChar(m, n) ==
  LET c == Peek(m, Address("ARG3") + n)
  IN FoldLeft(LAMBDA v, row : TextRow(v, n, c, row), m, <<0, 1, 2, 3, 4, 5, 6, 7>>)
Text ==
  FoldLeft(LAMBDA s, n : IF s.over \/ Peek(s.m, Address("ARG3") + n) = 0
                           THEN [s EXCEPT !.over = TRUE] ELSE [s EXCEPT !.m = TextChar(@, n)],
           [m |-> vram, over |-> FALSE], [n \in 1 .. MaxText |-> n - 1]).m

(* What the commands mean, as a picture: a map from pixels to colours. *)
Pixel(base, p) == (2 * base + 2 * Stride * p[2] + p[1]) % (2 * VramSize)
ColourAt(c, p) == IF p \in DOMAIN c THEN c[p] ELSE 0
Paint(pixels, colour) == [p \in pixels |-> colour] @@ canvas
MeantClear == Paint({(2 * Address("ARG1") + i) % (2 * VramSize) : i \in 0 .. 2 * Address("ARG2") - 1},
                    Colour(Byte("ARG3", 0)))
MeantRect ==
  Paint({Pixel(Address("ARG1"), <<x, y>>) : x \in Byte("ARG2", 0) .. Byte("ARG2", 0) + Byte("ARG3", 0) - 1,
                                            y \in Byte("ARG2", 1) .. Byte("ARG2", 1) + Byte("ARG3", 1) - 1},
        Colour(Byte("ARG4", 0)))
MeantBlit ==
  LET moved == {<<x, y>> : x \in 0 .. 2 * Byte("ARG3", 0) - 1, y \in 0 .. Byte("ARG3", 1) - 1}
      to(p) == Pixel(Address("ARG2"), p)
  IN [q \in {to(p) : p \in moved} |->
        ColourAt(canvas, Pixel(Address("ARG1"), CHOOSE p \in moved : to(p) = q))] @@ canvas
\* The points of a straight line: on the longer axis each once, on the other the
\* nearest, away from the start when two are as near.
Straight(from, to) ==
  LET w == Abs(to[1] - from[1])
      h == Abs(to[2] - from[2])
      long == IF w > h THEN w ELSE h
      off(n, side) == IF long = 0 THEN 0 ELSE (2 * side * n + long) \div (2 * long)
  IN {<<from[1] + Sign(from[1], to[1]) * off(n, w), from[2] + Sign(from[2], to[2]) * off(n, h)>> : n \in 0 .. long}
MeantLine ==
  Paint({Pixel(Address("ARG1"), p) :
           p \in Straight(<<Byte("ARG2", 0), Byte("ARG2", 1)>>, <<Byte("ARG3", 0), Byte("ARG3", 1)>>)},
        Colour(Byte("ARG4", 0)))
ByteAt(c, a) == 16 * ColourAt(c, (2 * a) % (2 * VramSize)) + ColourAt(c, (2 * a + 1) % (2 * VramSize))
MeantText ==
  LET chars == {n \in 0 .. MaxText - 1 : \A k \in 0 .. n : ByteAt(canvas, Address("ARG3") + k) # 0}
      glyph(n, row) == ByteAt(canvas, Address("ARG2") + 8 * ByteAt(canvas, Address("ARG3") + n) + row)
      bits == {b \in chars \X (0 .. 7) \X (0 .. 7) : IsSet(glyph(b[1], b[2]), b[3])}
  IN Paint({Pixel(Address("ARG1"), <<Byte("ARG4", 0) + 8 * b[1] + b[3], Byte("ARG4", 1) + b[2]>>) : b \in bits},
           Colour(Byte("ARG4", 2)))
\* A byte of the picture, as its two pixels.
Pair(a, v) == ((2 * a) % (2 * VramSize) :> v \div 16) @@ ((2 * a + 1) % (2 * VramSize) :> v % 16)
IsRam(m, a) == a >= 65536 \/ a < \hC000 \/ (m.romdis /\ (a < \hE000 \/ ~m.diskrom))

(* The registers. *)
Access == Head(queue)
Request == /\ queue = <<>> /\ given < MaxRequests
           /\ queue' \in Requests /\ given' = given + 1
           /\ UNCHANGED <<words, failed, vram, bus, canvas, expected>>
Took == queue # <<>> /\ queue' = Tail(queue) /\ UNCHANGED given
WriteRegister ==
  /\ Took /\ Access[1] \in DOMAIN words
  /\ words' = [words EXCEPT ![Access[1]] = WithByte(@, Access[2], Access[3])]
  /\ UNCHANGED <<failed, vram, bus, canvas, expected>>
\* VRAM_REG_DATA: the cursor goes on, and comes round at the end of the memory.
WriteData ==
  /\ Took /\ Access[1] = "DATA"
  /\ vram' = Poke(vram, Address("ADDR"), Access[3])
  /\ canvas' = Pair(Address("ADDR"), Access[3]) @@ canvas
  /\ words' = [words EXCEPT !.ADDR = (@ + 1) % VramSize]
  /\ UNCHANGED <<failed, bus, expected>>
\* vram_read of the same register moves the cursor too.
ReadData ==
  /\ Took /\ Access[1] = "READ"
  /\ words' = [words EXCEPT !.ADDR = (@ + 1) % VramSize]
  /\ UNCHANGED <<failed, vram, bus, canvas, expected>>
\* gpu_dispatch; the video memory is done with when the write returns.
Dispatch ==
  /\ Took /\ Access[1] = "TRIGGER"
  /\ \/ words.OP = 1 /\ vram' = Clear /\ canvas' = MeantClear
     \/ words.OP = 2 /\ vram' = FillRect /\ canvas' = MeantRect
     \/ words.OP = 3 /\ vram' = Blit /\ canvas' = MeantBlit
     \/ words.OP = 4 /\ vram' = Line /\ canvas' = MeantLine
     \/ words.OP = 5 /\ vram' = Text /\ canvas' = MeantText
     \/ words.OP \notin 1 .. 5 /\ UNCHANGED <<vram, canvas>>
  /\ failed' = (words.OP \notin 0 .. 5)
  /\ UNCHANGED <<words, bus, expected>>
\* vram_dma_exec, in the two directions, a byte after the other.
DmaLength == IF words.LEN % 65536 = 0 THEN DmaMax ELSE words.LEN % 65536
DmaIn ==
  /\ Took /\ Access[1] = "DMA_IN"
  /\ LET byte(i) == Read24(bus, (words.SRC + i - 1) % Bus)
         bytes == [i \in 1 .. DmaLength |-> i]
     IN /\ vram' = FoldLeft(LAMBDA m, i : Poke(m, words.DST + i - 1, byte(i)), vram, bytes)
        /\ canvas' = FoldLeft(LAMBDA c, i : Pair(words.DST + i - 1, byte(i)) @@ c, canvas, bytes)
  /\ UNCHANGED <<words, failed, bus, expected>>
DmaOut ==
  /\ Took /\ Access[1] = "DMA_OUT"
  /\ LET to(i) == (words.DST + i - 1) % Bus
     IN /\ bus' = FoldLeft(LAMBDA m, i : Write24(m, to(i), Peek(vram, words.SRC + i - 1)), bus,
                           [i \in 1 .. DmaLength |-> i])
        /\ expected' = [a \in {to(i) : i \in {j \in 1 .. DmaLength : IsRam(bus, to(j))}} |->
                          ByteAt(canvas, words.SRC + ((a + Bus - words.DST) % Bus))] @@ expected
  /\ UNCHANGED <<words, failed, vram, canvas>>

Registers == {"ARG1", "ARG2", "ARG3", "ARG4", "ADDR", "SRC", "DST", "LEN", "OP"}
Init ==
  /\ words = [w \in Registers |-> 0] /\ failed = FALSE
  /\ vram = Picture /\ bus \in Memories /\ queue = <<>> /\ given = 0
  /\ canvas = [p \in UNION {{2 * a, 2 * a + 1} : a \in DOMAIN Picture} |->
                 IF p % 2 = 0 THEN Picture[p \div 2] \div 16 ELSE Picture[p \div 2] % 16]
  /\ expected = <<>>
Next == Request \/ WriteRegister \/ WriteData \/ ReadData \/ Dispatch \/ DmaIn \/ DmaOut
Spec == Init /\ [][Next]_vars

(* Properties. *)

\* The video memory holds the picture the commands mean, pixel by pixel and no
\* other, whatever was drawn over what, on whichever nibble, over the end of a
\* line or of the memory; and a byte of the bus that a DMA did not mean to change,
\* or that is in a ROM, reads as it did.
PictureRight ==
  /\ \A a \in DOMAIN vram \union {p \div 2 : p \in DOMAIN canvas} : Peek(vram, a) = ByteAt(canvas, a)
  /\ \A a \in DOMAIN bus.cells \union DOMAIN expected :
       Read24(bus, a) = IF a \in DOMAIN expected THEN expected[a] ELSE Read24([bus EXCEPT !.cells = <<>>], a)
=============================================================================
