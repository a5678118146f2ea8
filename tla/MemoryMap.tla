----------------------------- MODULE MemoryMap -----------------------------
(* The memory of memory.c as the 24-bit bus of the 65C816 sees it: 64 kilobytes *)
(* of RAM, of which a ROM or the Microdisc's covers the top, and 255 banks that *)
(* come to be when they are written.  A memory is a record: cells holds what    *)
(* was written, romdis and diskrom are what the Microdisc last set, overlay is  *)
(* the size of its ROM, 0 when there is none.  The I/O page is not part of it.  *)
EXTENDS Integers, TLC

CONSTANTS
  Rom(_),       \* what the BASIC ROM holds at an address
  DiskRom(_)    \* what the Microdisc ROM holds at an address

Bus == 16777216     \* 24 bits

\* memory_init: half of each page of RAM at 0, half at $FF; calloc for a bank.
PowerOn(a) == IF a < 65536 /\ a % 256 >= 128 THEN 255 ELSE 0
Cell(m, a) == IF a \in DOMAIN m.cells THEN m.cells[a] ELSE PowerOn(a)

\* memory_read, and memory_write: rom_enabled, that nothing clears, is left out.
Read(m, a) ==
  CASE a < \hC000 -> Cell(m, a)
    [] a >= \hC000 /\ ~m.romdis -> Rom(a)
    [] a >= \hE000 /\ m.romdis /\ m.diskrom /\ a - \hE000 < m.overlay -> DiskRom(a)
    [] OTHER -> Cell(m, a)
Stored(m, a, v) == [m EXCEPT !.cells = (a :> v) @@ @]
Write(m, a, v) ==
  IF a < \hC000 \/ (m.romdis /\ ~(m.diskrom /\ a >= \hE000)) THEN Stored(m, a, v) ELSE m

\* memory_read24 and memory_write24.
Read24(m, a) == IF a < 65536 THEN Read(m, a) ELSE Cell(m, a)
Write24(m, a, v) == IF a < 65536 THEN Write(m, a, v) ELSE Stored(m, a, v)
=============================================================================
