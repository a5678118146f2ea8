------------------------------ MODULE TapeFile ------------------------------
(* Tape images: what tap.c writes and reads, in its two reading modes, the     *)
(* BASIC programs it tokenises, and the fast load of main.c that puts the      *)
(* first block of a tape in memory and chains its lines again.                 *)
EXTENDS Integers, Sequences, SequencesExt, FiniteSetsExt, TLC

CONSTANTS
  Tapes,        \* the tapes of the runs: sequences of blocks [form, pad, type, start, name, data]
  Binaries,     \* what bin2tap writes after one of them: [data, start, name]
  Listings,     \* BASIC sources: sequences of lines [number, text]
  Keywords,     \* the keyword table, in the order of the tokens
  Rem,          \* the token of REM
  Moved,        \* how far the line pointers of a tape may be from where it loads
  NameLen,      \* TAP_NAME_LEN
  RawLen        \* the bytes a header is looked for in

VARIABLES
  blocks,       \* the blocks of the tape
  source,       \* the BASIC source it was made from, or <<>>
  tape,         \* its bytes
  reader,       \* per mode: [at, file], tap->position and the offset of the FILE
  got,          \* per mode: the blocks read
  ram, vartab   \* what the fast load put in memory, and the end of the program

vars == <<blocks, source, tape, reader, got, ram, vartab>>

Sync == 22
Marker == 36
Types == {0, 128, 192}
Modes == {"fast", "stream"}
Start == \h0501                      \* BASIC_START_ADDR
Big(n) == <<n \div 256, n % 256>>
Little(n) == <<n % 256, n \div 256>>
EndOf(b) == (b.start + Len(b.data) - 1) % 65536

(* Writing: tap_write_header writes seven bytes of header; the ROM writes nine, *)
(* and some tapes have padding before them.                                    *)
Header(b) ==
  [i \in 1 .. b.pad |-> 82] \o <<b.type, 0>>
  \o (IF b.form = "rom" THEN <<0, 0>> ELSE <<>>) \o Big(EndOf(b)) \o Big(b.start) \o <<0>>
  \o SubSeq(b.name, 1, Min({Len(b.name), NameLen - 1})) \o <<0>>
Written(b) == <<Sync, Sync, Sync, Marker>> \o Header(b) \o b.data
Image(bs) == FlattenSeq([i \in DOMAIN bs |-> Written(bs[i])])

(* Tokenising one line of BASIC. *)
UpperChar(c) == IF c \in 97 .. 122 THEN c - 32 ELSE c
Upper(text) == [i \in DOMAIN text |-> UpperChar(text[i])]
WordChar(c) == UpperChar(c) \in (48 .. 57) \union (65 .. 90) \union {36}
\* basic_match_keyword: the longest keyword at position i that no word goes on after.
MatchesAt(text, i) ==
  {k \in DOMAIN Keywords :
     LET n == Len(Keywords[k]) IN
     /\ i + n - 1 <= Len(text) /\ Upper(SubSeq(text, i, i + n - 1)) = Keywords[k]
     /\ (n > 1 /\ Keywords[k][1] >= 65) => (i + n > Len(text) \/ ~WordChar(text[i + n]))}
Longest(ks) == CHOOSE k \in ks : \A j \in ks : Len(Keywords[j]) <= Len(Keywords[k])
Tokenized(text) ==
  LET tokens[i \in 1 .. Len(text) + 1, mode \in {"plain", "string", "rem"}] ==
        IF i > Len(text) THEN <<>>
        ELSE LET c == text[i]
                 ks == MatchesAt(text, i)
             IN CASE mode = "string" -> <<c>> \o tokens[i + 1, IF c = 34 THEN "plain" ELSE "string"]
                  [] mode = "rem" -> <<c>> \o tokens[i + 1, "rem"]
                  [] c = 34 -> <<c>> \o tokens[i + 1, "string"]
                  [] ks # {} -> LET k == Longest(ks) IN
                       <<127 + k>> \o tokens[i + Len(Keywords[k]), IF 127 + k = Rem THEN "rem" ELSE "plain"]
                  [] OTHER -> <<UpperChar(c)>> \o tokens[i + 1, "plain"]
  IN tokens[1, "plain"]

(* tap_from_basic: the lines with a number, chained from the start address.    *)
(* shift is how far the pointers are from where they should be.                *)
Numbered(lines) == SelectSeq(lines, LAMBDA l : l.number # 0)
Body(text) == Tokenized(IF text # <<>> /\ text[1] = 32 THEN Tail(text) ELSE text)
Program(lines, shift) ==
  LET kept == Numbered(lines)
      add(data, l) ==
        LET body == Body(l.text)
            next == Start + shift + Len(data) + 4 + Len(body) + 1
        IN data \o Little(next % 65536) \o Little(l.number % 65536) \o body \o <<0>>
  IN FoldLeft(add, <<>>, kept) \o <<0, 0>>
FromBasic(lines, name, shift) ==
  [form |-> "tool", pad |-> 0, type |-> 0, start |-> Start, name |-> name, data |-> Program(lines, shift)]

\* tap_from_binary: a block of machine code, of a file that fits in memory.
Fits(file) == Len(file.data) \in 1 .. 48000
FromBinary(file) ==
  [form |-> "tool", pad |-> 0, type |-> 128, start |-> file.start, name |-> file.name, data |-> file.data]

(* Reading.  In fast mode the bytes come from the buffer, at tap->position; in *)
(* stream mode from the FILE, whose offset has to keep step with it.           *)
Eof(r) == r.at >= Len(tape)
Where(mode, r) == IF mode = "fast" THEN r.at ELSE r.file
Forward(r, n) == [at |-> r.at + n, file |-> r.file + n]
SkipSync(mode, r) ==
  Forward(r, Max({k \in 0 .. Len(tape) - r.at : \A i \in 1 .. k : tape[Where(mode, r) + i] = Sync}))
Bytes(mode, r, n) ==
  SubSeq(tape, Where(mode, r) + 1, Where(mode, r) + Min({n, Len(tape) - r.at}))

\* tap_read_header's guess at the layout: where the header is and its length.
Word(raw, i) == 256 * raw[i] + raw[i + 1]
Plausible(raw, i) ==
  LET end == Word(raw, i + 1) start == Word(raw, i + 3) IN start < end /\ start >= 256 /\ end < 49152
LayoutNineFirst(raw) ==       \* faulty: the nine-byte layout accepted with any addresses
  IF Len(raw) >= 9 THEN [off |-> 0, size |-> 9] ELSE [off |-> 0, size |-> 7]
Layout(raw) ==
  LET Nine(s) == s + 9 <= Len(raw) /\ raw[s + 1] \in Types /\ Plausible(raw, s + 4)
      Seven(s) == s + 7 <= Len(raw) /\ raw[s + 1] \in Types /\ Plausible(raw, s + 2)
      padded == {s \in 0 .. 4 : Seven(s) \/ (s > 0 /\ Nine(s))}
  IN IF Nine(0) \/ padded = {} THEN [off |-> 0, size |-> 9]
     ELSE [off |-> Min(padded), size |-> IF Seven(Min(padded)) THEN 7 ELSE 9]
\* The name, and where it ends: after its terminator when that is within the limit.
NameIn(raw, from) ==
  LET limit == Min({Len(raw), from + NameLen - 1})
      nulls == {i \in from + 1 .. limit : raw[i] = 0}
  IN IF nulls = {} THEN [name |-> SubSeq(raw, from + 1, limit), past |-> limit]
     ELSE [name |-> SubSeq(raw, from + 1, Min(nulls) - 1), past |-> Min(nulls)]

\* tap_read_header, then tap_read_data of the length the header gives.  A header
\* cut short by the end of the tape is parsed from uninitialised bytes: the tapes
\* of the runs have none.
ReadBlock(mode, r) ==
  LET after == Forward(SkipSync(mode, r), 1)
      raw == Bytes(mode, after, RawLen)
      lay == Layout(raw)
      p == lay.off + lay.size
      end == Word(raw, p - 4) start == Word(raw, p - 2)
      name == NameIn(raw, p)
      data == [at |-> after.at + name.past, file |-> after.at + name.past]
      size == (end - start + 1) % 65536
      bytes == Bytes(mode, data, size)
  IN [ok |-> Bytes(mode, SkipSync(mode, r), 1) = <<Marker>>,
      block |-> [type |-> raw[lay.off + 1], start |-> start, name |-> name.name, data |-> bytes],
      r |-> Forward(data, Len(bytes))]

Read(mode) ==
  /\ ~Eof(reader[mode])
  /\ LET b == ReadBlock(mode, reader[mode])
     IN /\ b.ok
        /\ got' = [got EXCEPT ![mode] = Append(@, b.block)]
        /\ reader' = [reader EXCEPT ![mode] = b.r]
  /\ UNCHANGED <<blocks, source, tape, ram, vartab>>
Rewind(mode) ==
  /\ got[mode] # <<>>
  /\ reader' = [reader EXCEPT ![mode] = [at |-> 0, file |-> 0]] /\ got' = [got EXCEPT ![mode] = <<>>]
  /\ UNCHANGED <<blocks, source, tape, ram, vartab>>

(* The deferred fast load of the first block (main.c): the bytes go to memory,  *)
(* and a BASIC program has its lines chained and its end noted.                *)
Ram(m, a) == IF a \in DOMAIN m THEN m[a] ELSE 0
EndOfLine(m, a) == CHOOSE z \in a .. 49152 : (z = 49152 \/ Ram(m, z) = 0) /\ \A y \in a .. z - 1 : Ram(m, y) # 0
LineEndEarly(m, ptr) == EndOfLine(m, ptr + 2) + 1    \* faulty: the line number is scanned too
LineEnd(m, ptr) == EndOfLine(m, ptr + 4) + 1
\* basic_rechain: each line's pointer becomes the address after its terminator.
Rechained(m) ==
  LET chain[k \in 0 .. Cardinality(DOMAIN m)] ==
        IF k = 0 THEN [m |-> m, ptr |-> Start]
        ELSE LET c == chain[k - 1]
             IN IF c.ptr >= 49152 \/ Ram(c.m, c.ptr + 1) = 0 THEN c
                ELSE LET z == LineEnd(c.m, c.ptr)
                     IN [m |-> (c.ptr :> z % 256) @@ (c.ptr + 1 :> z \div 256) @@ c.m, ptr |-> z]
  IN chain[Cardinality(DOMAIN m)].m
FastLoad ==
  /\ ram = <<>> /\ got.fast # <<>>
  /\ LET b == got.fast[1]
         loaded == [a \in b.start .. b.start + Len(b.data) - 1 |-> b.data[a - b.start + 1]]
     IN /\ ram' = IF b.type = 0 THEN Rechained(loaded) ELSE loaded
        /\ vartab' = IF b.type = 0 THEN (EndOf(b) + 1) % 65536 ELSE vartab
  /\ UNCHANGED <<blocks, source, tape, reader, got>>

Init ==
  /\ \/ \E t \in Tapes, f \in Binaries : Fits(f) /\ blocks = Append(t, FromBinary(f)) /\ source = <<>>
     \/ \E l \in Listings, s \in Moved : source = l /\ blocks = <<FromBasic(l, <<65>>, s)>>
  /\ tape = Image(blocks)
  /\ reader = [m \in Modes |-> [at |-> 0, file |-> 0]] /\ got = [m \in Modes |-> <<>>]
  /\ ram = <<>> /\ vartab = 0
Next == FastLoad \/ \E m \in Modes : Read(m) \/ Rewind(m)
Spec == Init /\ [][Next]_vars

(* Properties. *)
Content(b) == [type |-> b.type, start |-> b.start, name |-> b.name, data |-> b.data]
\* Whatever mixture of modes, layouts, padding and rewinds, the blocks that come
\* off a tape are those that were put on it, in order.
BlocksReadBack ==
  \A m \in Modes : got[m] = SubSeq([i \in DOMAIN blocks |-> Content(blocks[i])], 1, Len(got[m]))

\* The lines that the chain in memory leads through, as LIST would show them.
Listed(m) ==
  LET Text(from, to) ==
        FlattenSeq([i \in 1 .. to - from |->
          LET b == Ram(m, from + i - 1) IN IF b >= 128 THEN Keywords[b - 127] ELSE <<b>>])
      walk[k \in 0 .. Cardinality(DOMAIN m)] ==
        IF k = 0 THEN [ptr |-> Start, out |-> <<>>]
        ELSE LET w == walk[k - 1]
                 next == Ram(m, w.ptr) + 256 * Ram(m, w.ptr + 1)
             IN IF Ram(m, w.ptr + 1) = 0 \/ next <= w.ptr + 4 \/ w.ptr \notin DOMAIN m THEN w
                ELSE [ptr |-> next,
                      out |-> Append(w.out, [number |-> Ram(m, w.ptr + 2) + 256 * Ram(m, w.ptr + 3),
                                             text |-> Upper(Text(w.ptr + 4, next - 1))])]
  IN walk[Cardinality(DOMAIN m)]
Typed(l) == [number |-> l.number, text |-> Upper(IF l.text # <<>> /\ l.text[1] = 32 THEN Tail(l.text) ELSE l.text)]
\* A BASIC source comes back in memory line by line after a fast load, wherever
\* its pointers were made for, and the variables start right after it.
ProgramRestored ==
  (ram # <<>> /\ source # <<>>) =>
    LET kept == Numbered(source) IN
    /\ Listed(ram).out = [i \in DOMAIN kept |-> Typed(kept[i])]
    /\ vartab = Listed(ram).ptr + 2
=============================================================================
