------------------------------ MODULE MCDevices -----------------------------
(* The devices around the machine that share no variable of the models: a      *)
(* behaviour is one of the unit it chose, with the others as they start.       *)
(* Tapes have up to two blocks in both layouts, with and without padding,      *)
(* whose data hold sync and marker bytes; BASIC sources have keywords in words, *)
(* strings and remarks, and line numbers with a zero byte.                     *)
EXTENDS Integers, Sequences, TLC

CONSTANTS
  Units,
  Machines, MaxMoment, MaxSaves,                                           \* of SaveState
  Shapes, Periods, EnvRate, SampleRate, Half, MaxSteps,                    \* of Psg
  Listens, Guard, RxSize, CmdSize, Commands, MaxCalls, MaxBytes, MaxWire,  \* of HayesModem
  Scancodes, Position, Special, Modifiers, Chars, JoyKeys, Setups, KeyFrames, PauseFrames, MaxPressed, \* of KeyMatrix
  Uses, Kind, Printable, Letters, SoundRegisters, Values, Width, Height, ParamLen, MaxPrinted                   \* of PortBus
VARIABLES
  unit,
  blocks, source, tape, reader, got, ram, vartab,
  devices, machine, now, file, writes, unread, saved, loading, before,
  shape, envPeriod, step, envCounter, holding, volume, callback, asked, raced,
  listening, mode, line, peer, rx, cmd, echo, plus, silence, wire, calls, written, reached, told, dropped,
  layout, joyMode, matrix, pressed, pending, joy, text, index, wait, lastChar, debounce, done,
  held, awaited, pad, seen, mixed,
  todo, ora, ca2, cb2, selected, registers, strobeLow, paper, command, params, pen, colour, size, lineType,
  drawn, exported, executed, sent,
  words, failed, vram, bus, queue, given, canvas, expected

-----------------------------------------------------------------------------
(* Tapes *)

\* ASCII codes: F 70, O 79, R 82, T 84, E 69, M 77, " 34, = 61, space 32, $ 36, f 102, o 111, r 114.
Keywords == <<<<70, 79, 82>>, <<84, 79>>, <<82, 69, 77>>, <<61>>, <<79, 82>>>>
Rem == 130
Names == {<<>>, <<65>>, <<65, 66>>}
Addresses == {\h0100, \h0501, \h9F00}
Data == {<<7, 9>>, <<22, 36, 0>>, <<36, 22, 22, 22>>}
Block(form, pad_, type, start, name, data) ==
  [form |-> form, pad |-> pad_, type |-> type, start |-> start, name |-> name, data |-> data]
Tapes ==
  {<<Block(f[1], f[2], t, a, n, d)>> :
     f \in {<<"tool", 0>>, <<"tool", 2>>, <<"rom", 0>>, <<"rom", 3>>}, t \in {0, 192},
     a \in Addresses, n \in Names, d \in Data}
Binaries == {[data |-> <<22, 16>>, start |-> \h0501, name |-> n] : n \in Names}
Listings ==
  LET texts == {<<>>, <<102, 111, 114, 61, 84, 79>>, <<84, 79, 84, 61>>, <<34, 84, 79, 34, 84, 79>>,
                <<32, 82, 69, 77, 111, 114>>, <<82, 69, 77, 32, 111, 114, 61>>, <<70, 79, 82, 36>>}
      lines == {[number |-> n, text |-> t] : n \in {0, 10, 256, 261}, t \in texts}
  IN {<<l>> : l \in lines} \union {<<l, m>> : l, m \in lines}

Tape == INSTANCE TapeFile WITH Moved <- {0, 3, \h1000}, NameLen <- 4, RawLen <- 20
tapeVars == <<blocks, source, tape, reader, got, ram, vartab>>

-----------------------------------------------------------------------------
(* Save states *)

State == INSTANCE SaveState WITH pending <- writes
stateVars == <<devices, machine, now, file, writes, unread, saved, loading, before>>

-----------------------------------------------------------------------------
(* The sound chip *)

Sound == INSTANCE Psg
soundVars ==
  <<shape, envPeriod, step, envCounter, holding, volume, callback, asked, raced>>

-----------------------------------------------------------------------------
(* The Hayes modem, that answers calls *)

Modem == INSTANCE HayesModem
modemVars ==
  <<listening, mode, line, peer, rx, cmd, echo, plus, silence, wire, calls, written, reached, told, dropped>>

-----------------------------------------------------------------------------
(* Keyboard and joystick: three keys and a modifier, five texts to type *)

MCScancodes == {"a", "one", "up", "lshift"}
MCPosition  == [a |-> "A", one |-> "1", up |-> "UPKEY", lshift |-> "SHIFT"]
MCSpecial   == [a |-> "none", one |-> "none", up |-> "UPKEY", lshift |-> "none"]
MCJoyKeys   == [a |-> "none", one |-> "none", up |-> "UP", lshift |-> "none"]
MCChars == [a |-> [key |-> "A", shift |-> FALSE], bang |-> [key |-> "1", shift |-> TRUE],
            b |-> [key |-> "B", shift |-> FALSE]]
Texts == {<<>>, <<"a", "a", "b">>, <<"a", "RET", "a", "a">>, <<"bang", "PAUSE", "bang", "a">>, <<"a", "a", "a">>}
MCSetups ==
  {[layout |-> l, joystick |-> j, text |-> <<>>] : l \in {"qwerty", "symbolic"}, j \in {"off", "keys"}}
  \union {[layout |-> "symbolic", joystick |-> "off", text |-> t] : t \in Texts}
  \union {[layout |-> "qwerty", joystick |-> "pad", text |-> <<>>]}

Keys == INSTANCE KeyMatrix
keysVars ==
  <<layout, joyMode, matrix, pressed, pending, joy, text, index, wait, lastChar, debounce, done,
    held, awaited, pad, seen, mixed>>

-----------------------------------------------------------------------------
(* VIA port A with the plotter, and a program that also plays *)

Port == INSTANCE PortBus WITH Bytes <- Printable, Registers <- SoundRegisters, MaxBytes <- MaxPrinted
portVars ==
  <<todo, ora, ca2, cb2, selected, registers, strobeLow, paper, command, params, pen, colour, size, lineType,
    drawn, exported, executed, sent>>

-----------------------------------------------------------------------------
(* The blitter and the video memory, at the ends of the memory and of its lines, *)
(* on machines with the ROM, the RAM or a Microdisc ROM at the top               *)

Three(reg, n) == <<<<reg, 0, n % 256>>, <<reg, 1, (n \div 256) % 256>>, <<reg, 2, n \div 65536>>>>
At(x, y) == x + 256 * y
Draw(opcode, arg1, arg2, arg3, arg4) ==
  Three("ARG1", arg1) \o Three("ARG2", arg2) \o Three("ARG3", arg3) \o Three("ARG4", arg4)
  \o <<<<"OP", 0, opcode>>, <<"TRIGGER", 0, 0>>>>
Dma(way, src, dst, length) ==
  Three("SRC", src) \o Three("DST", dst) \o <<<<"LEN", 0, length>>, <<"LEN", 1, 0>>, <<way, 0, 1>>>>
End == \hFFFFFF
Drawings ==
  {Draw(1, base, length, 7, 0) : base \in {0, End}, length \in {0, 2}}
  \union {Draw(2, base, At(x, 1), wh, 5) : base \in {0, End - 512}, x \in {0, 1}, wh \in {At(0, 2), At(1, 2), At(3, 1)}}
  \union {Draw(3, 0, to, At(2, 2), 0) : to \in {2, 1030}}
  \union {Draw(4, 0, At(1, 1), to, 11) : to \in {At(1, 1), At(4, 2), At(0, 4), At(3, 3), At(5, 0), At(1, 3)}}
  \union {Draw(5, 0, 4096, text_, At(1, 0) + 65536 * 9) : text_ \in {8192, 8193}}
  \union {Draw(9, 0, 0, 0, 0), Three("ADDR", End) \o <<<<"DATA", 0, 18>>, <<"READ", 0, 0>>, <<"DATA", 0, 52>>>>}
Moves ==
  {Dma("DMA_IN", src, dst, 4) : src \in {\hBFFE, \h1FFFE}, dst \in {0, End - 1}}
  \union {Dma("DMA_OUT", End - 1, dst, 4) : dst \in {\hBFFE, \hDFFE, End - 1}}
  \union {Dma("DMA_OUT", 0, \h2FFFE, 0)}
Blitter == INSTANCE Graphics WITH
  Rom <- LAMBDA addr : 34, DiskRom <- LAMBDA addr : 51, Requests <- Drawings \union Moves,
  Memories <- {[cells |-> <<>>, romdis |-> d[1], diskrom |-> d[2], overlay |-> d[3]] :
                 d \in {<<FALSE, FALSE, 0>>, <<TRUE, FALSE, 0>>, <<TRUE, TRUE, 8192>>, <<TRUE, TRUE, 1>>}},
  Picture <- (4096 + 8 :> 129) @@ (4096 + 17 :> 64) @@ (8192 :> 1) @@ (8193 :> 2) @@ (1 :> 171) @@ (512 :> 205),
  DmaMax <- 5, MaxText <- 2, MaxRequests <- 2
blitterVars == <<words, failed, vram, bus, queue, given, canvas, expected>>

-----------------------------------------------------------------------------

ASSUME UnitsAssumption ==
  /\ State!SaveStateAssumption /\ Sound!PsgAssumption /\ Modem!HayesAssumption
  /\ Keys!KeyMatrixAssumption /\ Port!PortBusAssumption

Blank == tape = <<>> /\ blocks = <<>> /\ source = <<>> /\ ram = <<>> /\ vartab = 0 /\ reader = <<>> /\ got = <<>>
NoBlitter ==
  /\ words = <<>> /\ failed = FALSE /\ vram = <<>> /\ bus = <<>> /\ queue = <<>> /\ given = 0
  /\ canvas = <<>> /\ expected = <<>>
DeviceInit ==
  /\ unit \in Units
  /\ IF unit = "tape" THEN Tape!Init ELSE Blank
  /\ State!Init /\ (unit # "state" => devices = {})
  /\ Sound!Init /\ Modem!Init
  /\ Keys!Init /\ (unit # "keys" => layout = "qwerty" /\ joyMode = "off")
  /\ Port!Init
  /\ IF unit = "blitter" THEN Blitter!Init ELSE NoBlitter

DeviceNext ==
  /\ UNCHANGED unit
  /\ \/ unit = "tape" /\ Tape!Next /\ UNCHANGED <<stateVars, soundVars, modemVars, keysVars, portVars, blitterVars>>
     \/ unit = "state" /\ State!Next /\ UNCHANGED <<tapeVars, soundVars, modemVars, keysVars, portVars, blitterVars>>
     \/ unit = "sound" /\ Sound!Next /\ UNCHANGED <<tapeVars, stateVars, modemVars, keysVars, portVars, blitterVars>>
     \/ unit = "modem" /\ ~dropped /\ Modem!Next /\ UNCHANGED <<tapeVars, stateVars, soundVars, keysVars, portVars, blitterVars>>
     \/ unit = "keys" /\ Keys!Next /\ UNCHANGED <<tapeVars, stateVars, soundVars, modemVars, portVars, blitterVars>>
     \/ unit = "port" /\ Port!Next /\ UNCHANGED <<tapeVars, stateVars, soundVars, modemVars, keysVars, blitterVars>>
     \/ unit = "blitter" /\ Blitter!Next /\ UNCHANGED <<tapeVars, stateVars, soundVars, modemVars, keysVars, portVars>>

devicesVars == <<unit, tapeVars, stateVars, soundVars, modemVars, keysVars, portVars, blitterVars>>
DeviceSpec == DeviceInit /\ [][DeviceNext]_devicesVars

\* A tape read in either mode, with rewinds, gives back the blocks put on it, in order.
BlocksReadBack == unit = "tape" => Tape!BlocksReadBack
\* A fast-loaded BASIC program chains through the lines it was made from, with the
\* variables right after it.
ProgramRestored == unit = "tape" => Tape!ProgramRestored
\* A load that is accepted brings back all that the sections of one completed save
\* carry, and leaves the rest of the machine as it was.
SectionsOfOneSave == unit = "state" => State!SectionsOfOneSave
\* Under the shapes without a hold bit the volume is the data sheet's, step by step,
\* whatever periods were written meanwhile and in whatever chunks it was generated.
EnvelopeRight == unit = "sound" => Sound!EnvelopeRight
\* What the machine sends in data mode gets to the peer of that connection and to no
\* other, whole and in order, but for the "+"s of an escape that is not over.
DataReachesPeer == unit = "modem" => Modem!DataReachesPeer
\* The reports tell the machine, once read, whether it talks to the peer or to the modem.
ReportsFollowMode == unit = "modem" => Modem!ReportsFollowMode
\* With every host key up, no key of the Oric's matrix and no joystick line stays down.
NothingStuck == unit = "keys" => Keys!NothingStuck
\* A text typed from the command line reaches the matrix as its characters, in order.
TypedInOrder == unit = "keys" => Keys!TypedInOrder
\* Every byte the program prints is taken once, in order, whatever it plays between;
\* and the plotter executes the commands of the bytes taken, those that the sound
\* routines leave among them included, each once, in order and with its parameters.
PlotterObeys == unit = "port" => Port!PlotterObeys
\* The video memory holds the picture the commands mean, and no DMA changes a byte of
\* the bus but those it is to write where RAM is.
PictureRight == unit = "blitter" => Blitter!PictureRight
=============================================================================
