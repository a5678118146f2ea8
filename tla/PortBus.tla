------------------------------- MODULE PortBus ------------------------------
(* What hangs on port A of the VIA: the PSG, which its control lines CA2 and   *)
(* CB2 address (psg_decode of main.c), and the printer, whose strobe is CA2 as *)
(* well (printer.c), with the MCP-40 plotter behind it (mcp40.c).  The program *)
(* runs routines, one register of the VIA at a time.                          *)
EXTENDS Integers, Sequences, SequencesExt

CONSTANTS
  Uses,       \* what the program does: a subset of {"print", "sound"}
  Kind,       \* printer type: "text" or "plotter"
  Bytes,      \* the bytes it prints: letters, "0" to "3", ",", "CR"
  Letters,    \* those of them that are letters, upper case
  Registers,  \* the PSG registers it writes
  Values,     \* the values it writes to them
  Width, Height, ParamLen,  \* of the plotter: MCP40_WIDTH, MCP40_HEIGHT, room in param_buf
  MaxBytes    \* bound of the model: bytes printed, wanted or not

\* What the constants must satisfy.
PortBusAssumption ==
  /\ Uses \subseteq {"print", "sound"} /\ Kind \in {"text", "plotter"} /\ Letters \subseteq Bytes /\ Values \subseteq Bytes
  /\ "P" \in Letters /\ {"CR", "none"} \intersect Letters = {}
  /\ {Width, Height, ParamLen, MaxBytes} \subseteq Nat \ {0}

VARIABLES
  todo,       \* the register writes the routine has still to make
  ora, ca2, cb2,            \* VIA port A and the modes of the lines
  selected, registers,      \* the PSG
  strobeLow, paper,         \* the printer, and the bytes it took
  command, params,          \* the parser of the plotter: current_cmd or "none", param_buf
  pen, colour, size, lineType, drawn,  \* the plotter: drawn are the strokes and characters on the sheet
  exported,   \* the sheets written to the file, one over the other
  executed,   \* ghost: the commands it executed
  sent        \* ghost: the bytes the print routine was given, and where on the paper each is to be

plotter == <<command, params, pen, colour, size, lineType, drawn, exported, executed>>
vars == <<todo, ora, ca2, cb2, selected, registers, strobeLow, paper, plotter, sent>>

Init ==
  /\ todo = <<>> /\ ora = "none" /\ ca2 = "other" /\ cb2 = "other"
  /\ selected = "none" /\ registers = [r \in Registers |-> "none"]
  /\ strobeLow = FALSE /\ paper = <<>>
  /\ command = "none" /\ params = <<>> /\ pen = <<0, 0>> /\ colour = 0 /\ size = 1 /\ lineType = 0 /\ drawn = <<>>
  /\ exported = <<>> /\ executed = <<>> /\ sent = <<>>

-----------------------------------------------------------------------------
(* execute_command *)

Digits == {"0", "1", "2", "3"}
Value(c) == CHOOSE n \in 0..3 : <<"0", "1", "2", "3">>[n + 1] = c
\* atoi: the digits at the start; none is 0.
Number(cs) ==
  FoldLeft(LAMBDA a, c : IF a.ends \/ c \notin Digits THEN [a EXCEPT !.ends = TRUE] ELSE [a EXCEPT !.n = 10 * @ + Value(c)],
           [n |-> 0, ends |-> FALSE], cs).n
\* parse_coords: the fields between commas, the empty ones left out.
Fields(cs) ==
  LET split == FoldLeft(LAMBDA f, c : IF c = "," THEN Append(f, <<>>) ELSE Append(Front(f), Append(Last(f), c)), <<<<>>>>, cs)
  IN  SelectSeq(split, LAMBDA f : f # <<>>)
Clamped(n, limit) == IF n < 0 THEN 0 ELSE IF n >= limit THEN limit - 1 ELSE n
Points(cs) ==
  LET f == Fields(cs)
  IN  [i \in 1 .. Len(f) \div 2 |-> <<Clamped(Number(f[2 * i - 1]), Width), Clamped(Number(f[2 * i]), Height)>>]

\* A plotter's state after a command, as a record.
Plot == [pen |-> pen, colour |-> colour, size |-> size, lineType |-> lineType, drawn |-> drawn, exported |-> exported]
Done(c, cs) ==
  LET pts == Points(cs)
      chars(p) == [i \in DOMAIN cs |-> <<colour, size, <<pen[1] + 6 * size * (i - 1), pen[2]>>, cs[i]>>]
  IN  CASE c = "I" -> [pen |-> <<0, 0>>, colour |-> 0, size |-> 1, lineType |-> 0, drawn |-> <<>>,
                       exported |-> IF drawn # <<>> THEN Append(exported, drawn) ELSE exported]
        [] c = "H" -> [Plot EXCEPT !.pen = <<0, 0>>]
        [] c \in {"D", "M"} /\ pts # <<>> ->
             [Plot EXCEPT !.pen = Last(pts),
                          !.drawn = IF c = "M" THEN @
                                    ELSE @ \o [i \in DOMAIN pts |-> <<colour, lineType, IF i = 1 THEN pen ELSE pts[i - 1], pts[i]>>]]
        [] c = "J" -> [Plot EXCEPT !.colour = IF Number(cs) <= 3 THEN Number(cs) ELSE @]
        [] c = "L" -> [Plot EXCEPT !.lineType = IF Number(cs) <= 4 THEN Number(cs) ELSE @]
        [] c = "Q" -> [Plot EXCEPT !.size = IF Number(cs) \in 1..63 THEN Number(cs) ELSE @]
        [] c = "P" -> [Plot EXCEPT !.drawn = @ \o chars(pen), !.pen = <<@[1] + 6 * size * Len(cs), @[2]>>]
        [] OTHER   -> Plot

Execute ==
  LET p == Done(command, params)
  IN  /\ pen' = p.pen /\ colour' = p.colour /\ size' = p.size /\ lineType' = p.lineType
      /\ drawn' = p.drawn /\ exported' = p.exported
      /\ executed' = Append(executed, <<command, params>>)
Idles == UNCHANGED <<pen, colour, size, lineType, drawn, exported, executed>>

\* mcp40_receive_byte: a line end or the next letter ends a command, but after P
\* letters are text.
ReceiveAnyLetter(b) ==  \* faulty: a letter of the text of P starts a command
  CASE b = "CR" -> /\ IF command = "none" THEN Idles ELSE Execute
                   /\ command' = "none" /\ params' = <<>>
    [] b # "CR" /\ b \in Letters ->
                   /\ IF command = "none" THEN Idles ELSE Execute
                   /\ command' = b /\ params' = <<>>
    [] OTHER    -> /\ params' = (IF command = "none" \/ Len(params) >= ParamLen THEN params ELSE Append(params, b))
                   /\ UNCHANGED command /\ Idles
Receive(b) ==
  CASE b = "CR" -> /\ IF command = "none" THEN Idles ELSE Execute
                   /\ command' = "none" /\ params' = <<>>
    [] b # "CR" /\ b \in Letters /\ command # "P" ->
                   /\ IF command = "none" THEN Idles ELSE Execute
                   /\ command' = b /\ params' = <<>>
    [] OTHER    -> /\ params' = (IF command = "none" \/ Len(params) >= ParamLen THEN params ELSE Append(params, b))
                   /\ UNCHANGED command /\ Idles

-----------------------------------------------------------------------------
(* The two devices on a write of the control lines *)

\* psg_decode: CA2 high is BC1, CB2 high is BDIR.  A read, which only moves the
\* input of port A, is left out.
DecodePsg(a, b) ==
  /\ selected' = (IF b = "high" /\ a = "high" /\ ora \in Registers THEN ora ELSE selected)
  /\ registers' = (IF b = "high" /\ a # "high" /\ selected \in Registers
                   THEN [registers EXCEPT ![selected] = ora] ELSE registers)

\* oric_printer_check_strobe: a low and then a high CA2 take what is on port A.
CheckStrobe(a) ==
  IF a = "high" /\ strobeLow
  THEN /\ strobeLow' = FALSE /\ paper' = Append(paper, ora)
       /\ IF Kind = "plotter" THEN Receive(ora) ELSE UNCHANGED plotter
  ELSE /\ strobeLow' = (a = "low" \/ (strobeLow /\ a = ca2))
       /\ UNCHANGED <<paper, plotter>>

-----------------------------------------------------------------------------
(* The routines of the program *)

Strobed(b) == <<[ora |-> b], [ca2 |-> "low", cb2 |-> "low"], [ca2 |-> "high", cb2 |-> "low"]>>
Sound(r, v) == <<[ora |-> r], [ca2 |-> "high", cb2 |-> "high"], [ca2 |-> "low", cb2 |-> "low"],
                 [ora |-> v], [ca2 |-> "low", cb2 |-> "high"], [ca2 |-> "low", cb2 |-> "low"]>>

StartPrint(b) ==
  /\ todo = <<>> /\ "print" \in Uses /\ Len(sent) < MaxBytes
  /\ todo' = Strobed(b) /\ sent' = Append(sent, [byte |-> b, place |-> Len(paper) + 1])
  /\ UNCHANGED <<ora, ca2, cb2, selected, registers, strobeLow, paper, plotter>>
StartSound(r, v) ==
  /\ todo = <<>> /\ "sound" \in Uses /\ Len(paper) < MaxBytes
  /\ todo' = Sound(r, v)
  /\ UNCHANGED <<ora, ca2, cb2, selected, registers, strobeLow, paper, plotter, sent>>

WriteOra ==
  /\ todo # <<>> /\ "ora" \in DOMAIN Head(todo) /\ ora' = Head(todo).ora /\ todo' = Tail(todo)
  /\ UNCHANGED <<ca2, cb2, selected, registers, strobeLow, paper, plotter, sent>>
WritePcr ==
  /\ todo # <<>> /\ "ca2" \in DOMAIN Head(todo) /\ todo' = Tail(todo)
  /\ ca2' = Head(todo).ca2 /\ cb2' = Head(todo).cb2
  /\ DecodePsg(ca2', cb2') /\ CheckStrobe(ca2')
  /\ UNCHANGED <<ora, sent>>

Next ==
  \/ \E b \in Bytes : StartPrint(b)
  \/ \E r \in Registers, v \in Values : StartSound(r, v)
  \/ WriteOra \/ WritePcr
Spec == Init /\ [][Next]_vars

-----------------------------------------------------------------------------
(* Properties *)

\* Where commands start in a text: at letters, but for those behind a P in its line.
Starts(bytes) ==
  {i \in DOMAIN bytes : /\ bytes[i] \in Letters
                        /\ \A j \in 1..i - 1 : bytes[j] = "P" => \E k \in j..i : bytes[k] = "CR"}
\* e is the last byte of the command that starts at i.
EndsAt(bytes, i, e) ==
  /\ \A j \in i + 1..e : bytes[j] # "CR" /\ j \notin Starts(bytes)
  /\ e = Len(bytes) \/ bytes[e + 1] = "CR" \/ e + 1 \in Starts(bytes)
Cut(cs) == IF Len(cs) > ParamLen THEN SubSeq(cs, 1, ParamLen) ELSE cs
Command(bytes, i, e) == <<bytes[i], Cut(SubSeq(bytes, i + 1, e))>>
\* The commands of a text, in order: one for each start.
Means(bytes, commands) ==
  \E at \in [DOMAIN commands -> DOMAIN bytes] :
    /\ \A m, n \in DOMAIN commands : m < n => at[m] < at[n]
    /\ Starts(bytes) = {at[n] : n \in DOMAIN commands}
    /\ \A n \in DOMAIN commands :
         \E e \in at[n]..Len(bytes) : EndsAt(bytes, at[n], e) /\ commands[n] = Command(bytes, at[n], e)

\* The bytes the print routine was given are on the paper, each once, in order, when
\* it is done; whatever else is there is the number of a register, that a sound
\* routine had on port A when it raised CA2 after another had lowered it.
TakesPrinted ==
  /\ \A n \in DOMAIN sent : n < Len(sent) \/ todo = <<>> =>
       sent[n].place \in DOMAIN paper /\ paper[sent[n].place] = sent[n].byte
  /\ \A m, n \in DOMAIN sent : m < n => sent[m].place < sent[n].place
  /\ \A p \in DOMAIN paper : paper[p] \in Registers \/ \E n \in DOMAIN sent : sent[n].place = p

\* Printer and PSG share port A and CA2: no byte the program prints is lost, taken
\* twice or out of order for the sound it plays between, but the sound routines put
\* bytes of their own among them.  The plotter executes the commands of the bytes
\* the strobes took, those bytes included (printer.c:114-124, main.c:307-326), as
\* lines are meant: a row of letters with their parameters, and from a P on text.
PlotterObeys ==
  /\ TakesPrinted
  /\ Kind = "plotter" => Means(paper, executed \o (IF command = "none" THEN <<>> ELSE <<<<command, params>>>>))

=============================================================================
