------------------------------ MODULE KeyMatrix -----------------------------
(* What is pressed on the Oric: the key matrix, worked by the keys of the host *)
(* in either layout (keyboard.c) and by the text of --type-keys (main.c), and  *)
(* the joystick, worked by keys or by a game pad (joystick.c).                *)
EXTENDS Naturals, Sequences, SequencesExt

CONSTANTS
  Scancodes,  \* the keys of the host
  Position,   \* qwerty_tab: keys of the host -> keys of the matrix, or "none"
  Special,    \* special_keys: keys of the host -> keys of the matrix, or "none"
  Modifiers,  \* keys of the host that the symbolic layout ignores
  Chars,      \* char_map: characters -> [key, shift], the mapped ones
  JoyKeys,    \* keys of the host -> directions or "FIRE", or "none"
  Setups,     \* the options of the runs: [layout, joystick, text]
  KeyFrames, PauseFrames,  \* frames a typed key is held, 4, and a pause lasts, 50
  MaxPressed  \* ORIC_KB_MAX_PRESSED

\* What the constants must satisfy.
KeyMatrixAssumption ==
  /\ DOMAIN Position = Scancodes /\ DOMAIN Special = Scancodes /\ DOMAIN JoyKeys = Scancodes
  /\ Modifiers \subseteq Scancodes /\ MaxPressed \in Nat
  /\ {KeyFrames, PauseFrames} \subseteq Nat \ {0}

VARIABLES
  layout,     \* "qwerty" or "symbolic" (ORIC_KB_AZERTY)
  joyMode,    \* "off", "keys" or "pad"
  matrix,     \* the keys of the matrix that are down
  pressed,    \* pressed[]: [scancode, key, shift]
  pending,    \* pending_scancode, or "none"
  joy,        \* the lines of port_a_mask that are low
  text, index, wait, lastChar, debounce, done,  \* the type_keys fields, waits in frames
  held,       \* ghost: the keys of the host that are held
  awaited,    \* ghost: the keys whose text event has not arrived
  pad,        \* ghost: the pad, [x, y, hat, buttons]
  seen,       \* ghost: the presses a program that looks every frame sees
  mixed       \* ghost: somebody used the keys while the text was typed

typing == <<text, index, wait, lastChar, debounce, done>>
vars == <<layout, joyMode, matrix, pressed, pending, joy, typing, held, awaited, pad, seen, mixed>>

Centred == [x |-> "mid", y |-> "mid", hat |-> {}, buttons |-> {}]
Init ==
  /\ \E s \in Setups : layout = s.layout /\ joyMode = s.joystick /\ text = s.text
  /\ matrix = {} /\ pressed = <<>> /\ pending = "none" /\ joy = {}
  /\ index = 1 /\ wait = 0 /\ lastChar = "none" /\ debounce = 0 /\ done = (text = <<>>)
  /\ held = {} /\ awaited = {} /\ pad = Centred /\ seen = <<>> /\ mixed = FALSE

Mixes == mixed' = (mixed \/ ~done) /\ seen' = (IF done THEN seen ELSE <<>>)

-----------------------------------------------------------------------------
(* handle_symbolic *)

Without(sc) ==
  LET at == {i \in DOMAIN pressed : pressed[i].scancode = sc}
  IN  IF at = {} THEN pressed
      ELSE LET i == CHOOSE j \in at : \A k \in at : j <= k
           IN  Front([pressed EXCEPT ![i] = Last(pressed)])
With(list, entry) == IF Len(list) >= MaxPressed THEN list ELSE Append(list, entry)
Rebuilt(list) ==
  {list[i].key : i \in DOMAIN list} \union (IF \E i \in DOMAIN list : list[i].shift THEN {"SHIFT"} ELSE {})

Press(sc, key, shift) ==
  /\ pressed' = With(Without(sc), [scancode |-> sc, key |-> key, shift |-> shift])
  /\ matrix' = Rebuilt(pressed')

SymbolicDown(sc) ==
  IF Special[sc] # "none" THEN Press(sc, Special[sc], FALSE) /\ UNCHANGED pending
  ELSE /\ pending' = (IF sc \in Modifiers THEN pending ELSE sc)
       /\ UNCHANGED <<matrix, pressed>>

\* A release also ends the wait for the text of the key.
SymbolicUpKeepsPending(sc) ==  \* faulty: the wait goes on
  /\ UNCHANGED pending
  /\ pressed' = Without(sc) /\ matrix' = Rebuilt(pressed')
SymbolicUp(sc) ==
  /\ pending' = (IF pending = sc THEN "none" ELSE pending)
  /\ pressed' = Without(sc) /\ matrix' = Rebuilt(pressed')

(* handle_qwerty *)
PositionalKey(sc, down) ==
  /\ matrix' = (IF down THEN matrix \union ({Position[sc]} \ {"none"}) ELSE matrix \ {Position[sc]})
  /\ UNCHANGED <<pressed, pending>>

\* A character arrives as text: it belongs to the key that is pending.
TextInput(c) ==
  /\ \E sc \in awaited : awaited' = awaited \ {sc}
  /\ IF layout = "symbolic" /\ c \in DOMAIN Chars /\ pending # "none"
     THEN Press(pending, Chars[c].key, Chars[c].shift) /\ pending' = "none"
     ELSE UNCHANGED <<matrix, pressed, pending>>
  /\ Mixes
  /\ UNCHANGED <<layout, joyMode, joy, typing, held, pad>>

-----------------------------------------------------------------------------
(* The event loop of main.c: a key the joystick takes does not get to the      *)
(* keyboard.  In keys mode the joystick takes its own.                        *)

Taken(sc) == joyMode = "keys" /\ JoyKeys[sc] # "none"

KeyDown(sc) ==
  /\ held' = held \union {sc}       \* or the repetition of one that is held
  /\ Mixes
  /\ IF Taken(sc)
     THEN joy' = joy \union {JoyKeys[sc]} /\ UNCHANGED <<matrix, pressed, pending, awaited>>
     ELSE /\ IF layout = "symbolic" THEN SymbolicDown(sc) ELSE PositionalKey(sc, TRUE)
          /\ awaited' = (IF Special[sc] = "none" /\ sc \notin Modifiers THEN awaited \union {sc} ELSE awaited)
          /\ UNCHANGED joy
  /\ UNCHANGED <<layout, joyMode, typing, pad>>

KeyUp(sc) ==
  /\ sc \in held /\ held' = held \ {sc}
  /\ Mixes
  /\ IF Taken(sc)
     THEN joy' = joy \ {JoyKeys[sc]} /\ UNCHANGED <<matrix, pressed, pending>>
     ELSE (IF layout = "symbolic" THEN SymbolicUp(sc) ELSE PositionalKey(sc, FALSE)) /\ UNCHANGED joy
  /\ UNCHANGED <<layout, joyMode, typing, awaited, pad>>

(* oric_joystick_handle_sdl_event, in pad mode: a control first lets go of its *)
(* lines and then takes the new ones.                                         *)
Pads(lets, takes) ==
  /\ joyMode = "pad" /\ joy' = (joy \ lets) \union takes
  /\ UNCHANGED <<layout, joyMode, matrix, pressed, pending, typing, held, awaited, seen, mixed>>
PadX(d) == Pads({"LEFT", "RIGHT"}, {d} \ {"mid"}) /\ pad' = [pad EXCEPT !.x = d]
PadY(d) == Pads({"UP", "DOWN"}, {d} \ {"mid"}) /\ pad' = [pad EXCEPT !.y = d]
PadHat(dirs) == Pads({"UP", "DOWN", "LEFT", "RIGHT"}, dirs) /\ pad' = [pad EXCEPT !.hat = dirs]
PadDown(b) == Pads({}, {b}) /\ pad' = [pad EXCEPT !.buttons = @ \union {b}]
PadUp(b) == b \in pad.buttons /\ Pads({b}, {}) /\ pad' = [pad EXCEPT !.buttons = @ \ {b}]

-----------------------------------------------------------------------------
(* --type-keys, looked at once a frame.  In a text "RET" is "\n" and "PAUSE"   *)
(* "\p1".                                                                     *)

CharKeys(c) == {Chars[c].key} \union (IF Chars[c].shift THEN {"SHIFT"} ELSE {})

\* Which keys are down after the frame, and how many frames until the next look.
Types(keys, frames) == matrix' = keys /\ wait' = frames - 1

TypesSame(c) ==
  /\ c = lastChar
  /\ Types({}, 1) /\ debounce' = 1 /\ lastChar' = "none" /\ UNCHANGED <<index, done>>
TypesNext(c) ==
  /\ c # lastChar
  /\ Types(CharKeys(c), KeyFrames) /\ lastChar' = c /\ index' = index + 1 /\ UNCHANGED <<debounce, done>>
TypesCharAtOnce(c) ==  \* faulty: the same character again is pressed at once
  \/ debounce > 0 /\ Types({}, 1) /\ debounce' = debounce - 1 /\ UNCHANGED <<index, lastChar, done>>
  \/ Types(CharKeys(c), KeyFrames) /\ lastChar' = c /\ index' = index + 1 /\ UNCHANGED <<debounce, done>>
TypesChar(c) ==
  \/ debounce > 0 /\ Types({}, 1) /\ debounce' = debounce - 1 /\ UNCHANGED <<index, lastChar, done>>
  \/ debounce = 0 /\ (TypesSame(c) \/ TypesNext(c))

TypeFrame ==
  IF index > Len(text) THEN Types({}, 1) /\ done' = TRUE /\ UNCHANGED <<index, lastChar, debounce>>
  ELSE CASE text[index] = "RET"   -> Types({"RETURN"}, KeyFrames) /\ index' = index + 1 /\ UNCHANGED <<lastChar, debounce, done>>
         [] text[index] = "PAUSE" -> Types({}, PauseFrames) /\ index' = index + 1 /\ UNCHANGED <<lastChar, debounce, done>>
         [] OTHER                 -> TypesChar(text[index])

\* The end of a frame.  The program sees a press where a key was not down before.
Frame ==
  /\ ~done
  /\ IF wait > 0 THEN wait' = wait - 1 /\ UNCHANGED <<matrix, index, lastChar, debounce, done>>
     ELSE TypeFrame
  /\ seen' = (IF mixed THEN seen ELSE seen \o SetToSeq((matrix' \ matrix) \ {"SHIFT"}))
  /\ UNCHANGED <<layout, joyMode, pressed, pending, joy, text, held, awaited, pad, mixed>>

Next ==
  \/ \E sc \in Scancodes : KeyDown(sc) \/ KeyUp(sc)
  \/ \E c \in DOMAIN Chars \union {"unmapped"} : TextInput(c)
  \/ \E d \in {"LEFT", "mid", "RIGHT"} : PadX(d)
  \/ \E d \in {"UP", "mid", "DOWN"} : PadY(d)
  \/ \E dirs \in {{}, {"UP"}, {"UP", "LEFT"}} : PadHat(dirs)
  \/ \E b \in {"LEFT", "FIRE"} : PadDown(b) \/ PadUp(b)
  \/ Frame
Spec == Init /\ [][Next]_vars

-----------------------------------------------------------------------------
(* Properties *)

\* When nothing is held any more nothing is down on the Oric, in whatever order
\* keys went down and up and their text arrived, and whatever was typed meanwhile.
NothingStuck ==
  /\ (held = {} /\ done) => matrix = {}
  /\ (held = {} /\ pad = Centred) => joy = {}

\* The program sees every character of a text, once and in order.
KeyOf(c) == CASE c = "RET" -> <<"RETURN">> [] c = "PAUSE" -> <<>> [] OTHER -> <<Chars[c].key>>
KeysOf(t, n) ==
  LET upTo[k \in 0..n] == IF k = 0 THEN <<>> ELSE upTo[k - 1] \o KeyOf(t[k])
  IN  upTo[n]
TypedInOrder == ~mixed => seen = KeysOf(text, index - 1)

=============================================================================
