---------------------------- MODULE DeviceProofs ----------------------------
(* The Hayes modem, the keys and the save states, as the parts of MCDevices the *)
(* runs check, for every size of buffer, every set of keys, characters and      *)
(* texts, and machines with any of the devices.                                *)
EXTENDS MCDevices, TLAPS, SequenceTheorems

-----------------------------------------------------------------------------
(* The modem *)

Items == Modem!Reports \cup {"echo", "OK", "ERROR", "data"}

\* The carrier stands for as long as there is a line, and a "+" is held back in
\* data mode only: otherwise ATZ, which forgets it, would lose what was sent.
CarrierInv ==
  /\ mode = "data" => line # 0
  /\ line # 0 /\ mode = "command" => plus = 0
ModemTypes ==
  /\ mode \in {"command", "data"} /\ line \in Nat /\ calls \in Nat /\ plus \in 0..2
  /\ rx \in Seq(Items) /\ written \in Seq(Modem!Data) /\ reached \in Seq(Modem!Data)
  /\ dropped \in BOOLEAN
ModemInv == ModemTypes /\ CarrierInv /\ Modem!DataReachesPeer /\ Modem!ReportsFollowMode

-----------------------------------------------------------------------------
(* The keys *)

Entries ==
  [scancode : Scancodes,
   key : {Special[sc] : sc \in Scancodes} \cup {Chars[c].key : c \in DOMAIN Chars},
   shift : {FALSE} \cup {Chars[c].shift : c \in DOMAIN Chars}]

\* The keys of the host that are held and that the keyboard sees.
Seen == {sc \in held : ~Keys!Taken(sc)}

\* Every entry of a table is a key's of S, and no two are of the same one: the
\* release of a key takes all it put there.
Owned(table, S) ==
  /\ table \in Seq(Entries)
  /\ \A i \in 1..Len(table) : table[i].scancode \in S
  /\ \A i, j \in 1..Len(table) : table[i].scancode = table[j].scancode => i = j
TableInv ==
  /\ held \subseteq Scancodes /\ Owned(pressed, Seen)
  /\ pending # "none" => pending \in Seen
  /\ layout # "symbolic" => (pressed = <<>> /\ pending = "none")

\* What is down on the matrix is due to keys that are held, once nothing is typed.
MatrixInv ==
  done => matrix \subseteq IF layout = "symbolic" THEN Keys!Rebuilt(pressed) ELSE {Position[sc] : sc \in Seen}

\* What is down on the joystick is due to the keys it takes or to the pad.
JoyInv ==
  /\ joyMode = "keys" => joy \subseteq {JoyKeys[sc] : sc \in {k \in held : Keys!Taken(k)}}
  /\ joyMode = "pad" => joy \subseteq ({pad.x, pad.y} \ {"mid"}) \cup pad.hat \cup pad.buttons
  /\ joyMode \notin {"keys", "pad"} => joy = {}
  /\ pad \in [x : {"LEFT", "mid", "RIGHT"}, y : {"UP", "mid", "DOWN"},
              hat : SUBSET {"UP", "DOWN", "LEFT", "RIGHT"}, buttons : SUBSET {"LEFT", "FIRE"}]
KeysInv == TableInv /\ MatrixInv /\ JoyInv

-----------------------------------------------------------------------------
(* Save states *)

\* A sequence that has each tag of a set, once.
Lists(s, T) ==
  /\ s \in Seq(T)
  /\ \A i, j \in 1..Len(s) : s[i] = s[j] => i = j
  /\ \A t \in T : \E i \in 1..Len(s) : s[i] = t

\* A machine dates from moments, part by part.
IsMachine(m) == m = [p \in State!Parts |-> m[p]] /\ \A p \in State!Stored : m[p] \in Nat
Sects == [tag : State!Stored, moment : Nat, sized : BOOLEAN]
\* What a machine with these devices saves.
Tags(d) ==
  {"CPU", "MEM", "VIA", "PSG", "VID", "KBD"} \cup (IF "disk" \in d THEN {"FDC", "MDC"} ELSE {})
  \cup {"TAP"} \cup (IF "serial" \in d THEN {"SER"} ELSE {}) \cup {"META"}
Devices == SUBSET {"disk", "serial"}

\* The sections of a machine that was saved.
Sec(s) == State!Sections(s.devices)
Of(s, i) == State!Section(Sec(s)[i], s.machine[Sec(s)[i]], TRUE)
UnsizedOf(s, i) == State!Section(Sec(s)[i], s.machine[Sec(s)[i]], FALSE)
IsSaveOf(s) == Len(file.body) = Len(Sec(s)) /\ \A i \in 1..Len(Sec(s)) : file.body[i] = Of(s, i)

MachineInv ==
  /\ devices \in Devices /\ IsMachine(machine) /\ now \in Nat
  /\ \A s \in saved : s.devices \in Devices /\ IsMachine(s.machine)

\* A file is whole only behind a CRC, and then it is what some machine saved.
FileInv ==
  /\ file = [body |-> file.body, whole |-> file.whole, crc |-> file.crc]
  /\ file.body \in Seq(Sects) /\ (file.whole => file.body # <<>>)
  /\ file.crc # <<>> => \E s \in saved : IsSaveOf(s)

\* While a save goes on, k sections are in the file and perhaps one without its size.
Saving(s, k) ==
  /\ Len(writes) = Len(Sec(s)) - k + 1
  /\ \A i \in 1..Len(writes) : writes[i] = IF k + i <= Len(Sec(s)) THEN Sec(s)[k + i] ELSE "crc"
  /\ \A i \in 1..k : file.body[i] = Of(s, i)
  /\ \/ Len(file.body) = k
     \/ Len(file.body) = k + 1 /\ k < Len(Sec(s)) /\ file.body[k + 1] = UnsizedOf(s, k + 1)
SavingInv ==
  writes # <<>> =>
    /\ file.crc = <<>>
    /\ \E s \in saved : /\ s.machine = machine /\ s.devices = devices
                        /\ \E k \in 0..Len(Sec(s)) : Saving(s, k)

\* While a load goes on, k sections of the file are in the machine.
Brought(s, k) ==
  /\ \A i \in 1..k : Sec(s)[i] # "META" => machine[Sec(s)[i]] = s.machine[Sec(s)[i]]
  /\ k >= 5 => machine["picture"] = <<s.machine["MEM"], s.machine["VID"]>>
  /\ \A i \in 1..k : Sec(s)[i] = "MDC" => machine["pointers"] = s.machine["MDC"] /\ machine["sector"] = State!NoSector
\* What none of them carries is as it was before the load.
Absent(s, k, p) == p = "META" \/ \A i \in 1..k : Sec(s)[i] # p
Kept(s, k) ==
  /\ \A p \in State!Stored \cup State!Unsaved : Absent(s, k, p) => machine[p] = before[p]
  /\ Absent(s, k, "MDC") => machine["pointers"] = before["pointers"] /\ machine["sector"] = before["sector"]
Loading(s, k) ==
  /\ Len(unread) = Len(Sec(s)) - k
  /\ \A i \in 1..Len(unread) : unread[i] = Of(s, k + i)
  /\ Brought(s, k) /\ Kept(s, k)
LoadingInv ==
  unread # <<>> => \E s \in saved : IsSaveOf(s) /\ \E k \in 0..Len(Sec(s)) : Loading(s, k)

QueuesInv ==
  /\ writes \in Seq(State!Stored \cup {"crc"}) /\ unread \in Seq(Sects)
  /\ writes = <<>> \/ unread = <<>>
StateInv == MachineInv /\ FileInv /\ QueuesInv /\ SavingInv /\ LoadingInv /\ State!SectionsOfOneSave

-----------------------------------------------------------------------------
(* What reports tell *)

Silent(items) == \A i \in 1..Len(items) : items[i] \notin Modem!Reports

LEMMA TellsMore ==
  ASSUME NEW buf \in Seq(Items), NEW items \in Seq(Items), NEW b, NEW m,
         Silent(items), Modem!Tells(buf, b, m)
  PROVE  Modem!Tells(buf \o items, b, m)
<1>. DEFINE all == buf \o items
<1>1. /\ all \in Seq(Items) /\ Len(all) = Len(buf) + Len(items) /\ Len(buf) \in Nat /\ Len(items) \in Nat
      /\ \A i \in 1..Len(all) : all[i] = IF i <= Len(buf) THEN buf[i] ELSE items[i - Len(buf)]
  BY ConcatProperties, LenProperties
<1>2. DOMAIN all = 1..Len(all) /\ DOMAIN buf = 1..Len(buf)
  BY <1>1, LenProperties
<1>. HIDE DEF all
<1>3. ASSUME NEW j \in DOMAIN all, j > Len(buf) PROVE all[j] \notin Modem!Reports
  <2>1. all[j] = items[j - Len(buf)] /\ j - Len(buf) \in 1..Len(items)
    BY <1>1, <1>2, <1>3
  <2>. QED BY <2>1 DEF Silent
<1>4. ASSUME NEW j \in DOMAIN all, ~(j > Len(buf)) PROVE j \in DOMAIN buf /\ all[j] = buf[j]
  BY <1>1, <1>2, <1>4
<1>5. ASSUME NEW j \in DOMAIN buf PROVE j \in DOMAIN all /\ all[j] = buf[j] /\ ~(j > Len(buf))
  BY <1>1, <1>2
<1>6. CASE m = b /\ \A i \in DOMAIN buf : buf[i] \notin Modem!Reports
  BY <1>3, <1>4, <1>6 DEF Modem!Tells, all
<1>7. ASSUME NEW i \in DOMAIN buf, buf[i] \in Modem!Reports, m = Modem!Speaks(buf[i]),
             \A j \in DOMAIN buf : j > i => buf[j] \notin Modem!Reports
      PROVE  Modem!Tells(all, b, m)
  <2>1. i \in DOMAIN all /\ all[i] = buf[i]
    BY <1>5
  <2>2. \A j \in DOMAIN all : j > i => all[j] \notin Modem!Reports
    BY <1>3, <1>4, <1>7
  <2>. QED BY <1>7, <2>1, <2>2 DEF Modem!Tells
<1>. QED BY <1>6, <1>7 DEF Modem!Tells, all

\* A report at the end says it, whatever was told before.
LEMMA TellsReport ==
  ASSUME NEW buf \in Seq(Items), NEW items \in Seq(Items), NEW r \in Modem!Reports, NEW b
  PROVE  Modem!Tells(buf \o Append(items, r), b, Modem!Speaks(r))
<1>. DEFINE last == Append(items, r)
            all  == buf \o last
<1>1. r \in Items
  BY DEF Items
<1>2. last \in Seq(Items) /\ Len(last) = Len(items) + 1 /\ last[Len(items) + 1] = r /\ Len(items) \in Nat
  BY <1>1, AppendProperties, LenProperties
<1>. HIDE DEF last
<1>3. /\ all \in Seq(Items) /\ Len(all) = Len(buf) + Len(last) /\ Len(buf) \in Nat
      /\ \A i \in 1..Len(all) : all[i] = IF i <= Len(buf) THEN buf[i] ELSE last[i - Len(buf)]
  <2>1. last \in Seq(Items) /\ Len(buf) \in Nat
    BY <1>2, LenProperties
  <2>2. /\ all \in Seq(Items) /\ Len(all) = Len(buf) + Len(last)
        /\ \A i \in 1..Len(buf) + Len(last) : all[i] = IF i <= Len(buf) THEN buf[i] ELSE last[i - Len(buf)]
    BY <2>1, ConcatProperties
  <2>. QED BY <2>1, <2>2
<1>4. DOMAIN all = 1..Len(all)
  BY <1>3, LenProperties
<1>. HIDE DEF all
<1>5. Len(all) \in DOMAIN all /\ all[Len(all)] = r
  <2>1. Len(all) \in 1..Len(all) /\ ~(Len(all) <= Len(buf)) /\ Len(all) - Len(buf) = Len(items) + 1
    BY <1>2, <1>3
  <2>2. all[Len(all)] = last[Len(all) - Len(buf)]
    BY <1>3, <2>1
  <2>. QED BY <1>2, <1>4, <2>1, <2>2
<1>6. \A j \in DOMAIN all : ~(j > Len(all))
  BY <1>3, <1>4
<1>7. Modem!Tells(all, b, Modem!Speaks(r))
  BY <1>5, <1>6 DEF Modem!Tells
<1>. QED BY <1>7 DEF all, last

\* Reading the first item changes who knows it and not what is said.
LEMMA TellsRead ==
  ASSUME NEW buf \in Seq(Items), buf # <<>>, NEW b, NEW m, Modem!Tells(buf, b, m)
  PROVE  Modem!Tells(Tail(buf), IF Head(buf) \in Modem!Reports THEN Modem!Speaks(Head(buf)) ELSE b, m)
<1>. DEFINE rest == Tail(buf)
            now2 == IF Head(buf) \in Modem!Reports THEN Modem!Speaks(Head(buf)) ELSE b
<1>1. /\ rest \in Seq(Items) /\ Len(rest) = Len(buf) - 1 /\ Head(buf) = buf[1]
      /\ \A i \in 1..Len(rest) : rest[i] = buf[i + 1]
  BY HeadTailProperties
<1>2. DOMAIN rest = 1..Len(rest) /\ DOMAIN buf = 1..Len(buf) /\ Len(buf) \in Nat \ {0}
  BY <1>1, LenProperties, EmptySeq
<1>. HIDE DEF rest
<1>3. ASSUME NEW j \in DOMAIN rest PROVE j + 1 \in DOMAIN buf /\ rest[j] = buf[j + 1] /\ j + 1 > 1
  BY <1>1, <1>2
<1>4. 1 \in DOMAIN buf
  BY <1>2
<1>5. CASE m = b /\ \A i \in DOMAIN buf : buf[i] \notin Modem!Reports
  <2>1. now2 = b
    BY <1>1, <1>4, <1>5
  <2>2. \A j \in DOMAIN rest : rest[j] \notin Modem!Reports
    BY <1>3, <1>5
  <2>. QED BY <1>5, <2>1, <2>2 DEF Modem!Tells, rest
<1>6. ASSUME NEW i \in DOMAIN buf, buf[i] \in Modem!Reports, m = Modem!Speaks(buf[i]),
             \A j \in DOMAIN buf : j > i => buf[j] \notin Modem!Reports
      PROVE  Modem!Tells(rest, now2, m)
  <2>1. CASE i = 1
    <3>1. now2 = m
      BY <1>1, <1>6, <2>1
    <3>2. \A j \in DOMAIN rest : rest[j] \notin Modem!Reports
      BY <1>3, <1>6, <2>1
    <3>. QED BY <3>1, <3>2 DEF Modem!Tells
  <2>2. CASE i # 1
    <3>1. i - 1 \in DOMAIN rest /\ rest[i - 1] = buf[i]
      BY <1>1, <1>2, <2>2
    <3>2. ASSUME NEW j \in DOMAIN rest, j > i - 1 PROVE rest[j] \notin Modem!Reports
      <4>1. j + 1 \in DOMAIN buf /\ rest[j] = buf[j + 1] /\ j + 1 > i
        BY <1>2, <1>3, <3>2
      <4>. QED BY <1>6, <4>1
    <3>3. \A j \in DOMAIN rest : j > i - 1 => rest[j] \notin Modem!Reports
      BY <3>2
    <3>. QED BY <1>6, <3>1, <3>3 DEF Modem!Tells
  <2>. QED BY <2>1, <2>2
<1>. QED BY <1>5, <1>6 DEF Modem!Tells, rest

-----------------------------------------------------------------------------
(* The modem's steps *)

\* What fits is pushed whole; what does not is owned up to by the model's ghost.
LEMMA PushKeeps ==
  ASSUME ModemTypes, NEW items \in Seq(Items), Modem!Pushes(items)
  PROVE  /\ rx' \in Seq(Items) /\ dropped' \in BOOLEAN
         /\ ~dropped' => ~dropped /\ rx' = rx \o items
<1>. DEFINE all == rx \o items
<1>1. all \in Seq(Items) /\ Len(all) \in Nat
  BY ConcatProperties, LenProperties DEF ModemTypes
<1>2. dropped' = (dropped \/ Len(all) > RxSize) /\ rx' = IF Len(all) > RxSize THEN SubSeq(all, 1, RxSize) ELSE all
  BY DEF Modem!Pushes, Modem!Push
<1>3. ASSUME Len(all) > RxSize PROVE SubSeq(all, 1, RxSize) \in Seq(Items)
  <2>1. RxSize \in Nat \ {0}
    BY UnitsAssumption DEF Modem!HayesAssumption
  <2>. HIDE DEF all
  <2>2. 1 \in 1..Len(all) + 1 /\ RxSize \in 0..Len(all)
    BY <1>1, <1>3, <2>1
  <2>. QED BY <1>1, <2>2, SubSeqProperties
<1>. HIDE DEF all
<1>4. rx' \in Seq(Items)
  BY <1>1, <1>2, <1>3
<1>5. dropped' \in BOOLEAN
  BY <1>2 DEF ModemTypes
<1>6. ~dropped' => ~dropped /\ rx' = all
  BY <1>2
<1>. QED BY <1>4, <1>5, <1>6 DEF all

LEMMA OneItem == ASSUME NEW x \in Items PROVE Append(<<>>, x) \in Seq(Items) /\ Len(Append(<<>>, x)) = 1
<1>1. <<>> \in Seq(Items) /\ Len(<<>>) = 0
  BY EmptySeq
<1>2. Append(<<>>, x) \in Seq(Items) /\ Len(Append(<<>>, x)) = Len(<<>>) + 1
  BY <1>1, AppendProperties
<1>. QED BY <1>1, <1>2

\* The two ways the buffer grows: with nothing said, the mode as it was; and with
\* a report last, which says the new mode.
LEMMA SilentPush ==
  ASSUME ModemTypes, Modem!ReportsFollowMode, NEW items \in Seq(Items), Silent(items),
         Modem!Pushes(items), told' = told, mode' = mode
  PROVE  Modem!ReportsFollowMode'
BY PushKeeps, TellsMore DEF Modem!ReportsFollowMode, ModemTypes

LEMMA ReportPush ==
  ASSUME ModemTypes, NEW items \in Seq(Items), NEW r \in Modem!Reports,
         Modem!Pushes(Append(items, r)), mode' = Modem!Speaks(r)
  PROVE  Modem!ReportsFollowMode'
<1>1. Append(items, r) \in Seq(Items)
  BY AppendProperties DEF Items
<1>2. ~dropped' => rx' = rx \o Append(items, r)
  BY <1>1, PushKeeps
<1>3. Modem!Tells(rx \o Append(items, r), told', Modem!Speaks(r))
  BY TellsReport DEF ModemTypes
<1>. QED BY <1>2, <1>3 DEF Modem!ReportsFollowMode

LEMMA AppendConcat ==
  ASSUME NEW s \in Seq(Modem!Data), NEW t \in Seq(Modem!Data), NEW x \in Modem!Data
  PROVE  Append(s \o t, x) = s \o Append(t, x)
<1>1. <<x>> \in Seq(Modem!Data) /\ s \o t \in Seq(Modem!Data)
  BY ConcatProperties
<1>2. Append(s \o t, x) = (s \o t) \o <<x>> /\ Append(t, x) = t \o <<x>>
  BY <1>1, AppendIsConcat
<1>. QED BY <1>1, <1>2, ConcatAssociative

\* The "+"s held back, as SendEscape and SendData count them.
Pluses(n) == [i \in 1..n |-> "+"]
LEMMA PlusesProperties ==
  /\ \A n \in Nat : Pluses(n) \in Seq(Modem!Data) /\ Len(Pluses(n)) = n
  /\ \A n \in Nat : Append(Pluses(n), "+") = Pluses(n + 1)
  /\ \A s \in Seq(Modem!Data) : s \o Pluses(0) = s
<1>1. ASSUME NEW n \in Nat PROVE Pluses(n) \in Seq(Modem!Data) /\ Len(Pluses(n)) = n
  <2>1. Pluses(n) \in [1..n -> Modem!Data]
    BY DEF Pluses, Modem!Data
  <2>. QED BY <2>1, LenProperties
<1>2. ASSUME NEW n \in Nat PROVE Append(Pluses(n), "+") = Pluses(n + 1)
  <2>. DEFINE s == Append(Pluses(n), "+")
  <2>1. /\ s \in Seq(Modem!Data) /\ Len(s) = n + 1 /\ s[n + 1] = "+"
        /\ \A i \in 1..n : s[i] = Pluses(n)[i]
    BY <1>1, AppendProperties DEF Modem!Data
  <2>2. Pluses(n + 1) \in Seq(Modem!Data) /\ Len(Pluses(n + 1)) = n + 1
    <3>1. n + 1 \in Nat
      OBVIOUS
    <3>. QED BY <1>1, <3>1
  <2>. HIDE DEF s
  <2>3. ASSUME NEW i \in 1..n + 1 PROVE s[i] = Pluses(n + 1)[i]
    BY <2>1 DEF Pluses
  <2>4. s = Pluses(n + 1)
    BY <2>1, <2>2, <2>3, SeqEqual
  <2>. QED BY <2>4 DEF s
<1>3. ASSUME NEW s \in Seq(Modem!Data) PROVE s \o Pluses(0) = s
  <2>1. Pluses(0) = <<>>
    BY <1>1, EmptySeq
  <2>. QED BY <2>1, ConcatEmptySeq
<1>. QED BY <1>1, <1>2, <1>3

LEMMA OneMorePlus ==
  ASSUME NEW s \in Seq(Modem!Data), NEW n \in Nat
  PROVE  Append(s \o Pluses(n), "+") = s \o Pluses(n + 1)
<1>1. Pluses(n) \in Seq(Modem!Data) /\ Append(Pluses(n), "+") = Pluses(n + 1)
  BY PlusesProperties
<1>2. "+" \in Modem!Data
  BY DEF Modem!Data
<1>3. \A p \in Seq(Modem!Data), x \in Modem!Data : Append(s \o p, x) = s \o Append(p, x)
  BY AppendConcat
<1>. HIDE DEF Pluses
<1>. QED BY <1>1, <1>2, <1>3

LEMMA Zero == 0 \in Nat /\ 0 \in 0..2
OBVIOUS

LEMMA EchoSilent ==
  /\ Modem!Echoed \in Seq(Items) /\ Silent(Modem!Echoed)
  /\ Modem!Echoed \o Modem!Echoed \in Seq(Items) /\ Silent(Modem!Echoed \o Modem!Echoed)
<1>1. ASSUME NEW s \in Seq(Items), Silent(s) PROVE s \o s \in Seq(Items) /\ Silent(s \o s)
  <2>1. /\ s \o s \in Seq(Items) /\ Len(s \o s) = Len(s) + Len(s) /\ Len(s) \in Nat
        /\ \A i \in 1..Len(s) + Len(s) : (s \o s)[i] = IF i <= Len(s) THEN s[i] ELSE s[i - Len(s)]
    BY ConcatProperties, LenProperties
  <2>2. ASSUME NEW i \in 1..Len(s) + Len(s) PROVE (s \o s)[i] \notin Modem!Reports
    <3>1. CASE i <= Len(s)
      BY <1>1, <2>1, <3>1 DEF Silent
    <3>2. CASE ~(i <= Len(s))
      <4>1. i - Len(s) \in 1..Len(s)
        BY <2>1, <3>2
      <4>. QED BY <1>1, <2>1, <3>2, <4>1 DEF Silent
    <3>. QED BY <3>1, <3>2
  <2>. QED BY <2>1, <2>2 DEF Silent
<1>2. <<>> \in Seq(Items) /\ Silent(<<>>)
  BY EmptySeq DEF Silent
<1>3. <<"echo">> \in Seq(Items) /\ Silent(<<"echo">>)
  <2>1. "echo" \in Items /\ "echo" \notin Modem!Reports
    BY DEF Items, Modem!Reports
  <2>2. Len(<<"echo">>) = 1 /\ <<"echo">>[1] = "echo" /\ <<"echo">> \in Seq(Items)
    BY <2>1
  <2>. QED BY <2>1, <2>2 DEF Silent
<1>4. Modem!Echoed \in Seq(Items) /\ Silent(Modem!Echoed)
  BY <1>2, <1>3 DEF Modem!Echoed
<1>. QED BY <1>1, <1>4

LEMMA AppendSilent ==
  ASSUME NEW s \in Seq(Items), Silent(s), NEW x \in Items \ Modem!Reports
  PROVE  Append(s, x) \in Seq(Items) /\ Silent(Append(s, x))
<1>1. /\ Append(s, x) \in Seq(Items) /\ Len(Append(s, x)) = Len(s) + 1 /\ Append(s, x)[Len(s) + 1] = x
      /\ \A i \in 1..Len(s) : Append(s, x)[i] = s[i]
  BY AppendProperties
<1>2. \A i \in 1..Len(s) + 1 : i \in 1..Len(s) \/ i = Len(s) + 1
  BY LenProperties
<1>. QED BY <1>1, <1>2 DEF Silent

\* A command ends in a connection, in a hang-up or, where it was, with an answer.
LEMMA ProcessDoes ==
  ASSUME NEW c, NEW r, Modem!Process(c, r)
  PROVE  \/ Modem!Called(r)
         \/ Modem!Hangup(r)
         \/ /\ \E report \in {"OK", "ERROR", "NO CARRIER"} : Modem!Answer(r, report)
            /\ plus' \in {plus, 0}
<1>. DEFINE verb == IF c[1] = "AT" THEN (IF Len(c) = 1 THEN "" ELSE c[2]) ELSE c[1]
            Ends == /\ \E report \in {"OK", "ERROR", "NO CARRIER"} : Modem!Answer(r, report)
                    /\ plus' \in {plus, 0}
<1>. HIDE DEF verb
<1>1. CASE verb \in {"", "S"} \/ verb = "Z" \/ verb \in {"E0", "E1"}
  <2>1. Modem!Answer(r, "OK") /\ plus' \in {plus, 0}
    BY <1>1 DEF Modem!Process, verb
  <2>. QED BY <2>1
<1>2. CASE verb = "H"
  BY <1>2 DEF Modem!Process, verb
<1>3. CASE verb = "D"
  <2>1. \/ Modem!Called(r)
        \/ Modem!Answer(r, "NO CARRIER") /\ plus' \in {plus, 0}
    BY <1>3 DEF Modem!Process, verb
  <2>. QED BY <2>1
<1>4. CASE verb \notin {"", "S", "Z", "E0", "E1", "H", "D"}
  <2>1. \/ Modem!Called(r)
        \/ Modem!Answer(r, "ERROR") /\ plus' \in {plus, 0}
    BY <1>4 DEF Modem!Process, verb
  <2>. QED BY <2>1
<1>. QED BY <1>1, <1>2, <1>3, <1>4

LEMMA ModemFacts ==
  ASSUME ModemInv
  PROVE  /\ line \in Nat /\ calls \in Nat /\ plus \in Nat /\ plus \in 0..2 /\ rx \in Seq(Items)
         /\ written \in Seq(Modem!Data) /\ reached \in Seq(Modem!Data) /\ dropped \in BOOLEAN
BY DEF ModemInv, ModemTypes

\* In command mode the carrier, if there is one, has nothing held back, so that
\* the bytes sent are those that reached the peer.
LEMMA ProcessKeeps ==
  ASSUME ModemInv, mode = "command", told' = told, NEW c, NEW r \in Seq(Items), Silent(r),
         Modem!Process(c, r)
  PROVE  ModemInv'
<1>. USE DEF ModemInv
<1>0. calls \in Nat /\ plus \in 0..2
  BY ONLY ModemInv, ModemFacts
<1>1. CASE Modem!Called(r)
  <2>1. Append(r, "CONNECT") \in Seq(Items) /\ "CONNECT" \in Modem!Reports /\ Modem!Speaks("CONNECT") = "data"
    BY AppendProperties DEF Items, Modem!Reports, Modem!Speaks
  <2>2. /\ mode' = "data" /\ line' = calls + 1 /\ calls' = calls + 1 /\ plus' = 0
        /\ written' = <<>> /\ reached' = <<>> /\ Modem!Pushes(Append(r, "CONNECT"))
    BY <1>1 DEF Modem!Called
  <2>3. ModemTypes'
    <3>1. rx' \in Seq(Items) /\ dropped' \in BOOLEAN
      BY <2>1, <2>2, PushKeeps
    <3>2. written' \in Seq(Modem!Data) /\ reached' \in Seq(Modem!Data)
      BY <2>2, EmptySeq
    <3>3. mode' \in {"command", "data"} /\ line' \in Nat /\ calls' \in Nat /\ plus' \in 0..2
      BY <1>0, <2>2
    <3>. QED BY <3>1, <3>2, <3>3 DEF ModemTypes
  <2>4. CarrierInv'
    BY <1>0, <2>2 DEF CarrierInv
  <2>5. Modem!DataReachesPeer'
    <3>1. <<>> \in Seq(Modem!Data)
      BY EmptySeq
    <3>2. written' = reached' \o Pluses(plus')
      BY <2>2, <3>1, PlusesProperties
    <3>. QED BY <3>2 DEF Modem!DataReachesPeer, Pluses
  <2>6. Modem!ReportsFollowMode'
    BY <2>1, <2>2, ReportPush
  <2>. QED BY <2>3, <2>4, <2>5, <2>6
<1>2. CASE Modem!Hangup(r)
  <2>1. Append(r, "OK") \in Seq(Items) /\ Silent(Append(r, "OK"))
    BY AppendSilent DEF Items, Modem!Reports
  <2>2. /\ mode' = "command" /\ line' = 0 /\ Modem!Pushes(Append(r, "OK"))
        /\ UNCHANGED <<plus, calls, written, reached>>
    BY <1>2 DEF Modem!Hangup
  <2>3. ModemTypes'
    <3>1. rx' \in Seq(Items) /\ dropped' \in BOOLEAN
      BY <2>1, <2>2, PushKeeps
    <3>. QED BY <2>2, <3>1 DEF ModemTypes
  <2>4. CarrierInv' /\ Modem!DataReachesPeer'
    BY <2>2 DEF CarrierInv, Modem!DataReachesPeer
  <2>5. Modem!ReportsFollowMode'
    BY <2>1, <2>2, SilentPush
  <2>. QED BY <2>3, <2>4, <2>5
<1>3. ASSUME NEW report \in {"OK", "ERROR", "NO CARRIER"}, Modem!Answer(r, report), plus' \in {plus, 0}
      PROVE  ModemInv'
  <2>1. Append(r, report) \in Seq(Items)
    BY AppendProperties DEF Items, Modem!Reports
  <2>2. /\ Modem!Pushes(Append(r, report))
        /\ UNCHANGED <<mode, line, calls, written, reached>>
    BY <1>3 DEF Modem!Answer, Modem!Stays
  <2>3. ModemTypes'
    <3>1. rx' \in Seq(Items) /\ dropped' \in BOOLEAN
      BY <2>1, <2>2, PushKeeps
    <3>2. plus' \in 0..2
      <4>1. CASE plus' = plus
        BY ONLY <1>0, <4>1
      <4>2. CASE plus' = 0
        BY <4>2, Zero
      <4>3. plus' = plus \/ plus' = 0
        BY <1>3
      <4>. QED BY ONLY <4>1, <4>2, <4>3
    <3>. QED BY <2>2, <3>1, <3>2 DEF ModemTypes
  <2>4. CarrierInv'
    BY <1>3, <2>2 DEF CarrierInv
  <2>5. Modem!DataReachesPeer'
    <3>1. line # 0 => plus' = plus
      BY <1>3 DEF CarrierInv
    <3>2. ~dropped' => ~dropped
      BY <2>1, <2>2, PushKeeps
    <3>. QED BY <2>2, <3>1, <3>2 DEF Modem!DataReachesPeer
  <2>6. Modem!ReportsFollowMode'
    <3>1. CASE report = "NO CARRIER"
      <4>1. report \in Modem!Reports /\ mode' = Modem!Speaks(report)
        BY <2>2, <3>1 DEF Modem!Reports, Modem!Speaks
      <4>. QED BY <2>2, <4>1, ReportPush
    <3>2. CASE report # "NO CARRIER"
      <4>1. Append(r, report) \in Seq(Items) /\ Silent(Append(r, report))
        BY <3>2, AppendSilent DEF Items, Modem!Reports
      <4>. QED BY <2>2, <4>1, SilentPush
    <3>. QED BY <3>1, <3>2
  <2>. QED BY <2>3, <2>4, <2>5, <2>6
<1>. QED BY <1>1, <1>2, <1>3, ProcessDoes

LEMMA CommandKeeps ==
  ASSUME ModemInv, (\E b \in Commands : Modem!SendCharacter(b)) \/ Modem!SendBackspace \/ Modem!SendReturn
  PROVE  ModemInv'
<1>. USE DEF ModemInv
<1>1. CASE Modem!SendReturn /\ cmd # <<>>
  <2>1. Modem!Process(cmd, Modem!Echoed \o Modem!Echoed) /\ mode = "command" /\ told' = told
    BY <1>1 DEF Modem!SendReturn
  <2>. QED BY <2>1, EchoSilent, ProcessKeeps
<1>2. ASSUME Modem!Pushes(Modem!Echoed), UNCHANGED <<mode, line, plus, calls, written, reached, told>>
      PROVE  ModemInv'
  <2>1. rx' \in Seq(Items) /\ dropped' \in BOOLEAN /\ (~dropped' => ~dropped)
    BY <1>2, EchoSilent, PushKeeps
  <2>2. ModemTypes'
    BY <1>2, <2>1 DEF ModemTypes
  <2>3. CarrierInv'
    BY <1>2 DEF CarrierInv
  <2>4. Modem!DataReachesPeer'
    BY <1>2, <2>1 DEF Modem!DataReachesPeer
  <2>5. Modem!ReportsFollowMode'
    BY <1>2, EchoSilent, SilentPush
  <2>. QED BY <2>2, <2>3, <2>4, <2>5
<1>3. ASSUME NEW b, Modem!SendCharacter(b) PROVE ModemInv'
  BY <1>2, <1>3 DEF Modem!SendCharacter
<1>4. CASE Modem!SendBackspace
  BY <1>2, <1>4 DEF Modem!SendBackspace
<1>5. CASE Modem!SendReturn /\ cmd = <<>>
  BY <1>2, <1>5 DEF Modem!SendReturn, Modem!Stays
<1>. QED BY <1>1, <1>3, <1>4, <1>5

\* A "+" is held back, or the third of them ends the data and nothing is held back.
LEMMA EscapeKeeps == ASSUME ModemInv, Modem!SendEscape PROVE ModemInv'
<1>. USE DEF ModemInv
<1>0. /\ line \in Nat /\ calls \in Nat /\ plus \in Nat /\ plus \in 0..2 /\ rx \in Seq(Items)
      /\ written \in Seq(Modem!Data) /\ reached \in Seq(Modem!Data) /\ dropped \in BOOLEAN
  BY ModemFacts
<1>1. mode = "data" /\ UNCHANGED <<line, calls, reached, told>> /\ line # 0
  BY DEF Modem!SendEscape, CarrierInv
<1>2. CASE plus + 1 >= 3
  <2>1. /\ mode' = "command" /\ plus' = 0 /\ Modem!Pushes(<<"ESCAPED">>)
        /\ written' = SubSeq(written, 1, Len(written) - 2)
    BY <1>2 DEF Modem!SendEscape
  <2>2. plus = 2
    BY <1>0, <1>2
  <2>3. /\ <<>> \in Seq(Items) /\ Append(<<>>, "ESCAPED") = <<"ESCAPED">>
        /\ "ESCAPED" \in Modem!Reports /\ Modem!Speaks("ESCAPED") = "command"
    BY EmptySeq DEF Modem!Reports, Items, Modem!Speaks
  <2>4. <<"ESCAPED">> \in Seq(Items)
    BY <2>3, AppendProperties DEF Items, Modem!Reports
  <2>5. rx' \in Seq(Items) /\ dropped' \in BOOLEAN /\ (~dropped' => ~dropped)
    BY <2>1, <2>4, PushKeeps
  <2>6. written = reached \o Pluses(2) => written' = reached
    <3>1. Pluses(2) \in Seq(Modem!Data) /\ Len(Pluses(2)) = 2
      BY PlusesProperties
    <3>2. Len(reached \o Pluses(2)) - 2 = Len(reached)
      <4>1. Len(reached \o Pluses(2)) = Len(reached) + Len(Pluses(2)) /\ Len(reached) \in Nat
        BY <1>0, <3>1, ConcatProperties, LenProperties
      <4>2. \A m, n, k \in Nat : m = n + k /\ k = 2 => m - 2 = n
        OBVIOUS
      <4>3. Len(reached \o Pluses(2)) \in Nat
        BY <1>0, <3>1, ConcatProperties, LenProperties
      <4>. HIDE DEF Pluses
      <4>. QED BY ONLY <3>1, <4>1, <4>2, <4>3
    <3>3. SubSeq(reached \o Pluses(2), 1, Len(reached)) = reached
      <4>1. Len(reached) \in 0..Len(reached)
        BY <1>0, LenProperties
      <4>2. SubSeq(reached \o Pluses(2), 1, Len(reached)) = SubSeq(reached, 1, Len(reached))
        BY <1>0, <3>1, <4>1, SubSeqOfConcat1
      <4>. QED BY <1>0, <4>2, SubSeqFull
    <3>. QED BY <2>1, <3>2, <3>3
  <2>7. written' \in Seq(Modem!Data)
    <3>1. CASE Len(written) <= 2
      <4>1. Len(written) - 2 < 1
        BY <1>0, <3>1, LenProperties
      <4>. QED BY <2>1, <1>0, <4>1, SubSeqEmpty, EmptySeq
    <3>2. CASE ~(Len(written) <= 2)
      <4>1. 1 \in 1..Len(written) + 1 /\ Len(written) - 2 \in 0..Len(written)
        BY <1>0, <3>2, LenProperties
      <4>. QED BY <2>1, <1>0, <4>1, SubSeqProperties
    <3>. QED BY <3>1, <3>2
  <2>8. ModemTypes'
    BY <1>0, <1>1, <2>1, <2>5, <2>7 DEF ModemTypes
  <2>9. CarrierInv'
    BY <2>1 DEF CarrierInv
  <2>10. Modem!DataReachesPeer'
    <3>1. ~dropped' => written' = reached'
      BY <1>1, <2>2, <2>5, <2>6 DEF Modem!DataReachesPeer, Pluses
    <3>2. reached' \o Pluses(plus') = reached'
      BY <1>0, <1>1, <2>1, PlusesProperties
    <3>. QED BY <3>1, <3>2 DEF Modem!DataReachesPeer, Pluses
  <2>11. Modem!ReportsFollowMode'
    BY <2>1, <2>3, ReportPush
  <2>. QED BY <2>8, <2>9, <2>10, <2>11
<1>3. CASE ~(plus + 1 >= 3)
  <2>1. plus' = plus + 1 /\ written' = Append(written, "+") /\ UNCHANGED <<mode, rx, dropped>>
    BY <1>3 DEF Modem!SendEscape
  <2>2. plus + 1 \in 0..2
    BY <1>0, <1>3
  <2>3. ModemTypes'
    <3>1. written' \in Seq(Modem!Data)
      BY <1>0, <2>1, AppendProperties DEF Modem!Data
    <3>. QED BY <1>0, <1>1, <2>1, <2>2, <3>1 DEF ModemTypes
  <2>4. CarrierInv'
    BY <1>1, <2>1 DEF CarrierInv
  <2>5. Modem!DataReachesPeer'
    <3>1. plus \in Nat /\ reached \in Seq(Modem!Data)
      BY <1>0
    <3>2. Append(reached \o Pluses(plus), "+") = reached \o Pluses(plus + 1)
      BY ONLY <3>1, OneMorePlus
    <3>3. ~dropped => written' = reached' \o Pluses(plus')
      BY <1>1, <2>1, <3>2 DEF Modem!DataReachesPeer, Pluses
    <3>. QED BY <2>1, <3>3 DEF Modem!DataReachesPeer, Pluses
  <2>6. Modem!ReportsFollowMode'
    BY <1>1, <2>1 DEF Modem!ReportsFollowMode
  <2>. QED BY <2>3, <2>4, <2>5, <2>6
<1>. QED BY <1>2, <1>3

\* Data go out after the "+"s held back, or with them nowhere.
LEMMA DataKeeps ==
  ASSUME ModemInv, NEW b \in Modem!Data, Modem!SendData(b) \/ Modem!SendFails(b)
  PROVE  ModemInv'
<1>. USE DEF ModemInv
<1>0. /\ line \in Nat /\ calls \in Nat /\ plus \in Nat /\ plus \in 0..2 /\ rx \in Seq(Items)
      /\ written \in Seq(Modem!Data) /\ reached \in Seq(Modem!Data) /\ dropped \in BOOLEAN
  BY ModemFacts
<1>1. CASE Modem!SendData(b)
  <2>1. /\ mode = "data" /\ plus' = 0 /\ written' = Append(written, b)
        /\ UNCHANGED <<mode, line, rx, calls, told>>
        /\ \/ reached' = Append(reached \o Pluses(plus), b) /\ UNCHANGED dropped
           \/ reached' = reached /\ dropped' = TRUE
    BY <1>1 DEF Modem!SendData, Modem!Flushed, Pluses
  <2>2. Pluses(plus) \in Seq(Modem!Data)
    BY <1>0, PlusesProperties
  <2>3. written' \in Seq(Modem!Data) /\ reached' \in Seq(Modem!Data)
    <3>1. reached \o Pluses(plus) \in Seq(Modem!Data)
      BY <1>0, <2>2, ConcatProperties
    <3>2. Append(written, b) \in Seq(Modem!Data)
      BY <1>0, AppendProperties
    <3>3. Append(reached \o Pluses(plus), b) \in Seq(Modem!Data)
      BY <3>1, AppendProperties
    <3>. QED BY <1>0, <2>1, <3>2, <3>3
  <2>4. dropped' \in BOOLEAN
    BY <1>0, <2>1
  <2>5. ModemTypes'
    BY <1>0, <2>1, <2>3, <2>4 DEF ModemTypes
  <2>6. CarrierInv'
    BY <2>1 DEF CarrierInv
  <2>7. Modem!DataReachesPeer'
    <3>1. ASSUME ~dropped' PROVE ~dropped /\ reached' = Append(reached \o Pluses(plus), b)
      BY <2>1, <3>1
    <3>2. line # 0
      BY <2>1 DEF CarrierInv
    <3>3. ASSUME ~dropped' PROVE written' = reached'
      <4>1. written = reached \o Pluses(plus)
        BY <3>1, <3>2, <3>3 DEF Modem!DataReachesPeer, Pluses
      <4>. QED BY <2>1, <3>1, <3>3, <4>1
    <3>4. reached' \o Pluses(plus') = reached'
      BY <2>1, <2>3, PlusesProperties
    <3>. QED BY <3>3, <3>4 DEF Modem!DataReachesPeer, Pluses
  <2>8. Modem!ReportsFollowMode'
    BY <2>1 DEF Modem!ReportsFollowMode
  <2>. QED BY <2>5, <2>6, <2>7, <2>8
<1>2. CASE Modem!SendFails(b)
  <2>1. /\ mode' = "command" /\ line' = 0 /\ plus' = 0 /\ written' = <<>> /\ reached' = <<>>
        /\ Modem!Pushes(<<"NO CARRIER">>) /\ UNCHANGED <<calls, told>>
    BY <1>2 DEF Modem!SendFails
  <2>2. /\ <<>> \in Seq(Items) /\ Append(<<>>, "NO CARRIER") = <<"NO CARRIER">>
        /\ "NO CARRIER" \in Modem!Reports /\ Modem!Speaks("NO CARRIER") = "command"
    BY EmptySeq DEF Modem!Reports, Modem!Speaks
  <2>3. <<"NO CARRIER">> \in Seq(Items)
    <3>1. "NO CARRIER" \in Items
      BY DEF Items, Modem!Reports
    <3>. QED BY <2>2, <3>1, AppendProperties
  <2>4. rx' \in Seq(Items) /\ dropped' \in BOOLEAN
    BY <2>1, <2>3, PushKeeps
  <2>5. written' \in Seq(Modem!Data) /\ reached' \in Seq(Modem!Data)
    BY <2>1, EmptySeq
  <2>6. ModemTypes'
    <3>1. mode' \in {"command", "data"} /\ line' = 0 /\ calls' \in Nat /\ plus' = 0
      BY <1>0, <2>1
    <3>2. 0 \in Nat /\ 0 \in 0..2
      OBVIOUS
    <3>. QED BY <2>4, <2>5, <3>1, <3>2 DEF ModemTypes
  <2>7. CarrierInv' /\ Modem!DataReachesPeer'
    BY <2>1 DEF CarrierInv, Modem!DataReachesPeer
  <2>8. Modem!ReportsFollowMode'
    BY <2>1, <2>2, ReportPush
  <2>. QED BY <2>6, <2>7, <2>8
<1>. QED BY <1>1, <1>2

\* What is read is the first of what was waiting, then of what came in.
LEMMA RecvKeeps == ASSUME ModemInv, wire \in Nat, Modem!RecvData \/ Modem!RecvHangup PROVE ModemInv'
<1>0. /\ line \in Nat /\ calls \in Nat /\ plus \in 0..2 /\ rx \in Seq(Items)
      /\ written \in Seq(Modem!Data) /\ reached \in Seq(Modem!Data) /\ dropped \in BOOLEAN
  BY ModemFacts
<1>1. ASSUME NEW in \in Seq(Items), Modem!Pop(Modem!Push(rx, in)), rx # <<>> \/ in # <<>>,
             dropped' = (dropped \/ Len(rx \o in) > RxSize)
      PROVE  /\ rx' \in Seq(Items) /\ dropped' \in BOOLEAN
             /\ ~dropped' => /\ ~dropped /\ rx \o in \in Seq(Items) /\ rx \o in # <<>>
                             /\ rx' = Tail(rx \o in)
                             /\ told' = IF Head(rx \o in) \in Modem!Reports THEN Modem!Speaks(Head(rx \o in)) ELSE told
  <2>. DEFINE all == rx \o in
              now2 == Modem!Push(rx, in)
  <2>1. all \in Seq(Items) /\ Len(all) = Len(rx) + Len(in) /\ Len(rx) \in Nat /\ Len(in) \in Nat
    BY <1>0, <1>1, ConcatProperties, LenProperties
  <2>2. Len(rx) > 0 \/ Len(in) > 0
    BY <1>0, <1>1, <2>1, EmptySeq
  <2>3. all # <<>> /\ Len(all) \in Nat /\ Len(all) > 0
    BY <2>1, <2>2, EmptySeq
  <2>4. now2 = IF Len(all) > RxSize THEN SubSeq(all, 1, RxSize) ELSE all
    BY DEF Modem!Push
  <2>5. rx' = Tail(now2) /\ told' = IF Head(now2) \in Modem!Reports THEN Modem!Speaks(Head(now2)) ELSE told
    BY <1>1 DEF Modem!Pop, Modem!Learns
  <2>6. dropped' = (dropped \/ Len(all) > RxSize)
    BY <1>1
  <2>7. RxSize \in Nat \ {0}
    BY UnitsAssumption DEF Modem!HayesAssumption
  <2>. HIDE DEF all, now2
  <2>8. now2 \in Seq(Items) /\ now2 # <<>>
    <3>1. CASE Len(all) > RxSize
      <4>1. 1 \in 1..Len(all) + 1 /\ RxSize \in 0..Len(all) /\ (1 <= RxSize + 1)
        BY <2>3, <2>7, <3>1
      <4>2. SubSeq(all, 1, RxSize) \in Seq(Items) /\ Len(SubSeq(all, 1, RxSize)) = RxSize - 1 + 1
        BY <2>1, <4>1, SubSeqProperties
      <4>3. Len(SubSeq(all, 1, RxSize)) # 0
        BY <2>7, <4>2
      <4>. QED BY <2>4, <3>1, <4>2, <4>3, EmptySeq
    <3>2. CASE ~(Len(all) > RxSize)
      BY <2>1, <2>3, <2>4, <3>2
    <3>. QED BY <3>1, <3>2
  <2>9. rx' \in Seq(Items)
    BY <2>5, <2>8, HeadTailProperties
  <2>10. dropped' \in BOOLEAN
    BY <1>0, <2>6
  <2>11. ~dropped' => ~dropped /\ now2 = all
    BY <2>4, <2>6
  <2>12. ~dropped' => /\ ~dropped /\ all \in Seq(Items) /\ all # <<>> /\ rx' = Tail(all)
                      /\ told' = IF Head(all) \in Modem!Reports THEN Modem!Speaks(Head(all)) ELSE told
    BY <2>1, <2>3, <2>5, <2>11
  <2>. QED BY <2>9, <2>10, <2>12 DEF all
<1>2. CASE Modem!RecvData
  <2>. DEFINE in == IF mode = "data" THEN [i \in 1..wire |-> "data"] ELSE <<>>
  <2>1. /\ Modem!Pop(Modem!Push(rx, in)) /\ dropped' = (dropped \/ Len(rx \o in) > RxSize)
        /\ UNCHANGED <<mode, line, plus, calls, written, reached>>
    BY <1>2 DEF Modem!RecvData
  <2>2. rx # <<>> \/ (mode = "data" /\ wire > 0)
    BY <1>2 DEF Modem!RecvData, Modem!Polls
  <2>3. in \in Seq(Items) /\ Silent(in) /\ (mode = "data" /\ wire > 0 => in # <<>>)
    <3>1. CASE mode = "data"
      <4>1. in = [i \in 1..wire |-> "data"] /\ "data" \in Items /\ "data" \notin Modem!Reports
        BY <3>1 DEF Items, Modem!Reports
      <4>. HIDE DEF in
      <4>2. in \in [1..wire -> Items]
        BY <4>1
      <4>3. in \in Seq(Items) /\ Len(in) = wire
        BY <4>2, LenProperties
      <4>4. Silent(in)
        BY <4>1, <4>3 DEF Silent
      <4>5. wire > 0 => in # <<>>
        BY <4>3, EmptySeq
      <4>. QED BY <4>3, <4>4, <4>5
    <3>2. CASE mode # "data"
      BY <3>2, EmptySeq DEF Silent
    <3>. QED BY <3>1, <3>2
  <2>. HIDE DEF in
  <2>4. /\ rx' \in Seq(Items) /\ dropped' \in BOOLEAN
        /\ ~dropped' => /\ ~dropped /\ rx \o in \in Seq(Items) /\ rx \o in # <<>>
                        /\ rx' = Tail(rx \o in)
                        /\ told' = IF Head(rx \o in) \in Modem!Reports THEN Modem!Speaks(Head(rx \o in)) ELSE told
    BY <1>1, <2>1, <2>2, <2>3
  <2>5. ModemTypes' /\ CarrierInv'
    BY <2>1, <2>4 DEF ModemInv, ModemTypes, CarrierInv
  <2>6. Modem!DataReachesPeer'
    BY <2>1, <2>4 DEF ModemInv, Modem!DataReachesPeer
  <2>7. ASSUME ~dropped' PROVE Modem!Tells(rx', told', mode')
    <3>1. Modem!Tells(rx, told, mode)
      BY <2>4, <2>7 DEF ModemInv, Modem!ReportsFollowMode
    <3>2. Modem!Tells(rx \o in, told, mode)
      BY <1>0, <2>3, <3>1, TellsMore
    <3>. QED BY <2>1, <2>4, <2>7, <3>2, TellsRead
  <2>. QED BY <2>5, <2>6, <2>7 DEF ModemInv, Modem!ReportsFollowMode
<1>3. CASE Modem!RecvHangup
  <2>. DEFINE in == <<"NO CARRIER">>
  <2>1. /\ Modem!Pop(Modem!Push(rx, in)) /\ dropped' = (dropped \/ Len(rx) >= RxSize)
        /\ mode' = "command" /\ line' = 0 /\ written' = <<>> /\ reached' = <<>>
        /\ UNCHANGED <<plus, calls>>
    BY <1>3 DEF Modem!RecvHangup
  <2>2. /\ <<>> \in Seq(Items) /\ in = Append(<<>>, "NO CARRIER") /\ "NO CARRIER" \in Modem!Reports
        /\ "NO CARRIER" \in Items /\ Modem!Speaks("NO CARRIER") = "command"
    BY EmptySeq DEF Modem!Reports, Modem!Speaks, Items
  <2>3. in \in Seq(Items) /\ Len(in) = 1
    BY <2>2, OneItem
  <2>. HIDE DEF in
  <2>4. Len(rx \o in) > RxSize <=> Len(rx) >= RxSize
    <3>1. Len(rx \o in) = Len(rx) + 1 /\ Len(rx) \in Nat /\ RxSize \in Nat
      BY <1>0, <2>3, ConcatProperties, LenProperties, UnitsAssumption DEF Modem!HayesAssumption
    <3>. QED BY <3>1
  <2>5. in # <<>>
    <3>1. Len(in) # 0
      BY <2>3
    <3>. QED BY <2>3, <3>1, EmptySeq
  <2>6. /\ rx' \in Seq(Items) /\ dropped' \in BOOLEAN
        /\ ~dropped' => /\ ~dropped /\ rx \o in \in Seq(Items) /\ rx \o in # <<>>
                        /\ rx' = Tail(rx \o in)
                        /\ told' = IF Head(rx \o in) \in Modem!Reports THEN Modem!Speaks(Head(rx \o in)) ELSE told
    <3>1. dropped' = (dropped \/ Len(rx \o in) > RxSize)
      BY <2>1, <2>4
    <3>. QED BY <1>1, <2>1, <2>3, <2>5, <3>1
  <2>7. written' \in Seq(Modem!Data) /\ reached' \in Seq(Modem!Data)
    BY <2>1, EmptySeq
  <2>8. ModemTypes' /\ CarrierInv' /\ Modem!DataReachesPeer'
    BY <2>1, <2>6, <2>7 DEF ModemInv, ModemTypes, CarrierInv, Modem!DataReachesPeer
  <2>9. ASSUME ~dropped' PROVE Modem!Tells(rx', told', mode')
    <3>1. Modem!Tells(rx \o Append(<<>>, "NO CARRIER"), told, Modem!Speaks("NO CARRIER"))
      BY <1>0, <2>2, TellsReport
    <3>. QED BY <2>1, <2>2, <2>6, <2>9, <3>1, TellsRead
  <2>. QED BY <2>8, <2>9 DEF ModemInv, Modem!ReportsFollowMode
<1>. QED BY <1>2, <1>3

LEMMA WireKeeps == ASSUME wire \in Nat, Modem!Next PROVE wire' \in Nat
<1>1. ASSUME NEW c, NEW r, Modem!Process(c, r) PROVE wire' \in Nat
  <2>1. CASE Modem!Called(r)
    BY <2>1 DEF Modem!Called
  <2>2. CASE Modem!Hangup(r)
    BY <2>2 DEF Modem!Hangup
  <2>3. ASSUME NEW report, Modem!Answer(r, report) PROVE wire' \in Nat
    BY <2>3 DEF Modem!Answer, Modem!Stays
  <2>. QED BY <1>1, <2>1, <2>2, <2>3, ProcessDoes
<1>2. CASE Modem!SendReturn
  <2>1. \/ Modem!Process(cmd, Modem!Echoed \o Modem!Echoed)
        \/ wire' = wire
    BY <1>2 DEF Modem!SendReturn, Modem!Stays
  <2>. QED BY <1>1, <2>1
<1>3. CASE (\E b \in Commands : Modem!SendCharacter(b)) \/ Modem!SendBackspace \/ Modem!SendEscape
  BY <1>3 DEF Modem!SendCharacter, Modem!SendBackspace, Modem!SendEscape
<1>4. CASE \E b \in Modem!Data : Modem!SendData(b) \/ Modem!SendFails(b)
  <2>1. wire' \in {wire, 0}
    BY <1>4 DEF Modem!SendData, Modem!SendFails
  <2>. QED BY <2>1
<1>5. CASE Modem!RecvData \/ Modem!RecvHangup
  <2>1. wire' \in {wire, 0}
    BY <1>5 DEF Modem!RecvData, Modem!RecvHangup
  <2>. QED BY <2>1
<1>6. CASE Modem!PeerSends \/ Modem!PeerCloses
  <2>1. wire' \in {wire, wire + 1}
    BY <1>6 DEF Modem!PeerSends, Modem!PeerCloses
  <2>. QED BY <2>1
<1>. QED BY <1>2, <1>3, <1>4, <1>5, <1>6 DEF Modem!Next

LEMMA ModemStarts == ASSUME Modem!Init PROVE ModemInv /\ wire \in Nat
<1>1. /\ mode = "command" /\ line = 0 /\ rx = <<>> /\ plus = 0 /\ wire = 0 /\ calls = 0
      /\ written = <<>> /\ reached = <<>> /\ told = "command" /\ dropped = FALSE
  BY DEF Modem!Init
<1>2. <<>> \in Seq(Items) /\ <<>> \in Seq(Modem!Data)
  BY EmptySeq
<1>3. dropped \in BOOLEAN
  BY <1>1
<1>4. ModemTypes
  BY <1>1, <1>2, <1>3, Zero DEF ModemTypes
<1>5. CarrierInv /\ Modem!DataReachesPeer
  BY <1>1 DEF CarrierInv, Modem!DataReachesPeer
<1>6. DOMAIN rx = {}
  BY <1>1
<1>7. Modem!ReportsFollowMode
  BY <1>1, <1>6 DEF Modem!ReportsFollowMode, Modem!Tells
<1>. QED BY <1>1, <1>4, <1>5, <1>7, Zero DEF ModemInv

\* The modem's invariant with the socket's count, one lemma per kind of step.
LEMMA ModemKeeps == ASSUME ModemInv, wire \in Nat, Modem!Next PROVE ModemInv' /\ wire' \in Nat
<1>. SUFFICES ModemInv'
  BY WireKeeps
<1>1. CASE (\E b \in Commands : Modem!SendCharacter(b)) \/ Modem!SendBackspace \/ Modem!SendReturn
  BY <1>1, CommandKeeps
<1>2. CASE Modem!SendEscape
  BY <1>2, EscapeKeeps
<1>3. CASE \E b \in Modem!Data : Modem!SendData(b) \/ Modem!SendFails(b)
  BY <1>3, DataKeeps
<1>4. CASE Modem!RecvData \/ Modem!RecvHangup
  BY <1>4, RecvKeeps
<1>5. CASE Modem!PeerSends \/ Modem!PeerCloses
  <2>1. UNCHANGED <<mode, line, rx, plus, calls, written, reached, told, dropped>>
    BY <1>5 DEF Modem!PeerSends, Modem!PeerCloses
  <2>2. ModemTypes' /\ CarrierInv'
    BY <2>1 DEF ModemInv, ModemTypes, CarrierInv
  <2>3. Modem!DataReachesPeer' /\ Modem!ReportsFollowMode'
    BY <2>1 DEF ModemInv, Modem!DataReachesPeer, Modem!ReportsFollowMode
  <2>. QED BY <2>2, <2>3 DEF ModemInv
<1>. QED BY <1>1, <1>2, <1>3, <1>4, <1>5 DEF Modem!Next

LEMMA ModemIdles == ASSUME ModemInv, wire \in Nat, UNCHANGED modemVars PROVE ModemInv' /\ wire' \in Nat
<1>1. UNCHANGED <<mode, line, rx, plus, wire, calls, written, reached, told, dropped>>
  BY DEF modemVars
<1>2. ModemTypes' /\ CarrierInv'
  BY <1>1 DEF ModemInv, ModemTypes, CarrierInv
<1>3. Modem!DataReachesPeer' /\ Modem!ReportsFollowMode'
  BY <1>1 DEF ModemInv, Modem!DataReachesPeer, Modem!ReportsFollowMode
<1>. QED BY <1>1, <1>2, <1>3 DEF ModemInv

-----------------------------------------------------------------------------
(* The table of pressed keys *)

LEMMA OwnedByMore == ASSUME NEW t, NEW S, NEW T, S \subseteq T, Owned(t, S) PROVE Owned(t, T)
BY DEF Owned

\* The last entry fills the gap, and nothing of the key is left.
LEMMA WithoutOwned ==
  ASSUME NEW S, Owned(pressed, S), NEW sc
  PROVE  Owned(Keys!Without(sc), S \ {sc})
<1>. DEFINE at == {i \in DOMAIN pressed : pressed[i].scancode = sc}
<1>0. pressed \in Seq(Entries) /\ DOMAIN pressed = 1..Len(pressed) /\ Len(pressed) \in Nat
  BY LenProperties DEF Owned
<1>1. CASE at = {}
  <2>1. Keys!Without(sc) = pressed
    BY <1>1 DEF Keys!Without
  <2>2. \A i \in 1..Len(pressed) : pressed[i].scancode # sc
    BY <1>0, <1>1
  <2>. QED BY <2>1, <2>2 DEF Owned
<1>2. CASE at # {}
  <2>. DEFINE i == CHOOSE j \in at : \A k \in at : j <= k
              s == [pressed EXCEPT ![i] = Keys!Last(pressed)]
              w == Keys!Without(sc)
              n == Len(pressed)
              from(k) == IF k = i THEN n ELSE k
  <2>1. i \in at
    <3>1. PICK m \in at : TRUE
      BY <1>2
    <3>2. \A k \in at : m <= k
      BY <1>0, <3>1 DEF Owned
    <3>. QED BY <3>1, <3>2
  <2>2. w = Keys!Front(s)
    BY <1>2 DEF Keys!Without
  <2>3. i \in 1..n /\ pressed[i].scancode = sc /\ n \in Nat /\ n >= 1
    BY <1>0, <2>1
  <2>. HIDE DEF i
  <2>4. Keys!Last(pressed) = pressed[n] /\ pressed[n] \in Entries
    BY <1>0, <2>3, ElementOfSeq DEF Keys!Last
  <2>5. /\ s \in Seq(Entries) /\ Len(s) = n
        /\ \A k \in 1..n : s[k] = IF k = i THEN pressed[n] ELSE pressed[k]
    BY <1>0, <2>3, <2>4, ExceptSeq
  <2>. HIDE DEF s
  <2>6. /\ w \in Seq(Entries) /\ Len(w) = n - 1
        /\ \A k \in 1..(n - 1) : w[k] = s[k]
    <3>1. w = SubSeq(s, 1, n - 1)
      BY <2>2, <2>5 DEF Keys!Front
    <3>2. \A k \in 1..(n - 1) : s[k] \in Entries
      BY <2>3, <2>5, ElementOfSeq
    <3>3. 1 \in Int /\ n - 1 \in Int
      BY <2>3
    <3>4. /\ SubSeq(s, 1, n - 1) \in Seq(Entries)
          /\ Len(SubSeq(s, 1, n - 1)) = IF 1 <= n - 1 THEN (n - 1) - 1 + 1 ELSE 0
          /\ \A k \in 1..((n - 1) - 1 + 1) : SubSeq(s, 1, n - 1)[k] = s[1 + k - 1]
      BY <3>2, <3>3, SubSeqProperties
    <3>5. (IF 1 <= n - 1 THEN (n - 1) - 1 + 1 ELSE 0) = n - 1 /\ (n - 1) - 1 + 1 = n - 1
      <4>1. \A m \in Nat : m >= 1 => (m - 1) - 1 + 1 = m - 1 /\ (~(1 <= m - 1) => m - 1 = 0)
        OBVIOUS
      <4>. HIDE DEF n
      <4>2. (n - 1) - 1 + 1 = n - 1 /\ (~(1 <= n - 1) => n - 1 = 0)
        BY <2>3, <4>1
      <4>. QED BY <4>2
    <3>6. \A k \in 1..(n - 1) : 1 + k - 1 = k
      BY <2>3
    <3>. QED BY <3>1, <3>4, <3>5, <3>6
  <2>. HIDE DEF w
  <2>7. \A k \in 1..(n - 1) : k \in 1..n /\ from(k) \in 1..n /\ from(k) # i /\ w[k] = pressed[from(k)]
    BY <2>3, <2>5, <2>6
  <2>8. \A k, l \in 1..(n - 1) : from(k) = from(l) => k = l
    BY <2>3
  <2>. HIDE DEF from
  <2>9. \A k \in 1..(n - 1) : w[k].scancode \in S \ {sc}
    <3>. SUFFICES ASSUME NEW k \in 1..(n - 1) PROVE w[k].scancode \in S /\ w[k].scancode # sc
      OBVIOUS
    <3>1. w[k] = pressed[from(k)] /\ from(k) \in 1..n /\ from(k) # i
      BY <2>7
    <3>. QED BY <2>3, <3>1 DEF Owned
  <2>10. \A k, l \in 1..(n - 1) : w[k].scancode = w[l].scancode => k = l
    <3>. SUFFICES ASSUME NEW k \in 1..(n - 1), NEW l \in 1..(n - 1), w[k].scancode = w[l].scancode PROVE k = l
      OBVIOUS
    <3>1. from(k) \in 1..n /\ from(l) \in 1..n /\ pressed[from(k)].scancode = pressed[from(l)].scancode
      BY <2>7
    <3>2. from(k) = from(l)
      BY <3>1 DEF Owned
    <3>. QED BY <2>8, <3>2
  <2>. QED BY <2>6, <2>9, <2>10 DEF Owned, w
<1>. QED BY <1>1, <1>2

LEMMA WithOwned ==
  ASSUME NEW S, NEW e \in Entries, e.scancode \in S, NEW list, Owned(list, S \ {e.scancode})
  PROVE  Owned(Keys!With(list, e), S)
<1>1. CASE Len(list) >= MaxPressed
  <2>1. Keys!With(list, e) = list
    BY <1>1 DEF Keys!With
  <2>. QED BY <2>1 DEF Owned
<1>2. CASE ~(Len(list) >= MaxPressed)
  <2>. DEFINE w == Append(list, e)
              n == Len(list)
  <2>1. Keys!With(list, e) = w
    BY <1>2 DEF Keys!With
  <2>2. /\ list \in Seq(Entries) /\ n \in Nat /\ w \in Seq(Entries) /\ Len(w) = n + 1
        /\ \A i \in 1..n : w[i] = list[i]
        /\ w[n + 1] = e
    BY AppendProperties, LenProperties DEF Owned
  <2>. HIDE DEF w
  <2>3. \A i \in 1..(n + 1) : i \in 1..n \/ i = n + 1
    BY <2>2
  <2>4. \A i \in 1..n : w[i].scancode \in S /\ w[i].scancode # e.scancode
    BY <2>2 DEF Owned
  <2>5. \A i \in 1..(n + 1) : w[i].scancode \in S
    BY <2>2, <2>3, <2>4
  <2>6. \A i, j \in 1..n : w[i].scancode = w[j].scancode => i = j
    BY <2>2 DEF Owned
  <2>7. \A i, j \in 1..(n + 1) : w[i].scancode = w[j].scancode => i = j
    BY <2>2, <2>3, <2>4, <2>6
  <2>. QED BY <2>1, <2>2, <2>5, <2>7 DEF Owned
<1>. QED BY <1>1, <1>2

LEMMA PressOwned ==
  ASSUME NEW S, NEW T, S \subseteq T, Owned(pressed, S), NEW sc \in Scancodes, sc \in T,
         NEW key, NEW shift, Keys!Press(sc, key, shift),
         key \in {Special[k] : k \in Scancodes} \cup {Chars[c].key : c \in DOMAIN Chars},
         shift \in {FALSE} \cup {Chars[c].shift : c \in DOMAIN Chars}
  PROVE  Owned(pressed', T) /\ matrix' = Keys!Rebuilt(pressed')
<1>. DEFINE e == [scancode |-> sc, key |-> key, shift |-> shift]
<1>1. e \in Entries /\ e.scancode = sc
  BY DEF Entries
<1>2. pressed' = Keys!With(Keys!Without(sc), e) /\ matrix' = Keys!Rebuilt(pressed')
  BY DEF Keys!Press
<1>. HIDE DEF e
<1>3. Owned(Keys!Without(sc), S \ {sc})
  BY WithoutOwned
<1>4. Owned(Keys!Without(sc), T \ {e.scancode})
  <2>1. S \ {sc} \subseteq T \ {e.scancode}
    BY <1>1
  <2>. QED BY <1>3, <2>1, OwnedByMore
<1>5. Owned(Keys!With(Keys!Without(sc), e), T)
  BY <1>1, <1>4, WithOwned
<1>. QED BY <1>2, <1>5

-----------------------------------------------------------------------------
(* The steps of the keys *)

LEMMA NothingOwned == \A S : Owned(<<>>, S)
<1>1. <<>> \in Seq(Entries) /\ Len(<<>>) = 0
  BY EmptySeq
<1>. QED BY <1>1 DEF Owned

LEMMA KeyDownKeeps == ASSUME KeysInv, NEW sc \in Scancodes, Keys!KeyDown(sc) PROVE KeysInv'
<1>1. /\ held' = held \union {sc} /\ UNCHANGED <<layout, joyMode, done, pad>>
  BY DEF Keys!KeyDown, Keys!typing
<1>2. held' \subseteq Scancodes /\ Seen \subseteq Seen'
  BY <1>1 DEF KeysInv, TableInv, Seen, Keys!Taken
<1>3. CASE Keys!Taken(sc)
  <2>1. joy' = joy \union {JoyKeys[sc]} /\ UNCHANGED <<matrix, pressed, pending>> /\ joyMode = "keys"
    BY <1>3 DEF Keys!KeyDown, Keys!Taken
  <2>2. Owned(pressed', Seen')
    BY <1>2, <2>1, OwnedByMore DEF KeysInv, TableInv
  <2>3. TableInv'
    BY <1>1, <1>2, <2>1, <2>2 DEF KeysInv, TableInv
  <2>4. MatrixInv'
    BY <1>1, <1>2, <2>1 DEF KeysInv, MatrixInv, Keys!Rebuilt
  <2>5. JoyInv'
    BY <1>1, <1>3, <2>1 DEF KeysInv, JoyInv, Keys!Taken
  <2>. QED BY <2>3, <2>4, <2>5 DEF KeysInv
<1>4. CASE ~Keys!Taken(sc)
  <2>1. sc \in Seen' /\ joy' = joy
    BY <1>1, <1>4 DEF Keys!KeyDown, Keys!Taken, Seen
  <2>2. JoyInv'
    BY <1>1, <2>1 DEF KeysInv, JoyInv, Keys!Taken
  <2>3. CASE layout = "symbolic" /\ Special[sc] # "none"
    <3>1. Keys!Press(sc, Special[sc], FALSE) /\ pending' = pending
      BY <1>4, <2>3 DEF Keys!KeyDown, Keys!SymbolicDown
    <3>2. Owned(pressed', Seen') /\ matrix' = Keys!Rebuilt(pressed')
      BY <1>2, <2>1, <3>1, PressOwned DEF KeysInv, TableInv
    <3>3. TableInv'
      BY <1>1, <1>2, <2>3, <3>1, <3>2 DEF KeysInv, TableInv
    <3>4. MatrixInv'
      BY <1>1, <2>3, <3>2 DEF MatrixInv
    <3>. QED BY <2>2, <3>3, <3>4 DEF KeysInv
  <2>4. CASE layout = "symbolic" /\ ~(Special[sc] # "none")
    <3>1. UNCHANGED <<matrix, pressed>> /\ pending' \in {pending, sc}
      BY <1>4, <2>4 DEF Keys!KeyDown, Keys!SymbolicDown
    <3>2. Owned(pressed', Seen')
      BY <1>2, <3>1, OwnedByMore DEF KeysInv, TableInv
    <3>3. TableInv'
      BY <1>1, <1>2, <2>1, <2>4, <3>1, <3>2 DEF KeysInv, TableInv
    <3>4. MatrixInv'
      BY <1>1, <2>4, <3>1 DEF KeysInv, MatrixInv, Keys!Rebuilt
    <3>. QED BY <2>2, <3>3, <3>4 DEF KeysInv
  <2>5. CASE layout # "symbolic"
    <3>1. matrix' = matrix \union ({Position[sc]} \ {"none"}) /\ UNCHANGED <<pressed, pending>>
      BY <1>4, <2>5 DEF Keys!KeyDown, Keys!PositionalKey
    <3>2. Owned(pressed', Seen')
      BY <1>2, <3>1, OwnedByMore DEF KeysInv, TableInv
    <3>3. TableInv'
      BY <1>1, <1>2, <3>1, <3>2 DEF KeysInv, TableInv
    <3>4. MatrixInv'
      BY <1>1, <1>2, <2>1, <2>5, <3>1 DEF KeysInv, MatrixInv
    <3>. QED BY <2>2, <3>3, <3>4 DEF KeysInv
  <2>. QED BY <2>3, <2>4, <2>5
<1>. QED BY <1>3, <1>4

LEMMA KeyUpKeeps == ASSUME KeysInv, NEW sc \in Scancodes, Keys!KeyUp(sc) PROVE KeysInv'
<1>1. /\ held' = held \ {sc} /\ UNCHANGED <<layout, joyMode, done, pad>>
  BY DEF Keys!KeyUp, Keys!typing
<1>2. held' \subseteq Scancodes
  BY <1>1 DEF KeysInv, TableInv
<1>3. CASE Keys!Taken(sc)
  <2>1. joy' = joy \ {JoyKeys[sc]} /\ UNCHANGED <<matrix, pressed, pending>> /\ joyMode = "keys"
    BY <1>3 DEF Keys!KeyUp, Keys!Taken
  <2>2. Seen' = Seen
    BY <1>1, <1>3 DEF Seen, Keys!Taken
  <2>3. TableInv'
    BY <1>1, <1>2, <2>1, <2>2 DEF KeysInv, TableInv
  <2>4. MatrixInv'
    BY <1>1, <2>1, <2>2 DEF KeysInv, MatrixInv, Keys!Rebuilt
  <2>5. JoyInv'
    BY <1>1, <2>1 DEF KeysInv, JoyInv, Keys!Taken
  <2>. QED BY <2>3, <2>4, <2>5 DEF KeysInv
<1>4. CASE ~Keys!Taken(sc)
  <2>1. joy' = joy /\ Seen' = Seen \ {sc}
    BY <1>1, <1>4 DEF Keys!KeyUp, Keys!Taken, Seen
  <2>2. JoyInv'
    BY <1>1, <1>4, <2>1 DEF KeysInv, JoyInv, Keys!Taken
  <2>3. CASE layout = "symbolic"
    <3>1. /\ pending' = (IF pending = sc THEN "none" ELSE pending)
          /\ pressed' = Keys!Without(sc) /\ matrix' = Keys!Rebuilt(pressed')
      BY <1>4, <2>3 DEF Keys!KeyUp, Keys!SymbolicUp
    <3>2. Owned(pressed', Seen')
      BY <2>1, <3>1, WithoutOwned DEF KeysInv, TableInv
    <3>3. TableInv'
      BY <1>1, <1>2, <2>1, <2>3, <3>1, <3>2 DEF KeysInv, TableInv
    <3>4. MatrixInv'
      BY <1>1, <2>3, <3>1 DEF MatrixInv
    <3>. QED BY <2>2, <3>3, <3>4 DEF KeysInv
  <2>4. CASE layout # "symbolic"
    <3>1. matrix' = matrix \ {Position[sc]} /\ UNCHANGED <<pressed, pending>>
      BY <1>4, <2>4 DEF Keys!KeyUp, Keys!PositionalKey
    <3>2. pressed' = <<>> /\ pending' = "none"
      BY <2>4, <3>1 DEF KeysInv, TableInv
    <3>3. Owned(pressed', Seen')
      BY <3>2, NothingOwned
    <3>4. TableInv'
      BY <1>2, <3>2, <3>3 DEF TableInv
    <3>5. MatrixInv'
      BY <1>1, <2>1, <2>4, <3>1 DEF KeysInv, MatrixInv
    <3>. QED BY <2>2, <3>4, <3>5 DEF KeysInv
  <2>. QED BY <2>3, <2>4
<1>. QED BY <1>3, <1>4

LEMMA TextKeeps ==
  ASSUME KeysInv, NEW c \in DOMAIN Chars \union {"unmapped"}, Keys!TextInput(c) PROVE KeysInv'
<1>1. UNCHANGED <<layout, joyMode, joy, done, held, pad>> /\ Seen' = Seen /\ held' \subseteq Scancodes
  BY DEF Keys!TextInput, Keys!typing, KeysInv, TableInv, Seen, Keys!Taken
<1>2. JoyInv'
  BY <1>1 DEF KeysInv, JoyInv, Keys!Taken
<1>3. CASE layout = "symbolic" /\ c \in DOMAIN Chars /\ pending # "none"
  <2>1. Keys!Press(pending, Chars[c].key, Chars[c].shift) /\ pending' = "none"
    BY <1>3 DEF Keys!TextInput
  <2>2. pending \in Seen /\ pending \in Scancodes
    BY <1>3 DEF KeysInv, TableInv, Seen
  <2>3. Owned(pressed', Seen) /\ matrix' = Keys!Rebuilt(pressed')
    BY <1>3, <2>1, <2>2, PressOwned DEF KeysInv, TableInv
  <2>4. TableInv'
    BY <1>1, <1>3, <2>1, <2>3 DEF TableInv
  <2>5. MatrixInv'
    BY <1>1, <1>3, <2>3 DEF MatrixInv
  <2>. QED BY <1>2, <2>4, <2>5 DEF KeysInv
<1>4. CASE ~(layout = "symbolic" /\ c \in DOMAIN Chars /\ pending # "none")
  <2>1. UNCHANGED <<matrix, pressed, pending>>
    BY <1>4 DEF Keys!TextInput
  <2>2. TableInv'
    BY <1>1, <2>1 DEF KeysInv, TableInv
  <2>3. MatrixInv'
    BY <1>1, <2>1 DEF KeysInv, MatrixInv, Keys!Rebuilt
  <2>. QED BY <1>2, <2>2, <2>3 DEF KeysInv
<1>. QED BY <1>3, <1>4

\* A control of the pad takes no line but its own.
LEMMA PadKeeps ==
  ASSUME KeysInv,
         \/ \E d \in {"LEFT", "mid", "RIGHT"} : Keys!PadX(d)
         \/ \E d \in {"UP", "mid", "DOWN"} : Keys!PadY(d)
         \/ \E dirs \in {{}, {"UP"}, {"UP", "LEFT"}} : Keys!PadHat(dirs)
         \/ \E b \in {"LEFT", "FIRE"} : Keys!PadDown(b) \/ Keys!PadUp(b)
  PROVE  KeysInv'
<1>1. joyMode = "pad" /\ UNCHANGED <<layout, joyMode, matrix, pressed, pending, done, held>>
  BY DEF Keys!PadX, Keys!PadY, Keys!PadHat, Keys!PadDown, Keys!PadUp, Keys!Pads, Keys!typing
<1>2. TableInv' /\ MatrixInv'
  BY <1>1 DEF KeysInv, TableInv, MatrixInv, Seen, Keys!Taken, Keys!Rebuilt
<1>3. /\ pad \in [x : {"LEFT", "mid", "RIGHT"}, y : {"UP", "mid", "DOWN"},
                  hat : SUBSET {"UP", "DOWN", "LEFT", "RIGHT"}, buttons : SUBSET {"LEFT", "FIRE"}]
      /\ joy \subseteq ({pad.x, pad.y} \ {"mid"}) \cup pad.hat \cup pad.buttons
  BY <1>1 DEF KeysInv, JoyInv
<1>4. ASSUME NEW d \in {"LEFT", "mid", "RIGHT"}, Keys!PadX(d) PROVE JoyInv'
  <2>1. joy' = (joy \ {"LEFT", "RIGHT"}) \union ({d} \ {"mid"}) /\ pad' = [pad EXCEPT !.x = d]
    BY <1>4 DEF Keys!PadX, Keys!Pads
  <2>. QED BY <1>1, <1>3, <2>1 DEF JoyInv
<1>5. ASSUME NEW d \in {"UP", "mid", "DOWN"}, Keys!PadY(d) PROVE JoyInv'
  <2>1. joy' = (joy \ {"UP", "DOWN"}) \union ({d} \ {"mid"}) /\ pad' = [pad EXCEPT !.y = d]
    BY <1>5 DEF Keys!PadY, Keys!Pads
  <2>. QED BY <1>1, <1>3, <2>1 DEF JoyInv
<1>6. ASSUME NEW dirs \in {{}, {"UP"}, {"UP", "LEFT"}}, Keys!PadHat(dirs) PROVE JoyInv'
  <2>1. joy' = (joy \ {"UP", "DOWN", "LEFT", "RIGHT"}) \union dirs /\ pad' = [pad EXCEPT !.hat = dirs]
    BY <1>6 DEF Keys!PadHat, Keys!Pads
  <2>. QED BY <1>1, <1>3, <2>1 DEF JoyInv
<1>7. ASSUME NEW b \in {"LEFT", "FIRE"}, Keys!PadDown(b) PROVE JoyInv'
  <2>1. joy' = joy \union {b} /\ pad' = [pad EXCEPT !.buttons = @ \union {b}]
    BY <1>7 DEF Keys!PadDown, Keys!Pads
  <2>. QED BY <1>1, <1>3, <2>1 DEF JoyInv
<1>8. ASSUME NEW b \in {"LEFT", "FIRE"}, Keys!PadUp(b) PROVE JoyInv'
  <2>1. joy' = joy \ {b} /\ pad' = [pad EXCEPT !.buttons = @ \ {b}]
    BY <1>8 DEF Keys!PadUp, Keys!Pads
  <2>. QED BY <1>1, <1>3, <2>1 DEF JoyInv
<1>. QED BY <1>2, <1>4, <1>5, <1>6, <1>7, <1>8 DEF KeysInv

\* The text that is typed leaves nothing down when it is done.
LEMMA FrameKeeps == ASSUME KeysInv, Keys!Frame PROVE KeysInv'
<1>1. UNCHANGED <<layout, joyMode, pressed, pending, joy, held, pad>> /\ ~done
  BY DEF Keys!Frame
<1>2. ASSUME NEW c, Keys!TypesChar(c) PROVE done' = done
  BY <1>2 DEF Keys!TypesChar, Keys!TypesSame, Keys!TypesNext
<1>3. ASSUME Keys!TypeFrame PROVE done' = done \/ matrix' = {}
  BY <1>2, <1>3 DEF Keys!TypeFrame, Keys!Types
<1>4. done' = done \/ matrix' = {}
  BY <1>3 DEF Keys!Frame
<1>5. TableInv' /\ JoyInv'
  BY <1>1 DEF KeysInv, TableInv, JoyInv, Seen, Keys!Taken
<1>6. MatrixInv'
  BY <1>1, <1>4 DEF MatrixInv
<1>. QED BY <1>5, <1>6 DEF KeysInv

LEMMA KeysKeep == ASSUME KeysInv, Keys!Next PROVE KeysInv'
BY KeyDownKeeps, KeyUpKeeps, TextKeeps, PadKeeps, FrameKeeps DEF Keys!Next

LEMMA KeysStart == ASSUME Keys!Init PROVE KeysInv
<1>1. /\ matrix = {} /\ pressed = <<>> /\ pending = "none" /\ joy = {} /\ held = {}
      /\ pad = [x |-> "mid", y |-> "mid", hat |-> {}, buttons |-> {}]
  BY DEF Keys!Init, Keys!Centred
<1>2. TableInv
  BY <1>1, NothingOwned DEF TableInv
<1>3. MatrixInv /\ JoyInv
  BY <1>1 DEF MatrixInv, JoyInv
<1>. QED BY <1>2, <1>3 DEF KeysInv

LEMMA KeysRelease == ASSUME KeysInv PROVE Keys!NothingStuck
<1>1. ASSUME held = {}, done PROVE matrix = {}
  <2>1. Seen = {}
    BY <1>1 DEF Seen
  <2>2. CASE layout = "symbolic"
    <3>1. pressed \in Seq(Entries) /\ \A i \in 1..Len(pressed) : FALSE
      BY <2>1 DEF KeysInv, TableInv, Owned
    <3>2. DOMAIN pressed = {}
      BY <3>1, LenProperties
    <3>3. Keys!Rebuilt(pressed) = {}
      BY <3>2 DEF Keys!Rebuilt
    <3>. QED BY <1>1, <2>2, <3>3 DEF KeysInv, MatrixInv
  <2>3. CASE layout # "symbolic"
    BY <1>1, <2>1, <2>3 DEF KeysInv, MatrixInv
  <2>. QED BY <2>2, <2>3
<1>2. ASSUME held = {}, pad = Keys!Centred PROVE joy = {}
  BY <1>2 DEF KeysInv, JoyInv, Keys!Centred
<1>. QED BY <1>1, <1>2 DEF Keys!NothingStuck

LEMMA KeysIdle == ASSUME KeysInv, UNCHANGED keysVars PROVE KeysInv'
<1>1. UNCHANGED <<layout, joyMode, matrix, pressed, pending, joy, done, held, pad>>
  BY DEF keysVars
<1>2. Seen' = Seen
  BY <1>1 DEF Seen, Keys!Taken
<1>3. TableInv' /\ JoyInv'
  BY <1>1, <1>2 DEF KeysInv, TableInv, JoyInv, Keys!Taken
<1>4. MatrixInv'
  BY <1>1, <1>2 DEF KeysInv, MatrixInv, Keys!Rebuilt
<1>. QED BY <1>3, <1>4 DEF KeysInv

-----------------------------------------------------------------------------
(* The sections *)

\* A file lists what its two halves list, if they share no tag.
LEMMA ListsBoth ==
  ASSUME NEW S, NEW T, NEW s, NEW t, Lists(s, S), Lists(t, T), S \cap T = {}
  PROVE  /\ Lists(s \o t, S \cup T) /\ Len(s \o t) = Len(s) + Len(t)
         /\ Len(s) \in Nat /\ Len(t) \in Nat
         /\ \A i \in 1..Len(s) : (s \o t)[i] = s[i]
<1>. DEFINE all == s \o t
<1>1. s \in Seq(S) /\ t \in Seq(T) /\ s \in Seq(S \cup T) /\ t \in Seq(S \cup T)
  BY DEF Lists
<1>2. /\ all \in Seq(S \cup T) /\ Len(all) = Len(s) + Len(t)
      /\ \A i \in 1..Len(s) + Len(t) : all[i] = IF i <= Len(s) THEN s[i] ELSE t[i - Len(s)]
  BY <1>1, ConcatProperties
<1>3. Len(s) \in Nat /\ Len(t) \in Nat
  BY <1>1, LenProperties
<1>4. /\ \A i \in 1..Len(s) : s[i] \in S
      /\ \A i \in 1..Len(t) : t[i] \in T
  BY <1>1, ElementOfSeq
<1>. HIDE DEF all
<1>5. \A i \in 1..Len(s) : i \in 1..Len(all) /\ all[i] = s[i]
  BY <1>2, <1>3
<1>6. \A i \in 1..Len(t) : Len(s) + i \in 1..Len(all) /\ all[Len(s) + i] = t[i]
  BY <1>2, <1>3
<1>7. ASSUME NEW i \in 1..Len(all), NEW j \in 1..Len(all), all[i] = all[j] PROVE i = j
  <2>1. CASE i <= Len(s) /\ j <= Len(s)
    <3>1. i \in 1..Len(s) /\ j \in 1..Len(s) /\ s[i] = s[j]
      BY <1>2, <1>3, <1>7, <2>1
    <3>. QED BY <3>1 DEF Lists
  <2>2. CASE ~(i <= Len(s)) /\ ~(j <= Len(s))
    <3>1. /\ i - Len(s) \in 1..Len(t) /\ j - Len(s) \in 1..Len(t)
          /\ t[i - Len(s)] = t[j - Len(s)]
      BY <1>2, <1>3, <1>7, <2>2
    <3>2. i - Len(s) = j - Len(s)
      BY <3>1 DEF Lists
    <3>. QED BY <1>3, <3>2
  <2>3. CASE i <= Len(s) /\ ~(j <= Len(s))
    BY <1>2, <1>3, <1>4, <1>7, <2>3
  <2>4. CASE ~(i <= Len(s)) /\ j <= Len(s)
    BY <1>2, <1>3, <1>4, <1>7, <2>4
  <2>. QED BY <2>1, <2>2, <2>3, <2>4
<1>8. ASSUME NEW x \in S \cup T PROVE \E i \in 1..Len(all) : all[i] = x
  <2>1. CASE x \in S
    BY <1>5, <2>1 DEF Lists
  <2>2. CASE x \in T
    BY <1>6, <2>2 DEF Lists
  <2>. QED BY <2>1, <2>2
<1>9. Lists(all, S \cup T)
  BY <1>2, <1>7, <1>8 DEF Lists
<1>. QED BY <1>2, <1>3, <1>5, <1>9 DEF all

\* The short lists the sections are put together from.
LEMMA ListsNone == Lists(<<>>, {}) /\ Len(<<>>) = 0
<1>1. <<>> \in Seq({}) /\ Len(<<>>) = 0
  BY EmptySeq
<1>. QED BY <1>1 DEF Lists

LEMMA ListsOne == ASSUME NEW a PROVE Lists(<<a>>, {a}) /\ Len(<<a>>) = 1
BY DEF Lists

LEMMA ListsTwo == ASSUME NEW a, NEW b, a # b PROVE Lists(<<a, b>>, {a, b}) /\ Len(<<a, b>>) = 2
BY DEF Lists

LEMMA ListsSix ==
  LET six == <<"CPU", "MEM", "VIA", "PSG", "VID", "KBD">>
  IN  /\ Lists(six, {"CPU", "MEM", "VIA", "PSG", "VID", "KBD"})
      /\ Len(six) = 6 /\ six[2] = "MEM" /\ six[5] = "VID"
<1>. DEFINE six == <<"CPU", "MEM", "VIA", "PSG", "VID", "KBD">>
            T == {"CPU", "MEM", "VIA", "PSG", "VID", "KBD"}
<1>1. six \in Seq(T) /\ Len(six) = 6
  OBVIOUS
<1>2. /\ six[1] = "CPU" /\ six[2] = "MEM" /\ six[3] = "VIA" /\ six[4] = "PSG" /\ six[5] = "VID" /\ six[6] = "KBD"
  OBVIOUS
<1>. HIDE DEF six
<1>3. \A i \in 1..6 : i = 1 \/ i = 2 \/ i = 3 \/ i = 4 \/ i = 5 \/ i = 6
  OBVIOUS
<1>4. \A i, j \in 1..6 : six[i] = six[j] => i = j
  BY <1>2, <1>3
<1>5. \A t \in T : \E i \in 1..6 : six[i] = t
  BY <1>2
<1>. QED BY <1>1, <1>2, <1>4, <1>5 DEF Lists, six

\* The memory is the second section and the video the fifth, in every file.
LEMMA SectionsList ==
  ASSUME NEW d \in Devices
  PROVE  LET sections == State!Sections(d)
         IN  /\ Lists(sections, Tags(d)) /\ Len(sections) \in Nat /\ Len(sections) >= 6
             /\ sections[2] = "MEM" /\ sections[5] = "VID"
<1>. DEFINE s1 == <<"CPU", "MEM", "VIA", "PSG", "VID", "KBD">>
            t1 == {"CPU", "MEM", "VIA", "PSG", "VID", "KBD"}
            disk == IF "disk" \in d THEN <<"FDC", "MDC">> ELSE <<>>
            disks == IF "disk" \in d THEN {"FDC", "MDC"} ELSE {}
            card == IF "serial" \in d THEN <<"SER">> ELSE <<>>
            cards == IF "serial" \in d THEN {"SER"} ELSE {}
            s2 == s1 \o disk  t2 == t1 \cup disks
            s3 == s2 \o <<"TAP">>  t3 == t2 \cup {"TAP"}
            s4 == s3 \o card  t4 == t3 \cup cards
            s5 == s4 \o <<"META">>  t5 == t4 \cup {"META"}
<1>1. Lists(s1, t1) /\ Len(s1) = 6 /\ s1[2] = "MEM" /\ s1[5] = "VID"
  BY ListsSix
<1>2. Lists(disk, disks) /\ disks \subseteq {"FDC", "MDC"}
  BY ListsNone, ListsTwo
<1>3. Lists(card, cards) /\ cards \subseteq {"SER"}
  BY ListsNone, ListsOne
<1>4. Lists(<<"TAP">>, {"TAP"}) /\ Lists(<<"META">>, {"META"})
  BY ListsOne
<1>5. State!Sections(d) = s5 /\ Tags(d) = t5
  BY DEF State!Sections, Tags
<1>6. t1 \cap disks = {}
  BY <1>2
<1>7. t2 \cap {"TAP"} = {} /\ t3 \cap cards = {} /\ t4 \cap {"META"} = {}
  BY <1>2, <1>3
<1>. HIDE DEF s1, t1, disk, disks, card, cards
<1>8. Lists(s1, t1)
  BY <1>1
<1>9. Lists(disk, disks)
  BY <1>2
<1>10. /\ Lists(s2, t2) /\ Len(s2) = Len(s1) + Len(disk) /\ Len(disk) \in Nat
      /\ \A i \in 1..Len(s1) : s2[i] = s1[i]
  BY <1>6, <1>8, <1>9, ListsBoth
<1>. HIDE DEF s2, t2
<1>11. /\ Lists(s3, t3) /\ Len(s3) = Len(s2) + Len(<<"TAP">>) /\ Len(<<"TAP">>) \in Nat
      /\ \A i \in 1..Len(s2) : s3[i] = s2[i]
  BY <1>4, <1>7, <1>10, ListsBoth
<1>. HIDE DEF s3, t3
<1>12. /\ Lists(s4, t4) /\ Len(s4) = Len(s3) + Len(card) /\ Len(card) \in Nat
      /\ \A i \in 1..Len(s3) : s4[i] = s3[i]
  BY <1>3, <1>7, <1>11, ListsBoth
<1>. HIDE DEF s4, t4
<1>13. /\ Lists(s5, t5) /\ Len(s5) = Len(s4) + Len(<<"META">>) /\ Len(<<"META">>) \in Nat
       /\ \A i \in 1..Len(s4) : s5[i] = s4[i]
  BY <1>4, <1>7, <1>12, ListsBoth
<1>. HIDE DEF s5, t5
<1>14. Len(s2) >= 6 /\ s2[2] = "MEM" /\ s2[5] = "VID" /\ Len(s2) \in Nat
  BY <1>1, <1>10
<1>15. Len(s3) >= 6 /\ s3[2] = "MEM" /\ s3[5] = "VID" /\ Len(s3) \in Nat
  BY <1>11, <1>14
<1>16. Len(s4) >= 6 /\ s4[2] = "MEM" /\ s4[5] = "VID" /\ Len(s4) \in Nat
  BY <1>12, <1>15
<1>17. Len(s5) >= 6 /\ s5[2] = "MEM" /\ s5[5] = "VID" /\ Len(s5) \in Nat
  BY <1>13, <1>16
<1>. QED BY <1>5, <1>13, <1>17

\* Every tag is that of a part that is stored.
LEMMA TagsStored == ASSUME NEW d \in Devices PROVE Tags(d) \subseteq State!Stored
BY DEF Tags, State!Stored

\* What the proofs use of the sections of a machine that was saved.
Holding(s) ==
  /\ Sec(s) \in Seq(State!Stored) /\ Len(Sec(s)) \in Nat /\ Len(Sec(s)) >= 6
  /\ Sec(s)[2] = "MEM" /\ Sec(s)[5] = "VID"
  /\ \A i \in 1..Len(Sec(s)) : Sec(s)[i] \in State!Stored /\ s.machine[Sec(s)[i]] \in Nat
  /\ \A i, j \in 1..Len(Sec(s)) : Sec(s)[i] = Sec(s)[j] => i = j
  /\ "disk" \in s.devices <=> \E i \in 1..Len(Sec(s)) : Sec(s)[i] = "MDC"
  /\ "serial" \in s.devices <=> \E i \in 1..Len(Sec(s)) : Sec(s)[i] = "SER"

\* A machine that was saved has its sections.
LEMMA SavedHolds == ASSUME NEW s, s.devices \in Devices, IsMachine(s.machine) PROVE Holding(s)
<1>. DEFINE T == Tags(s.devices)
<1>1. /\ Lists(Sec(s), T) /\ Len(Sec(s)) \in Nat /\ Len(Sec(s)) >= 6
      /\ Sec(s)[2] = "MEM" /\ Sec(s)[5] = "VID"
  BY SectionsList DEF Sec
<1>2. T \subseteq State!Stored
  BY TagsStored
<1>3. Sec(s) \in Seq(T) /\ \A i, j \in 1..Len(Sec(s)) : Sec(s)[i] = Sec(s)[j] => i = j
  BY <1>1 DEF Lists
<1>4. \A i \in 1..Len(Sec(s)) : Sec(s)[i] \in T
  BY <1>3, ElementOfSeq
<1>5. \A t \in T : \E i \in 1..Len(Sec(s)) : Sec(s)[i] = t
  BY <1>1 DEF Lists
<1>6. ("MDC" \in T <=> "disk" \in s.devices) /\ ("SER" \in T <=> "serial" \in s.devices)
  BY DEF Tags
<1>7. Sec(s) \in Seq(State!Stored)
  BY <1>2, <1>3
<1>8. \A i \in 1..Len(Sec(s)) : Sec(s)[i] \in State!Stored /\ s.machine[Sec(s)[i]] \in Nat
  BY <1>2, <1>4 DEF IsMachine
<1>9. "disk" \in s.devices <=> \E i \in 1..Len(Sec(s)) : Sec(s)[i] = "MDC"
  BY <1>4, <1>5, <1>6
<1>10. "serial" \in s.devices <=> \E i \in 1..Len(Sec(s)) : Sec(s)[i] = "SER"
  BY <1>4, <1>5, <1>6
<1>. QED BY <1>1, <1>3, <1>7, <1>8, <1>9, <1>10 DEF Holding

\* What a finished section of a file says.
LEMMA OfSects ==
  ASSUME NEW s, Holding(s), NEW i \in 1..Len(Sec(s))
  PROVE  /\ Of(s, i) \in Sects /\ Of(s, i).tag = Sec(s)[i] /\ Of(s, i).moment = s.machine[Sec(s)[i]]
         /\ Of(s, i).sized = TRUE
BY DEF Holding, Of, Sects, State!Section

\* What a section without its size says.
LEMMA UnsizedOfSects ==
  ASSUME NEW s, Holding(s), NEW i \in 1..Len(Sec(s))
  PROVE  UnsizedOf(s, i) \in Sects /\ UnsizedOf(s, i).sized = FALSE
BY DEF Holding, UnsizedOf, Sects, State!Section

-----------------------------------------------------------------------------
(* The steps *)

\* A kill ends a save and a load where they are.
LEMMA RestartKeeps == ASSUME UnitsAssumption, StateInv, State!Restart PROVE StateInv'
<1>1. /\ devices' \in Machines /\ machine' = State!Booted /\ writes' = <<>> /\ unread' = <<>>
      /\ loading' = State!Nothing /\ UNCHANGED <<now, file, saved>>
  BY DEF State!Restart, State!Settled
<1>2. Machines \subseteq Devices
  BY DEF UnitsAssumption, State!SaveStateAssumption, Devices
<1>3. IsMachine(machine')
  BY <1>1 DEF IsMachine, State!Booted, State!Parts, State!Stored
<1>4. MachineInv'
  BY <1>1, <1>2, <1>3 DEF StateInv, MachineInv, IsMachine
<1>5. FileInv'
  BY <1>1 DEF StateInv, FileInv, IsSaveOf
<1>6. QueuesInv' /\ SavingInv' /\ LoadingInv'
  BY <1>1, EmptySeq DEF QueuesInv, SavingInv, LoadingInv
<1>7. State!SectionsOfOneSave'
  BY <1>1 DEF State!SectionsOfOneSave
<1>. QED BY <1>4, <1>5, <1>6, <1>7 DEF StateInv

\* The file and what was saved outlive the frames.
LEMMA RunKeeps == ASSUME StateInv, State!Run PROVE StateInv'
<1>1. /\ writes = <<>> /\ unread = <<>> /\ now' = now + 1 /\ loading' = State!Nothing
      /\ UNCHANGED <<devices, file, writes, unread, saved>>
      /\ machine' = [p \in State!Parts |-> CASE p = "picture" -> <<now', now'>>
                                             [] p = "sector" -> <<now'>>
                                             [] p \in State!Running \cup {"pointers"} -> now'
                                             [] OTHER -> machine[p]]
  BY DEF State!Run, State!Idle, State!Settled
<1>2. now' \in Nat
  BY <1>1 DEF StateInv, MachineInv
<1>3. IsMachine(machine')
  BY <1>1, <1>2 DEF StateInv, MachineInv, IsMachine, State!Parts, State!Stored, State!Running
<1>4. MachineInv'
  BY <1>1, <1>2, <1>3 DEF StateInv, MachineInv, IsMachine
<1>5. FileInv'
  BY <1>1 DEF StateInv, FileInv, IsSaveOf
<1>6. QueuesInv' /\ SavingInv' /\ LoadingInv'
  BY <1>1, EmptySeq DEF QueuesInv, SavingInv, LoadingInv
<1>7. State!SectionsOfOneSave'
  BY <1>1 DEF State!SectionsOfOneSave
<1>. QED BY <1>4, <1>5, <1>6, <1>7 DEF StateInv

\* A save starts with no section written and the CRC taken away.
LEMMA SaveKeeps == ASSUME StateInv, State!Save PROVE StateInv'
<1>0. PICK s : s = [machine |-> machine, devices |-> devices]
  OBVIOUS
<1>1. /\ writes = <<>> /\ unread = <<>> /\ writes' = Append(State!Sections(devices), "crc")
      /\ file' = State!NoFile /\ saved' = saved \cup {s} /\ loading' = State!Nothing
      /\ UNCHANGED <<devices, machine, now, unread>>
  BY <1>0 DEF State!Save, State!Idle, State!Settled
<1>2. s.machine = machine /\ s.devices = devices
  BY <1>0
<1>3. Holding(s)
  BY <1>2, SavedHolds DEF StateInv, MachineInv
<1>4. Sec(s) = State!Sections(devices)
  BY <1>2 DEF Sec
<1>5. MachineInv'
  BY <1>1, <1>2 DEF StateInv, MachineInv, IsMachine
<1>6. FileInv'
  BY <1>1, EmptySeq DEF FileInv, State!NoFile
<1>7. /\ writes' \in Seq(State!Stored \cup {"crc"}) /\ Len(writes') = Len(Sec(s)) + 1
      /\ \A i \in 1..Len(Sec(s)) : writes'[i] = Sec(s)[i]
      /\ writes'[Len(Sec(s)) + 1] = "crc"
  <2>1. Sec(s) \in Seq(State!Stored \cup {"crc"})
    BY <1>3 DEF Holding
  <2>. QED BY <1>1, <1>4, <2>1, AppendProperties
<1>8. QueuesInv'
  BY <1>1, <1>7, EmptySeq DEF QueuesInv
<1>9. Saving(s, 0)'
  <2>1. Len(file'.body) = 0
    BY <1>1 DEF State!NoFile
  <2>2. \A i \in 1..Len(Sec(s)) + 1 : writes'[i] = IF 0 + i <= Len(Sec(s)) THEN Sec(s)[0 + i] ELSE "crc"
    BY <1>3, <1>7 DEF Holding
  <2>3. Len(writes') = Len(Sec(s)) - 0 + 1
    BY <1>3, <1>7 DEF Holding
  <2>. QED BY <1>7, <2>1, <2>2, <2>3 DEF Saving
<1>10. SavingInv'
  <2>1. file'.crc = <<>>
    BY <1>1 DEF State!NoFile
  <2>2. 0 \in 0..Len(Sec(s))
    BY <1>3 DEF Holding
  <2>. QED BY <1>1, <1>2, <1>9, <2>1, <2>2 DEF SavingInv
<1>11. LoadingInv' /\ State!SectionsOfOneSave'
  BY <1>1 DEF LoadingInv, State!SectionsOfOneSave
<1>. QED BY <1>5, <1>6, <1>8, <1>10, <1>11 DEF StateInv

\* The save that goes on, and how far it is.
SavingAt(s, k) ==
  /\ s \in saved /\ s.machine = machine /\ s.devices = devices /\ Holding(s)
  /\ k \in 0..Len(Sec(s)) /\ Len(Sec(s)) \in Nat /\ Len(file.body) \in Nat /\ Saving(s, k)
  /\ \A i \in 1..Len(Sec(s)) : Sec(s)[i] # "crc"
  /\ writes[1] = IF k < Len(Sec(s)) THEN Sec(s)[k + 1] ELSE "crc"

\* A save that goes on is somewhere between two sections.
LEMMA SavesAt == ASSUME StateInv, writes # <<>> PROVE \E s, k : SavingAt(s, k)
<1>1. PICK s \in saved : /\ s.machine = machine /\ s.devices = devices
                         /\ \E k \in 0..Len(Sec(s)) : Saving(s, k)
  BY DEF StateInv, SavingInv
<1>2. PICK k \in 0..Len(Sec(s)) : Saving(s, k)
  BY <1>1
<1>3. Holding(s)
  BY SavedHolds DEF StateInv, MachineInv
<1>4. \A i \in 1..Len(Sec(s)) : Sec(s)[i] # "crc"
  BY <1>3 DEF Holding, State!Stored
<1>5. Len(Sec(s)) \in Nat /\ Len(file.body) \in Nat
  BY <1>3, LenProperties DEF Holding, StateInv, FileInv
<1>6. writes[1] = IF k < Len(Sec(s)) THEN Sec(s)[k + 1] ELSE "crc"
  BY <1>2, <1>5 DEF Saving
<1>. QED BY <1>1, <1>2, <1>3, <1>4, <1>5, <1>6 DEF SavingAt

\* What a step of a save leaves to be shown.
LEMMA SavingKeeps ==
  ASSUME StateInv, State!Writes, writes # <<>>,
         file' = [body |-> file'.body, whole |-> file'.whole, crc |-> file'.crc],
         file'.body \in Seq(Sects), file'.whole => file'.body # <<>>,
         file'.crc # <<>> => \E s \in saved : IsSaveOf(s)',
         writes' \in Seq(State!Stored \cup {"crc"}),
         SavingInv'
  PROVE  StateInv'
<1>1. UNCHANGED <<devices, machine, now, unread, saved, loading, before>>
  BY DEF State!Writes
<1>2. unread = <<>>
  BY DEF StateInv, QueuesInv
<1>3. MachineInv'
  BY <1>1 DEF StateInv, MachineInv, IsMachine
<1>4. FileInv'
  BY <1>1 DEF FileInv
<1>5. QueuesInv' /\ LoadingInv'
  BY <1>1, <1>2 DEF StateInv, QueuesInv, LoadingInv
<1>6. State!SectionsOfOneSave'
  BY <1>1 DEF StateInv, State!SectionsOfOneSave, State!Restores, State!Stays
<1>. QED BY <1>3, <1>4, <1>5, <1>6 DEF StateInv

\* The first of a queue.
LEMMA FirstIsHead == ASSUME NEW S, NEW s \in Seq(S), s # <<>> PROVE Head(s) = s[1] /\ Len(s) \in Nat /\ Len(s) >= 1
BY EmptySeq, LenProperties

\* The next section joins the file without its size.
LEMMA WriteSectionKeeps == ASSUME StateInv, State!WriteSection PROVE StateInv'
<1>1. /\ writes # <<>> /\ Head(writes) # "crc" /\ ~State!Unsized /\ UNCHANGED writes /\ State!Writes
      /\ file' = [file EXCEPT !.body = Append(@, State!Section(Head(writes), machine[Head(writes)], FALSE)), !.whole = TRUE]
  BY DEF State!WriteSection
<1>2. PICK s, k : SavingAt(s, k)
  BY <1>1, SavesAt
<1>3. writes \in Seq(State!Stored \cup {"crc"}) /\ file.body \in Seq(Sects)
      /\ file = [body |-> file.body, whole |-> file.whole, crc |-> file.crc]
  BY DEF StateInv, QueuesInv, FileInv
<1>4. Head(writes) = writes[1]
  BY <1>1, <1>3, FirstIsHead
<1>5. k < Len(Sec(s)) /\ Head(writes) = Sec(s)[k + 1] /\ k + 1 \in 1..Len(Sec(s)) /\ k \in Nat
  BY <1>1, <1>2, <1>4 DEF SavingAt
<1>6. Len(file.body) = k
  <2>1. CASE Len(file.body) = k + 1
    <3>1. file.body[k + 1].sized = FALSE
      <4>1. Len(file.body) # k
        BY <1>5, <2>1
      <4>2. file.body[k + 1] = UnsizedOf(s, k + 1)
        BY <1>2, <4>1 DEF SavingAt, Saving
      <4>. QED BY <1>2, <1>5, <4>2, UnsizedOfSects DEF SavingAt
    <3>2. file.body # <<>>
      BY <1>5, <2>1
    <3>3. State!Last(file.body) = file.body[k + 1]
      BY <2>1 DEF State!Last
    <3>. QED BY <1>1, <3>1, <3>2, <3>3 DEF State!Unsized
  <2>. QED BY <1>2, <2>1 DEF SavingAt, Saving
<1>7. State!Section(Head(writes), machine[Head(writes)], FALSE) = UnsizedOf(s, k + 1)
  BY <1>2, <1>5 DEF SavingAt, UnsizedOf
<1>8. file' = [body |-> Append(file.body, UnsizedOf(s, k + 1)), whole |-> TRUE, crc |-> file.crc]
  BY <1>1, <1>3, <1>7
<1>9. UnsizedOf(s, k + 1) \in Sects
  BY <1>2, <1>5, UnsizedOfSects DEF SavingAt
<1>10. /\ file'.body \in Seq(Sects) /\ file'.body # <<>> /\ Len(file'.body) = k + 1
       /\ \A i \in 1..k : file'.body[i] = file.body[i]
       /\ file'.body[k + 1] = UnsizedOf(s, k + 1)
  <2>1. file'.body = Append(file.body, UnsizedOf(s, k + 1))
    BY <1>8
  <2>2. file.body \in Seq(Sects)
    BY <1>3
  <2>3. /\ Append(file.body, UnsizedOf(s, k + 1)) \in Seq(Sects)
        /\ Append(file.body, UnsizedOf(s, k + 1)) # <<>>
        /\ Len(Append(file.body, UnsizedOf(s, k + 1))) = Len(file.body) + 1
        /\ \A i \in 1..Len(file.body) : Append(file.body, UnsizedOf(s, k + 1))[i] = file.body[i]
        /\ Append(file.body, UnsizedOf(s, k + 1))[Len(file.body) + 1] = UnsizedOf(s, k + 1)
    BY <1>9, <2>2, AppendProperties
  <2>. QED BY <1>6, <2>1, <2>3
<1>11. file'.crc = <<>>
  BY <1>1, <1>8 DEF StateInv, SavingInv
<1>12. Saving(s, k)'
  BY <1>1, <1>2, <1>5, <1>10 DEF SavingAt, Saving, Of, UnsizedOf
<1>13. SavingInv'
  <2>1. s \in saved' /\ s.machine = machine' /\ s.devices = devices' /\ k \in 0..Len(Sec(s))
    BY <1>1, <1>2 DEF SavingAt, State!Writes
  <2>. QED BY <1>11, <1>12, <2>1 DEF SavingInv
<1>14. file' = [body |-> file'.body, whole |-> file'.whole, crc |-> file'.crc]
  BY <1>8
<1>15. writes' \in Seq(State!Stored \cup {"crc"})
  BY <1>1, <1>3
<1>. QED BY <1>1, <1>10, <1>11, <1>13, <1>14, <1>15, SavingKeeps

\* The size finishes a section.
LEMMA NowSized ==
  ASSUME NEW tag, NEW moment
  PROVE  [State!Section(tag, moment, FALSE) EXCEPT !.sized = TRUE] = State!Section(tag, moment, TRUE)
<1>1. ASSUME NEW b, NEW c
      PROVE  [State!Section(tag, moment, b) EXCEPT !.sized = c] = State!Section(tag, moment, c)
  BY DEF State!Section
<1>. QED BY <1>1

\* Filling in one section leaves the others.
LEMMA OneReplaced ==
  ASSUME NEW b \in Seq(Sects), NEW j \in 1..Len(b), NEW e \in Sects, NEW n, n = [b EXCEPT ![j] = e]
  PROVE  n \in Seq(Sects) /\ Len(n) = Len(b) /\ \A i \in 1..Len(b) : n[i] = IF i = j THEN e ELSE b[i]
BY ExceptSeq

\* The size makes it one section more.
LEMMA WriteSizeKeeps == ASSUME StateInv, State!WriteSize PROVE StateInv'
<1>1. /\ writes # <<>> /\ State!Unsized /\ State!Writes /\ writes' = Tail(writes)
      /\ file' = [file EXCEPT !.body[Len(file.body)].sized = TRUE]
  BY DEF State!WriteSize
<1>2. PICK s, k : SavingAt(s, k)
  BY <1>1, SavesAt
<1>3. writes \in Seq(State!Stored \cup {"crc"}) /\ file.body \in Seq(Sects) /\ file.body # <<>>
      /\ file = [body |-> file.body, whole |-> file.whole, crc |-> file.crc]
  BY <1>1 DEF StateInv, QueuesInv, FileInv, State!Unsized
<1>4. k \in Nat /\ Len(file.body) \in Nat /\ Len(file.body) >= 1
  BY <1>2, <1>3, FirstIsHead DEF SavingAt
<1>5. ~file.body[Len(file.body)].sized
  BY <1>1 DEF State!Unsized, State!Last
<1>6. Len(file.body) = k + 1 /\ k < Len(Sec(s)) /\ file.body[k + 1] = UnsizedOf(s, k + 1)
  <2>1. CASE Len(file.body) = k
    <3>1. k \in 1..Len(Sec(s)) /\ k \in 1..k
      BY <1>2, <1>4, <2>1 DEF SavingAt
    <3>2. file.body[k] = Of(s, k)
      BY <1>2, <3>1 DEF SavingAt, Saving
    <3>3. Of(s, k).sized = TRUE
      BY <1>2, <3>1, OfSects DEF SavingAt
    <3>. QED BY <1>5, <2>1, <3>3, <3>2
  <2>. QED BY <1>2, <2>1 DEF SavingAt, Saving
<1>7. k + 1 \in 1..Len(Sec(s)) /\ k + 1 \in 1..Len(file.body) /\ k + 1 \in 0..Len(Sec(s))
  BY <1>2, <1>4, <1>6 DEF SavingAt
<1>8. [file.body[k + 1] EXCEPT !.sized = TRUE] = Of(s, k + 1)
  BY <1>6, NowSized DEF Of, UnsizedOf
<1>9. file' = [body |-> [file.body EXCEPT ![k + 1] = Of(s, k + 1)], whole |-> file.whole, crc |-> file.crc]
  BY <1>1, <1>3, <1>6, <1>8
<1>10. Of(s, k + 1) \in Sects
  BY <1>2, <1>7, OfSects DEF SavingAt
<1>11. /\ file'.body \in Seq(Sects) /\ Len(file'.body) = k + 1
       /\ \A i \in 1..k + 1 : file'.body[i] = IF i = k + 1 THEN Of(s, k + 1) ELSE file.body[i]
  <2>1. file'.body = [file.body EXCEPT ![k + 1] = Of(s, k + 1)]
    BY <1>9
  <2>2. file.body \in Seq(Sects) /\ Len(file.body) = k + 1
    BY <1>3, <1>6
  <2>3. file'.body \in Seq(Sects) /\ Len(file'.body) = Len(file.body)
    BY <1>7, <1>10, <2>1, <2>2, OneReplaced
  <2>4. \A i \in 1..Len(file.body) : file'.body[i] = IF i = k + 1 THEN Of(s, k + 1) ELSE file.body[i]
    BY <1>7, <1>10, <2>1, <2>2, OneReplaced
  <2>. QED BY <2>2, <2>3, <2>4
<1>12. file'.body # <<>>
  BY <1>4, <1>11
<1>13. /\ writes' \in Seq(State!Stored \cup {"crc"}) /\ Len(writes') = Len(writes) - 1
       /\ \A i \in 1..Len(writes') : writes'[i] = writes[i + 1]
  BY <1>1, <1>3, HeadTailProperties
<1>14. Len(writes) = Len(Sec(s)) - k + 1 /\ Len(Sec(s)) \in Nat
  BY <1>2 DEF SavingAt, Saving
<1>15. Saving(s, k + 1)'
  <2>1. Len(writes') = Len(Sec(s)) - (k + 1) + 1
    BY <1>4, <1>13, <1>14
  <2>2. ASSUME NEW i \in 1..Len(writes')
        PROVE writes'[i] = IF k + 1 + i <= Len(Sec(s)) THEN Sec(s)[k + 1 + i] ELSE "crc"
    <3>1. i + 1 \in 1..Len(writes) /\ k + (i + 1) = k + 1 + i
      BY <1>4, <1>13, <1>14
    <3>2. writes[i + 1] = IF k + (i + 1) <= Len(Sec(s)) THEN Sec(s)[k + (i + 1)] ELSE "crc"
      BY <1>2, <3>1 DEF SavingAt, Saving
    <3>. QED BY <1>13, <3>1, <3>2
  <2>3. ASSUME NEW i \in 1..k + 1 PROVE file'.body[i] = Of(s, i)
    <3>1. CASE i = k + 1
      BY <1>11, <3>1
    <3>2. CASE i # k + 1
      <4>1. i \in 1..k
        BY <1>4, <3>2
      <4>. QED BY <1>2, <1>11, <3>2, <4>1 DEF SavingAt, Saving
    <3>. QED BY <3>1, <3>2
  <2>. QED BY <1>11, <2>1, <2>2, <2>3 DEF Saving, Of, UnsizedOf
<1>16. file'.crc = <<>>
  BY <1>1, <1>9 DEF StateInv, SavingInv
<1>17. SavingInv'
  <2>1. s \in saved' /\ s.machine = machine' /\ s.devices = devices'
    BY <1>1, <1>2 DEF SavingAt, State!Writes
  <2>. QED BY <1>7, <1>15, <1>16, <2>1 DEF SavingInv
<1>18. file' = [body |-> file'.body, whole |-> file'.whole, crc |-> file'.crc]
  BY <1>9
<1>. QED BY <1>1, <1>11, <1>12, <1>13, <1>16, <1>17, <1>18, SavingKeeps

\* Only a save that got through all its sections writes a CRC.
LEMMA WriteCrcKeeps == ASSUME StateInv, State!WriteCrc PROVE StateInv'
<1>1. /\ writes = <<"crc">> /\ writes' = <<>> /\ State!Writes
      /\ file' = [file EXCEPT !.crc = State!Crc(file.body)]
  BY DEF State!WriteCrc
<1>2. writes # <<>> /\ Len(writes) = 1
  BY <1>1
<1>3. PICK s, k : SavingAt(s, k)
  BY <1>2, SavesAt
<1>4. /\ file.body \in Seq(Sects) /\ (file.whole => file.body # <<>>)
      /\ file = [body |-> file.body, whole |-> file.whole, crc |-> file.crc]
  BY DEF StateInv, FileInv
<1>5. k = Len(Sec(s)) /\ Len(file.body) = k
  <2>1. Len(writes) = Len(Sec(s)) - k + 1 /\ k \in 0..Len(Sec(s)) /\ Len(Sec(s)) \in Nat
    BY <1>3 DEF SavingAt, Saving
  <2>2. Len(writes) = 1
    BY <1>2
  <2>3. 1 = Len(Sec(s)) - k + 1
    BY <2>1, <2>2
  <2>4. k = Len(Sec(s))
    BY <2>1, <2>3
  <2>5. ~(k < Len(Sec(s)))
    BY <2>1, <2>4
  <2>. QED BY <1>3, <2>4, <2>5 DEF SavingAt, Saving
<1>6. file' = [body |-> file.body, whole |-> file.whole, crc |-> State!Crc(file.body)]
  BY <1>1, <1>4
<1>7. IsSaveOf(s)'
  BY <1>3, <1>5, <1>6 DEF SavingAt, Saving, IsSaveOf, Of
<1>8. SavingInv' /\ writes' \in Seq(State!Stored \cup {"crc"})
  BY <1>1, EmptySeq DEF SavingInv
<1>9. s \in saved
  BY <1>3 DEF SavingAt
<1>. QED BY <1>1, <1>2, <1>4, <1>6, <1>7, <1>8, <1>9, SavingKeeps

\* A save that fails leaves no CRC.
LEMMA WriteFailsKeeps == ASSUME StateInv, State!WriteFails PROVE StateInv'
<1>1. writes = <<"crc">> /\ writes' = <<>> /\ State!Writes /\ UNCHANGED file
  BY DEF State!WriteFails
<1>2. writes # <<>>
  BY <1>1
<1>3. FileInv
  BY DEF StateInv
<1>4. SavingInv' /\ writes' \in Seq(State!Stored \cup {"crc"})
  BY <1>1, EmptySeq DEF SavingInv
<1>5. file'.crc # <<>> => \E s \in saved : IsSaveOf(s)'
  BY <1>1, <1>3 DEF FileInv, IsSaveOf
<1>. QED BY <1>1, <1>2, <1>3, <1>4, <1>5, SavingKeeps DEF FileInv

\* A file that is accepted has a CRC and is a save.
LEMMA LoadKeeps == ASSUME StateInv, State!Load PROVE StateInv'
<1>1. /\ writes = <<>> /\ file.whole /\ file.crc = file.body
      /\ unread' = file.body /\ loading' = State!Nothing /\ before' = machine
      /\ UNCHANGED <<devices, machine, now, file, writes, saved>>
  BY DEF State!Load, State!Idle, State!Accepts, State!Crc
<1>2. file.body \in Seq(Sects) /\ file.body # <<>> /\ \E s \in saved : IsSaveOf(s)
  BY <1>1 DEF StateInv, FileInv
<1>3. PICK s \in saved : IsSaveOf(s)
  BY <1>2
<1>4. Holding(s)
  BY SavedHolds DEF StateInv, MachineInv
<1>5. Len(Sec(s)) \in Nat
  BY <1>4 DEF Holding
<1>6. MachineInv' /\ FileInv'
  BY <1>1 DEF StateInv, MachineInv, IsMachine, FileInv, IsSaveOf
<1>7. QueuesInv' /\ SavingInv'
  BY <1>1, <1>2 DEF StateInv, QueuesInv, SavingInv
<1>8. Loading(s, 0)'
  <2>1. Len(unread') = Len(Sec(s)) - 0 /\ \A i \in 1..Len(unread') : unread'[i] = Of(s, 0 + i)
    BY <1>1, <1>3, <1>5 DEF IsSaveOf
  <2>2. ASSUME NEW i \in 1..0 PROVE FALSE
    OBVIOUS
  <2>3. Brought(s, 0)'
    BY <2>2 DEF Brought
  <2>4. Kept(s, 0)'
    BY <1>1 DEF Kept
  <2>. QED BY <2>1, <2>3, <2>4 DEF Loading, Of
<1>9. IsSaveOf(s)'
  BY <1>1, <1>3 DEF IsSaveOf, Of
<1>10. 0 \in 0..Len(Sec(s)) /\ s \in saved'
  BY <1>1, <1>5
<1>11. LoadingInv'
  BY <1>8, <1>9, <1>10 DEF LoadingInv
<1>12. State!SectionsOfOneSave'
  BY <1>1 DEF State!SectionsOfOneSave
<1>. QED BY <1>6, <1>7, <1>11, <1>12 DEF StateInv

\* A file that is a machine's save names the machine's devices.
LEMMA HoldsDevices ==
  ASSUME NEW s, Holding(s), s.devices \in Devices, IsSaveOf(s), file.body \in Seq(Sects)
  PROVE  State!Holds = s.devices
<1>1. DOMAIN file.body = 1..Len(Sec(s))
  BY LenProperties DEF IsSaveOf
<1>2. \A i \in 1..Len(Sec(s)) : file.body[i].tag = Sec(s)[i]
  <2>1. ASSUME NEW i \in 1..Len(Sec(s)) PROVE file.body[i].tag = Sec(s)[i]
    <3>1. file.body[i] = Of(s, i)
      BY DEF IsSaveOf
    <3>2. Of(s, i).tag = Sec(s)[i]
      BY OfSects
    <3>. QED BY <3>1, <3>2
  <2>. QED BY <2>1
<1>3. /\ "disk" \in s.devices <=> \E i \in 1..Len(Sec(s)) : Sec(s)[i] = "MDC"
      /\ "serial" \in s.devices <=> \E i \in 1..Len(Sec(s)) : Sec(s)[i] = "SER"
  BY DEF Holding
<1>4. \A t : (\E i \in 1..Len(Sec(s)) : Sec(s)[i] = t) <=> \E i \in DOMAIN file.body : file.body[i].tag = t
  BY <1>1, <1>2, Zenon
<1>5. /\ "disk" \in s.devices <=> \E i \in DOMAIN file.body : file.body[i].tag = "MDC"
      /\ "serial" \in s.devices <=> \E i \in DOMAIN file.body : file.body[i].tag = "SER"
  BY <1>3, <1>4, Zenon
<1>. QED BY <1>5 DEF State!Holds, Devices

\* One section brings its part, and what is worked out of it, and no other.
LEMMA OneLoaded ==
  ASSUME IsMachine(machine), NEW tag \in State!Stored, NEW moment \in Nat,
         NEW e, e.tag = tag, e.moment = moment, machine' = State!Loaded(e)
  PROVE  /\ IsMachine(machine')
         /\ \A p \in State!Stored \ {tag} : machine'[p] = machine[p]
         /\ machine'[tag] = IF tag = "META" THEN machine[tag] ELSE moment
         /\ machine'["picture"] = IF tag = "VID" THEN <<machine["MEM"], moment>> ELSE machine["picture"]
         /\ machine'["pointers"] = IF tag = "MDC" THEN moment ELSE machine["pointers"]
         /\ machine'["sector"] = IF tag = "MDC" THEN State!NoSector ELSE machine["sector"]
         /\ \A p \in State!Unsaved : machine'[p] = machine[p]
<1>. DEFINE n == [machine EXCEPT ![tag] = moment]
<1>1. machine = [p \in State!Parts |-> machine[p]] /\ \A p \in State!Stored : machine[p] \in Nat
  BY DEF IsMachine
<1>2. /\ State!Stored \subseteq State!Parts /\ {"picture", "pointers", "sector"} \subseteq State!Parts \ State!Stored
      /\ "MEM" \in State!Stored
      /\ State!Unsaved \subseteq State!Parts \ (State!Stored \cup {"picture", "pointers", "sector"})
  BY DEF State!Parts, State!Stored, State!Unsaved
<1>3. /\ n = [p \in State!Parts |-> n[p]] /\ n[tag] = moment
      /\ \A p \in State!Parts \ {tag} : n[p] = machine[p]
  BY <1>1, <1>2
<1>4. machine' = CASE tag = "VID" -> [n EXCEPT !["picture"] = <<n["MEM"], n["VID"]>>]
                   [] tag = "MDC" -> [n EXCEPT !["pointers"] = n["MDC"], !["sector"] = State!NoSector]
                   [] tag = "META" -> machine
                   [] OTHER -> n
  BY DEF State!Loaded
<1>. HIDE DEF n
<1>5. CASE tag = "VID"
  <2>1. machine' = [n EXCEPT !["picture"] = <<n["MEM"], n["VID"]>>]
    BY <1>4, <1>5
  <2>2. n["MEM"] = machine["MEM"] /\ n["VID"] = moment
    BY <1>2, <1>3, <1>5
  <2>3. machine' = [p \in State!Parts |-> IF p = "picture" THEN <<machine["MEM"], moment>> ELSE n[p]]
    BY <1>2, <1>3, <2>1, <2>2
  <2>. QED BY <1>1, <1>2, <1>3, <1>5, <2>3 DEF IsMachine
<1>6. CASE tag = "MDC"
  <2>1. machine' = [n EXCEPT !["pointers"] = moment, !["sector"] = State!NoSector]
    BY <1>3, <1>4, <1>6
  <2>2. machine' = [p \in State!Parts |->
                      IF p = "pointers" THEN moment ELSE IF p = "sector" THEN State!NoSector ELSE n[p]]
    BY <1>2, <1>3, <2>1
  <2>. QED BY <1>1, <1>2, <1>3, <1>6, <2>2 DEF IsMachine
<1>7. CASE tag = "META"
  <2>1. machine' = machine
    BY <1>4, <1>7
  <2>. QED BY <1>1, <1>7, <2>1 DEF IsMachine
<1>8. CASE tag \notin {"VID", "MDC", "META"}
  <2>1. machine' = n
    BY <1>4, <1>8
  <2>. QED BY <1>1, <1>2, <1>3, <1>8, <2>1 DEF IsMachine
<1>. QED BY <1>5, <1>6, <1>7, <1>8

\* Each section loaded is one more of the save in the machine.
LEMMA LoadSectionKeeps == ASSUME StateInv, State!LoadSection PROVE StateInv'
<1>1. /\ unread # <<>> /\ unread' = Tail(unread) /\ machine' = State!Loaded(Head(unread))
      /\ loading' = IF unread' = <<>> THEN State!Holds ELSE State!Nothing
      /\ UNCHANGED <<devices, now, file, writes, saved, before>>
  BY DEF State!LoadSection
<1>2. PICK s \in saved : IsSaveOf(s) /\ \E k \in 0..Len(Sec(s)) : Loading(s, k)
  BY <1>1 DEF StateInv, LoadingInv
<1>3. PICK k \in 0..Len(Sec(s)) : Loading(s, k)
  BY <1>2
<1>4. Holding(s) /\ s.devices \in Devices /\ IsMachine(machine)
  BY SavedHolds DEF StateInv, MachineInv
<1>5. unread \in Seq(Sects) /\ writes = <<>> /\ file.body \in Seq(Sects)
  BY <1>1 DEF StateInv, QueuesInv, FileInv
<1>6. Head(unread) = unread[1] /\ Len(unread) \in Nat /\ Len(unread) >= 1
  BY <1>1, <1>5, FirstIsHead
<1>7. Len(unread) = Len(Sec(s)) - k /\ Len(Sec(s)) \in Nat /\ k \in Nat /\ Brought(s, k) /\ Kept(s, k)
  BY <1>3, <1>4 DEF Loading, Holding
<1>8. k + 1 \in 1..Len(Sec(s)) /\ k + 1 \in 0..Len(Sec(s))
  BY <1>6, <1>7
<1>9. unread[1] = Of(s, k + 1)
  BY <1>3, <1>6 DEF Loading
<1>. DEFINE tag == Sec(s)[k + 1]
<1>10. /\ tag \in State!Stored /\ s.machine[tag] \in Nat
       /\ Head(unread).tag = tag /\ Head(unread).moment = s.machine[tag]
  <2>1. tag \in State!Stored /\ s.machine[tag] \in Nat
    BY <1>4, <1>8 DEF Holding
  <2>2. Of(s, k + 1).tag = tag /\ Of(s, k + 1).moment = s.machine[tag]
    BY <1>4, <1>8, OfSects
  <2>. QED BY <1>6, <1>9, <2>1, <2>2
<1>11. /\ IsMachine(machine')
       /\ \A p \in State!Stored \ {tag} : machine'[p] = machine[p]
       /\ machine'[tag] = IF tag = "META" THEN machine[tag] ELSE s.machine[tag]
       /\ machine'["picture"] = IF tag = "VID" THEN <<machine["MEM"], s.machine[tag]>> ELSE machine["picture"]
       /\ machine'["pointers"] = IF tag = "MDC" THEN s.machine[tag] ELSE machine["pointers"]
       /\ machine'["sector"] = IF tag = "MDC" THEN State!NoSector ELSE machine["sector"]
       /\ \A p \in State!Unsaved : machine'[p] = machine[p]
  BY <1>1, <1>4, <1>10, OneLoaded
<1>12. \A i \in 1..k : Sec(s)[i] # tag /\ Sec(s)[i] \in State!Stored /\ i \in 1..Len(Sec(s))
  BY <1>4, <1>7, <1>8 DEF Holding
<1>. HIDE DEF tag
<1>13. Brought(s, k + 1)'
  <2>1. ASSUME NEW i \in 1..k + 1, Sec(s)[i] # "META" PROVE machine'[Sec(s)[i]] = s.machine[Sec(s)[i]]
    <3>1. CASE i = k + 1
      BY <1>11, <2>1, <3>1 DEF tag
    <3>2. CASE i # k + 1
      <4>1. i \in 1..k
        BY <1>7, <3>2
      <4>. QED BY <1>7, <1>11, <1>12, <2>1, <4>1 DEF Brought
    <3>. QED BY <3>1, <3>2
  <2>2. ASSUME k + 1 >= 5 PROVE machine'["picture"] = <<s.machine["MEM"], s.machine["VID"]>>
    <3>1. CASE k >= 5
      <4>1. 5 \in 1..k
        BY <1>7, <3>1
      <4>2. tag # "VID"
        BY <1>4, <1>12, <4>1 DEF Holding
      <4>. QED BY <1>7, <1>11, <3>1, <4>2 DEF Brought
    <3>2. CASE k < 5
      <4>1. k + 1 = 5 /\ 2 \in 1..k
        BY <1>7, <2>2, <3>2
      <4>2. tag = "VID"
        BY <1>4, <4>1 DEF Holding, tag
      <4>3. machine["MEM"] = s.machine["MEM"]
        BY <1>4, <1>7, <4>1 DEF Brought, Holding
      <4>. QED BY <1>11, <4>2, <4>3
    <3>. QED BY <1>7, <3>1, <3>2
  <2>3. ASSUME NEW i \in 1..k + 1, Sec(s)[i] = "MDC"
        PROVE machine'["pointers"] = s.machine["MDC"] /\ machine'["sector"] = State!NoSector
    <3>1. CASE i = k + 1
      BY <1>11, <2>3, <3>1 DEF tag
    <3>2. CASE i # k + 1
      <4>1. i \in 1..k
        BY <1>7, <3>2
      <4>. QED BY <1>7, <1>11, <1>12, <2>3, <4>1 DEF Brought
    <3>. QED BY <3>1, <3>2
  <2>. QED BY <2>1, <2>2, <2>3 DEF Brought
<1>20. Kept(s, k + 1)'
  <2>1. \A p : Absent(s, k + 1, p) => Absent(s, k, p) /\ (p = tag => p = "META")
    <3>1. k + 1 \in 1..k + 1 /\ \A i \in 1..k : i \in 1..k + 1
      BY <1>7
    <3>. QED BY <3>1 DEF Absent, tag
  <2>2. ASSUME NEW p \in State!Stored \cup State!Unsaved, Absent(s, k + 1, p) PROVE machine'[p] = before[p]
    <3>1. machine[p] = before[p]
      BY <1>7, <2>1, <2>2 DEF Kept
    <3>2. machine'[p] = machine[p]
      BY <1>11, <2>1, <2>2
    <3>. QED BY <3>1, <3>2
  <2>3. ASSUME Absent(s, k + 1, "MDC")
        PROVE machine'["pointers"] = before["pointers"] /\ machine'["sector"] = before["sector"]
    <3>1. tag # "MDC" /\ Absent(s, k, "MDC")
      BY <2>1, <2>3
    <3>. QED BY <1>7, <1>11, <3>1 DEF Kept
  <2>. QED BY <1>1, <2>2, <2>3 DEF Kept, Absent, Sec
<1>14. /\ unread' \in Seq(Sects) /\ Len(unread') = Len(unread) - 1
       /\ \A i \in 1..Len(unread') : unread'[i] = unread[i + 1]
  BY <1>1, <1>5, HeadTailProperties
<1>15. Loading(s, k + 1)'
  <2>1. Len(unread') = Len(Sec(s)) - (k + 1)
    BY <1>7, <1>14
  <2>2. ASSUME NEW i \in 1..Len(unread') PROVE unread'[i] = Of(s, k + 1 + i)
    <3>1. i + 1 \in 1..Len(unread) /\ k + (i + 1) = k + 1 + i
      BY <1>6, <1>7, <1>14
    <3>2. unread[i + 1] = Of(s, k + (i + 1))
      BY <1>3, <3>1 DEF Loading
    <3>. QED BY <1>14, <3>1, <3>2
  <2>. QED BY <1>13, <1>20, <2>1, <2>2 DEF Loading, Of
<1>16. MachineInv'
  BY <1>1, <1>11 DEF StateInv, MachineInv, IsMachine
<1>17. FileInv' /\ SavingInv' /\ QueuesInv'
  BY <1>1, <1>5, <1>14 DEF StateInv, FileInv, IsSaveOf, SavingInv, QueuesInv
<1>18. LoadingInv'
  <2>1. IsSaveOf(s)' /\ s \in saved'
    BY <1>1, <1>2 DEF IsSaveOf, Of
  <2>. QED BY <1>8, <1>15, <2>1 DEF LoadingInv
<1>19. State!SectionsOfOneSave'
  <2>1. CASE unread' # <<>>
    BY <1>1, <2>1 DEF State!SectionsOfOneSave
  <2>2. CASE unread' = <<>>
    <3>1. k + 1 = Len(Sec(s))
      <4>1. Len(unread') = 0
        BY <2>2, EmptySeq
      <4>. QED BY <1>7, <1>14, <4>1
    <3>2. s.devices = loading'
      BY <1>1, <1>2, <1>4, <1>5, <2>2, HoldsDevices
    <3>3. ASSUME NEW p \in State!Carried(s.devices) PROVE machine'[p] = s.machine[p]
      <4>1. PICK i \in 1..Len(Sec(s)) : Sec(s)[i] = p
        BY <1>4, LenProperties DEF Holding, Sec, State!Carried, State!ToSet
      <4>2. p # "META"
        BY DEF State!Carried
      <4>. QED BY <1>13, <3>1, <4>1, <4>2 DEF Brought
    <3>4. machine'["picture"] = <<s.machine["MEM"], s.machine["VID"]>>
      <4>1. k + 1 >= 5
        BY <1>4, <3>1 DEF Holding
      <4>. QED BY <1>13, <4>1 DEF Brought
    <3>5. "disk" \in s.devices => machine'["pointers"] = s.machine["MDC"] /\ machine'["sector"] = State!NoSector
      BY <1>4, <1>13, <3>1 DEF Brought, Holding
    <3>6. State!Restores(s)'
      BY <3>2, <3>3, <3>4, <3>5 DEF State!Restores
    <3>7. ASSUME NEW p \in (State!Stored \cup State!Unsaved) \ State!Carried(s.devices)
          PROVE Absent(s, k + 1, p)
      <4>1. DOMAIN Sec(s) = 1..Len(Sec(s))
        BY <1>4, LenProperties DEF Holding
      <4>. QED BY <3>1, <3>7, <4>1 DEF Absent, Sec, State!Carried, State!ToSet
    <3>8. "disk" \notin s.devices => Absent(s, k + 1, "MDC")
      BY <1>4, <3>1 DEF Absent, Holding
    <3>9. State!Stays'
      BY <1>20, <3>2, <3>7, <3>8 DEF Kept, State!Stays
    <3>. QED BY <1>1, <3>6, <3>9 DEF State!SectionsOfOneSave
  <2>. QED BY <2>1, <2>2
<1>. QED BY <1>16, <1>17, <1>18, <1>19 DEF StateInv

\* Every step of the save states.
LEMMA StateKeeps == ASSUME UnitsAssumption, StateInv, State!Next PROVE StateInv'
BY RunKeeps, SaveKeeps, WriteSectionKeeps, WriteSizeKeeps, WriteCrcKeeps, WriteFailsKeeps, RestartKeeps,
   LoadKeeps, LoadSectionKeeps DEF State!Next

\* The other devices leave them alone.
LEMMA StateIdles == ASSUME StateInv, UNCHANGED stateVars PROVE StateInv'
<1>1. UNCHANGED <<devices, machine, now, file, writes, unread, saved, loading, before>>
  BY DEF stateVars
<1>2. MachineInv' /\ FileInv' /\ QueuesInv'
  BY <1>1 DEF StateInv, MachineInv, IsMachine, FileInv, IsSaveOf, QueuesInv
<1>3. SavingInv'
  BY <1>1 DEF StateInv, SavingInv, Saving
<1>4. LoadingInv'
  BY <1>1 DEF StateInv, LoadingInv, IsSaveOf, Loading, Brought, Kept
<1>5. State!SectionsOfOneSave'
  BY <1>1 DEF StateInv, State!SectionsOfOneSave, State!Restores, State!Stays
<1>. QED BY <1>2, <1>3, <1>4, <1>5 DEF StateInv

\* The first machine has no file.
LEMMA StateStarts == ASSUME UnitsAssumption, State!Init PROVE StateInv
<1>1. /\ devices \in Machines /\ machine = State!Booted /\ now = 0 /\ file = State!NoFile
      /\ writes = <<>> /\ unread = <<>> /\ saved = {} /\ loading = State!Nothing
  BY DEF State!Init
<1>2. devices \in Devices
  BY <1>1 DEF UnitsAssumption, State!SaveStateAssumption, Devices
<1>3. IsMachine(machine)
  BY <1>1 DEF IsMachine, State!Booted, State!Parts, State!Stored
<1>4. MachineInv
  BY <1>1, <1>2, <1>3 DEF MachineInv
<1>5. FileInv
  BY <1>1, EmptySeq DEF FileInv, State!NoFile
<1>6. QueuesInv /\ SavingInv /\ LoadingInv
  BY <1>1, EmptySeq DEF QueuesInv, SavingInv, LoadingInv
<1>7. State!SectionsOfOneSave
  BY <1>1 DEF State!SectionsOfOneSave
<1>. QED BY <1>4, <1>5, <1>6, <1>7 DEF StateInv

-----------------------------------------------------------------------------
(* The theorems *)

DevicesInv == ModemInv /\ wire \in Nat /\ KeysInv

\* Whatever the unit, the modem and the keys start and stay as their invariants say.
THEOREM DevicesHold == DeviceSpec => []DevicesInv
<1>1. DeviceInit => DevicesInv
  BY ModemStarts, KeysStart DEF DeviceInit, DevicesInv
<1>2. ASSUME DevicesInv, [DeviceNext]_devicesVars PROVE DevicesInv'
  <2>1. CASE DeviceNext /\ unit = "modem" /\ Modem!Next /\ UNCHANGED keysVars
    <3>1. ModemInv' /\ wire' \in Nat
      BY <1>2, <2>1, ModemKeeps DEF DevicesInv
    <3>2. KeysInv'
      BY <1>2, <2>1, KeysIdle DEF DevicesInv
    <3>. QED BY <3>1, <3>2 DEF DevicesInv
  <2>2. CASE DeviceNext /\ unit = "keys" /\ Keys!Next /\ UNCHANGED modemVars
    <3>1. KeysInv'
      BY <1>2, <2>2, KeysKeep DEF DevicesInv
    <3>2. ModemInv' /\ wire' \in Nat
      BY <1>2, <2>2, ModemIdles DEF DevicesInv
    <3>. QED BY <3>1, <3>2 DEF DevicesInv
  <2>3. CASE UNCHANGED modemVars /\ UNCHANGED keysVars
    BY <1>2, <2>3, ModemIdles, KeysIdle DEF DevicesInv
  <2>. QED BY <1>2, <2>1, <2>2, <2>3 DEF DeviceNext, devicesVars
<1>. QED BY <1>1, <1>2, PTL DEF DeviceSpec

\* modem_send and modem_process_at: for every buffer, connection and escape, what
\* the program sends in data mode is what the peer of that connection got and the
\* "+"s still held back (DataReachesPeer of the runs).
THEOREM DataReaches == DeviceSpec => []DataReachesPeer
<1>1. DevicesInv => DataReachesPeer
  BY DEF DevicesInv, ModemInv, DataReachesPeer
<1>. QED BY <1>1, DevicesHold, PTL

\* modem_recv: however connections come and go, the reports that wait in the
\* receive buffer and those read tell which mode the modem is in.
THEOREM ReportsFollow == DeviceSpec => []ReportsFollowMode
<1>1. DevicesInv => ReportsFollowMode
  BY DEF DevicesInv, ModemInv, ReportsFollowMode
<1>. QED BY <1>1, DevicesHold, PTL

\* handle_symbolic, handle_qwerty and the joystick: once every key of the host is
\* up and the pad is at rest, nothing is down on the Oric.
THEOREM NothingSticks == DeviceSpec => []NothingStuck
<1>1. DevicesInv => NothingStuck
  BY KeysRelease DEF DevicesInv, NothingStuck
<1>. QED BY <1>1, DevicesHold, PTL

\* savestate_save and savestate_load: whatever devices the machines have and
\* wherever a save is cut short, a load that is accepted brings back all that the
\* sections of one save carry, and leaves all the rest as it was
\* (SectionsOfOneSave of the runs).
THEOREM LoadsOne == DeviceSpec => []SectionsOfOneSave
<1>1. DeviceInit => StateInv
  BY UnitsAssumption, StateStarts DEF DeviceInit
<1>2. ASSUME StateInv, [DeviceNext]_devicesVars PROVE StateInv'
  <2>1. CASE State!Next
    BY <1>2, <2>1, UnitsAssumption, StateKeeps
  <2>2. CASE UNCHANGED stateVars
    BY <1>2, <2>2, StateIdles
  <2>. QED BY <1>2, <2>1, <2>2 DEF DeviceNext, devicesVars
<1>3. StateInv => SectionsOfOneSave
  BY DEF StateInv, SectionsOfOneSave
<1>. QED BY <1>1, <1>2, <1>3, PTL DEF DeviceSpec
=============================================================================
