------------------------------ MODULE Digitelec -----------------------------
(***************************************************************************)
(* The Digitelec DTL 2000 modem of src/io/serial_backend.c behind the serial  *)
(* interface: a TCP connection is the carrier, DTR dials, the modem buffers   *)
(* what the host sends and drives DCD and CTS.  The modem runs only inside    *)
(* acia_tick, which calls its send and, while there is a carrier, its poll    *)
(* and recv: each of those steps is a step of Acia6551 together with what the *)
(* modem does in it.                                                         *)
(***************************************************************************)
EXTENDS Acia6551, SequencesExt

CONSTANTS
  BufSize,  \* bytes of rx_buf, 512
  High,     \* cts_high_water, 400
  Low       \* cts_low_water, 256

ASSUME DigitelecAssumption ==
  {BufSize, High, Low} \subseteq Nat /\ 0 < Low /\ Low < High /\ High <= BufSize

VARIABLES
  carrier,    \* carrier: the socket is open
  dtrWasOn,   \* dtr_was_on
  rxBuf,      \* rx_buf, oldest byte first
  ctsActive,  \* cts_active
  peer,       \* the host's end of the connection: "none", "up" or "closed"
  wire,       \* bytes of the host still in the socket
  lastByte    \* number of the last byte the host sent

modem == <<carrier, dtrWasOn, rxBuf, ctsActive>>
host  == <<peer, wire, lastByte>>
vars  == <<aciaVars, modem, host>>

\* digitelec_open drops the carrier pin which acia_init left active.
Init ==
  /\ PowerOn(FALSE)
  /\ carrier = FALSE /\ dtrWasOn = FALSE /\ rxBuf = <<>> /\ ctsActive = TRUE
  /\ peer = "none" /\ wire = <<>> /\ lastByte = 0

-----------------------------------------------------------------------------
(* The host *)

HostSends ==
  /\ peer = "up" /\ lastByte < MaxBytes
  /\ lastByte' = lastByte + 1 /\ wire' = Append(wire, lastByte')
  /\ UNCHANGED <<aciaVars, modem, peer>>

HostCloses ==
  /\ peer = "up" /\ peer' = "closed"
  /\ UNCHANGED <<aciaVars, modem, wire, lastByte>>

-----------------------------------------------------------------------------
(* digitelec_connect and digitelec_disconnect *)

Connected ==
  /\ carrier' = TRUE /\ dcd' = TRUE
  /\ peer' = "up" /\ UNCHANGED <<cts, rxBuf, ctsActive, wire>>

DisconnectedKeepsCts ==  \* faulty: the pin stays where the flow control left it
  /\ carrier' = FALSE /\ dcd' = FALSE /\ cts' = cts
  /\ peer' = "none" /\ rxBuf' = <<>> /\ ctsActive' = TRUE /\ wire' = <<>>
Disconnected ==
  /\ carrier' = FALSE /\ dcd' = FALSE /\ cts' = TRUE
  /\ peer' = "none" /\ rxBuf' = <<>> /\ ctsActive' = TRUE /\ wire' = <<>>

\* digitelec_check_dtr.  Its callers run only while DTR is on, so that of its two
\* edges it sees the rising one.
Dials == ~dtrWasOn /\ ~carrier

-----------------------------------------------------------------------------
(* digitelec_send, from the transmit path *)

\* No dialling, or no answer; the byte of an open line is written, also to a host
\* that has just closed.
SendQuiet(n) ==
  /\ cts /\ UNCHANGED <<dcd, cts, carrier, rxBuf, ctsActive, host>>
  /\ dtrWasOn' = TRUE /\ TxDone(n, FALSE)

SendDials(n) ==
  /\ cts /\ Dials /\ Connected
  /\ dtrWasOn' = TRUE /\ TxDone(n, TRUE) /\ UNCHANGED lastByte

\* The write fails, on a line the host has closed or that was opened this moment.
SendFails(n) ==
  /\ cts /\ (Dials \/ peer = "closed") /\ Disconnected
  /\ dtrWasOn' = TRUE /\ TxDone(n, TRUE) /\ UNCHANGED lastByte

\* CTS is off: the back end is not called.
SendBlocked(n) == ~cts /\ TxDone(n, FALSE) /\ UNCHANGED <<modem, host>>

-----------------------------------------------------------------------------
(* digitelec_poll and digitelec_recv, from the receive path *)

HasData == rxBuf # <<>> \/ wire # <<>> \/ peer = "closed"
Read == Min({BufSize - Len(rxBuf), Len(wire)})
Filled == rxBuf \o SubSeq(wire, 1, Read)

\* The socket is read until it is empty, the buffer full or the host found gone.
EndOfFile == peer = "closed" /\ Len(Filled) < BufSize

PollEmpty ==
  /\ ~HasData /\ UNCHANGED <<dcd, cts, carrier, rxBuf, ctsActive, host>>
  /\ dtrWasOn' = TRUE /\ PollNothing(FALSE)

\* The host is gone, and with it what the buffer still held.
RecvHangup ==
  /\ HasData /\ EndOfFile /\ Disconnected
  /\ dtrWasOn' = TRUE /\ PollNothing(TRUE) /\ UNCHANGED lastByte

FlowControl ==
  ctsActive' = IF ctsActive THEN Len(Filled) < High ELSE Len(Filled) <= Low

RecvByte ==
  /\ HasData /\ ~EndOfFile
  /\ FlowControl /\ cts' = (IF ctsActive' = ctsActive THEN cts ELSE ctsActive') /\ UNCHANGED dcd
  /\ rxBuf' = Tail(Filled) /\ wire' = SubSeq(wire, Read + 1, Len(wire))
  /\ dtrWasOn' = TRUE /\ Receive(Head(Filled))
  /\ UNCHANGED <<carrier, peer, lastByte>>

-----------------------------------------------------------------------------
Alone(step) == step /\ UNCHANGED <<modem, host>>

Tick ==
  \/ \E n \in StepCycles : Alone(TickTx(n)) \/ SendQuiet(n) \/ SendDials(n) \/ SendFails(n)
                           \/ SendBlocked(n)
  \/ Alone(TickRx) \/ PollEmpty \/ RecvHangup \/ RecvByte

Next == Alone(Program) \/ Tick \/ HostSends \/ HostCloses

\* Every instruction of the program is followed by a tick.
Spec == Init /\ [][Next]_vars /\ WF_vars(Tick)

-----------------------------------------------------------------------------
(* Properties *)

\* "carrier detect via DCD", "flow control via CTS": the pins follow the modem,
\* and CTS is off only while the buffer has something to drain.
PinsFollowModem ==
  /\ dcd = carrier /\ cts = ctsActive
  /\ carrier = (peer # "none")
  /\ Len(rxBuf) <= BufSize /\ (~cts => Len(rxBuf) >= Low)

\* The bytes are in order from the socket to the program.
LineInOrder ==
  LET line == Held \o rxBuf \o wire
  IN  /\ \A i \in 1..Len(line) - 1 : line[i] < line[i + 1]
      /\ line # <<>> => heard < line[1] /\ Last(line) <= lastByte

\* A byte in the modem's buffer gets to the serial interface whatever the program
\* does with the registers, unless the program drops DTR or the line is lost.
BufferDrains ==
  \A b \in 1..MaxBytes :
    (\E i \in DOMAIN rxBuf : rxBuf[i] = b) ~> (arrived >= b \/ ~carrier \/ ~command.dtr)

=============================================================================
