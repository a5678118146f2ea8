----------------------------- MODULE HayesModem -----------------------------
(* The modem back end of src/io/serial_backend.c: Hayes commands over TCP.     *)
(* acia_tick hands it the bytes of the program one at a time and, when its     *)
(* poll says so, takes one byte.  A character here stands for the characters   *)
(* of one word of a command ("AT", "E0"), and a response is one item of the    *)
(* receive buffer.                                                           *)
EXTENDS Naturals, Sequences, SequencesExt

CONSTANTS
  Listens,   \* the settings of the listen mode
  Guard,     \* polls of silence before a "+" may begin to escape, 50
  RxSize,    \* SERIAL_MODEM_BUFSZ
  CmdSize,   \* characters of cmd_buf
  Commands,  \* the words of a command that are typed
  MaxCalls,  \* bound of the model: connections made
  MaxBytes,  \* bound of the model: data bytes the program sends
  MaxWire    \* bound of the model: bytes of the peer that wait in the socket

\* What the constants must satisfy.
HayesAssumption ==
  /\ Listens \subseteq BOOLEAN
  /\ Commands \subseteq {"AT", "Z", "E0", "E1", "H", "S", "D", "A", "x"}
  /\ {Guard, RxSize, CmdSize, MaxCalls, MaxBytes, MaxWire} \subseteq Nat \ {0}

VARIABLES
  listening,    \* listening
  mode,         \* mode: "command" or "data"
  line,         \* number of the connection behind sockfd, or 0
  peer,         \* the other end of it: "none", "up" or "closed"
  rx,           \* the receive buffer
  cmd,          \* cmd_buf
  echo,         \* echo
  plus,         \* plus_count
  silence,      \* last_data_time, up to Guard
  wire,         \* data bytes of the peer in the socket
  calls,        \* ghost: connections made so far
  written,      \* ghost: data bytes the program sent on this connection
  reached,      \* ghost: those that were written to the socket
  told,         \* ghost: the mode the reports read so far speak of
  dropped       \* ghost: the receive buffer or the socket was full

state == <<listening, mode, line, peer, rx, cmd, echo, plus, silence, wire>>
vars  == <<state, calls, written, reached, told, dropped>>

Data     == {"+", "d"}

-----------------------------------------------------------------------------
\* modem_rx_push: what does not fit is dropped.
Push(buf, items) ==
  LET all == buf \o items IN IF Len(all) > RxSize THEN SubSeq(all, 1, RxSize) ELSE all
Pushes(items) == rx' = Push(rx, items) /\ dropped' = (dropped \/ Len(rx \o items) > RxSize)

Init ==
  /\ listening \in Listens
  /\ mode = "command" /\ line = 0 /\ peer = "none" /\ rx = <<>> /\ cmd = <<>>
  /\ echo = TRUE /\ plus = 0 /\ silence = 0 /\ wire = 0
  /\ calls = 0 /\ written = <<>> /\ reached = <<>> /\ told = "command" /\ dropped = FALSE

-----------------------------------------------------------------------------
(* modem_process_at *)

\* A connection takes the place of the one before it, which is not closed.
Called(r) ==
  /\ mode' = "data" /\ line' = calls + 1 /\ calls' = calls + 1 /\ peer' = "up" /\ wire' = 0
  /\ plus' = 0 /\ written' = <<>> /\ reached' = <<>> /\ Pushes(Append(r, "CONNECT"))
  /\ UNCHANGED echo

Stays == UNCHANGED <<mode, line, peer, wire, calls, written, reached>>
Answer(r, report) == Stays /\ Pushes(Append(r, report))

Hangup(r) ==
  /\ mode' = "command" /\ line' = 0 /\ peer' = "none" /\ wire' = 0
  /\ Pushes(Append(r, "OK")) /\ UNCHANGED <<echo, plus, calls, written, reached>>

\* The command c, with r pushed before its response.
Process(c, r) ==
  LET verb == IF c[1] = "AT" THEN (IF Len(c) = 1 THEN "" ELSE c[2]) ELSE c[1]
  IN  CASE verb \in {"", "S"}   -> Answer(r, "OK") /\ UNCHANGED <<echo, plus>>
        [] verb = "Z"           -> Answer(r, "OK") /\ echo' = TRUE /\ plus' = 0
        [] verb \in {"E0", "E1"} -> Answer(r, "OK") /\ echo' = (verb = "E1") /\ UNCHANGED plus
        [] verb = "H"           -> Hangup(r)
        [] verb = "D"           -> \/ (calls < MaxCalls /\ Called(r))
                                   \/ (Answer(r, "NO CARRIER") /\ UNCHANGED <<echo, plus>>)
        [] verb \in {"A", "AT"} -> \/ (listening /\ calls < MaxCalls /\ Called(r))
                                   \/ (Answer(r, "ERROR") /\ UNCHANGED <<echo, plus>>)
        [] OTHER                -> Answer(r, "ERROR") /\ UNCHANGED <<echo, plus>>

-----------------------------------------------------------------------------
(* modem_send *)

Echoed == IF echo THEN <<"echo">> ELSE <<>>

\* Command mode: a character goes to the buffer, which ignores what does not fit.
SendCharacter(b) ==
  /\ mode = "command" /\ b \in Commands
  /\ cmd' = (IF Len(cmd) < CmdSize THEN Append(cmd, b) ELSE cmd)
  /\ Pushes(Echoed)
  /\ UNCHANGED <<listening, mode, line, peer, echo, plus, silence, wire, calls, written, reached, told>>

SendBackspace ==
  /\ mode = "command" /\ Pushes(Echoed)
  /\ cmd' = (IF cmd = <<>> THEN <<>> ELSE Front(cmd))
  /\ UNCHANGED <<listening, mode, line, peer, echo, plus, silence, wire, calls, written, reached, told>>

\* The end of a line; the echo is a byte and, with a command, a line end.
SendReturn ==
  /\ mode = "command"
  /\ IF cmd = <<>> THEN Pushes(Echoed) /\ Stays /\ UNCHANGED <<echo, plus>>
     ELSE Process(cmd, Echoed \o Echoed)
  /\ cmd' = <<>>
  /\ UNCHANGED <<listening, silence, told>>

\* Data mode: a "+" after the guard time is held back, and the third of them
\* escapes.
SendEscape ==
  /\ mode = "data" /\ silence >= Guard
  /\ silence' = 0
  /\ IF plus + 1 >= 3
     THEN /\ mode' = "command" /\ plus' = 0 /\ cmd' = <<>> /\ Pushes(<<"ESCAPED">>)
          /\ written' = SubSeq(written, 1, Len(written) - 2)
     ELSE /\ plus' = plus + 1 /\ written' = Append(written, "+")
          /\ UNCHANGED <<mode, cmd, rx, dropped>>
  /\ Len(written) < MaxBytes
  /\ UNCHANGED <<listening, line, peer, echo, wire, calls, reached, told>>

\* Anything else first flushes the "+" held back.  A socket that is full takes
\* nothing of it, and nobody knows.
Flushed == [i \in 1..plus |-> "+"]
SendDataKeepsPlus(b) ==  \* faulty: the "+" held back are forgotten
  /\ mode = "data" /\ b \in Data /\ (b = "+" => silence < Guard)
  /\ Len(written) < MaxBytes
  /\ plus' = 0 /\ silence' = 0 /\ written' = Append(written, b)
  /\ \/ reached' = Append(reached, b) /\ UNCHANGED dropped
     \/ reached' = reached /\ dropped' = TRUE
  /\ UNCHANGED <<listening, mode, line, peer, rx, cmd, echo, wire, calls, told>>
SendData(b) ==
  /\ mode = "data" /\ b \in Data /\ (b = "+" => silence < Guard)
  /\ Len(written) < MaxBytes
  /\ plus' = 0 /\ silence' = 0 /\ written' = Append(written, b)
  /\ \/ reached' = Append(reached \o Flushed, b) /\ UNCHANGED dropped
     \/ reached' = reached /\ dropped' = TRUE
  /\ UNCHANGED <<listening, mode, line, peer, rx, cmd, echo, wire, calls, told>>

\* The write fails on a line the peer has closed.
SendFailsQuietly(b) ==  \* faulty: the carrier is dropped without a word
  /\ mode = "data" /\ peer = "closed" /\ b \in Data /\ (b = "+" => silence < Guard)
  /\ mode' = "command" /\ line' = 0 /\ peer' = "none" /\ wire' = 0
  /\ plus' = 0 /\ silence' = 0 /\ written' = <<>> /\ reached' = <<>>
  /\ UNCHANGED <<rx, dropped, listening, cmd, echo, calls, told>>
SendFails(b) ==
  /\ mode = "data" /\ peer = "closed" /\ b \in Data /\ (b = "+" => silence < Guard)
  /\ mode' = "command" /\ line' = 0 /\ peer' = "none" /\ wire' = 0
  /\ plus' = 0 /\ silence' = 0 /\ written' = <<>> /\ reached' = <<>>
  /\ Pushes(<<"NO CARRIER">>)
  /\ UNCHANGED <<listening, cmd, echo, calls, told>>

-----------------------------------------------------------------------------
(* modem_poll and modem_recv *)

Polls == rx # <<>> \/ (mode = "data" /\ (wire > 0 \/ peer = "closed"))

\* What the program learns from the next item.
Reports == {"CONNECT", "NO CARRIER", "ESCAPED"}
Speaks(report) == IF report = "CONNECT" THEN "data" ELSE "command"
Learns(item) == told' = IF item \in Reports THEN Speaks(item) ELSE told
Pop(buf) == rx' = Tail(buf) /\ Learns(Head(buf))
Waits == silence' = (IF silence < Guard THEN silence + 1 ELSE Guard)

\* The socket is read, all of it, and a byte popped; an end of file is seen only
\* when nothing is left to read.
RecvData ==
  /\ Polls /\ Waits /\ ~(mode = "data" /\ wire = 0 /\ peer = "closed")
  /\ LET in == IF mode = "data" THEN [i \in 1..wire |-> "data"] ELSE <<>>
     IN  Pop(Push(rx, in)) /\ dropped' = (dropped \/ Len(rx \o in) > RxSize)
  /\ wire' = IF mode = "data" THEN 0 ELSE wire
  /\ UNCHANGED <<listening, mode, line, peer, cmd, echo, plus, calls, written, reached>>

RecvHangup ==
  /\ Polls /\ Waits /\ mode = "data" /\ wire = 0 /\ peer = "closed"
  /\ mode' = "command" /\ line' = 0 /\ peer' = "none"
  /\ Pop(Push(rx, <<"NO CARRIER">>)) /\ dropped' = (dropped \/ Len(rx) >= RxSize)
  /\ written' = <<>> /\ reached' = <<>>
  /\ UNCHANGED <<listening, cmd, echo, plus, wire, calls>>

-----------------------------------------------------------------------------
(* The peer *)

PeerSends ==
  /\ peer = "up" /\ wire < MaxWire /\ wire' = wire + 1
  /\ UNCHANGED <<listening, mode, line, peer, rx, cmd, echo, plus, silence, calls, written, reached,
                 told, dropped>>
PeerCloses ==
  /\ peer = "up" /\ peer' = "closed"
  /\ UNCHANGED <<listening, mode, line, rx, cmd, echo, plus, silence, wire, calls, written, reached,
                 told, dropped>>

Next ==
  \/ \E b \in Commands : SendCharacter(b)
  \/ SendBackspace \/ SendReturn \/ SendEscape
  \/ \E b \in Data : SendData(b) \/ SendFails(b)
  \/ RecvData \/ RecvHangup \/ PeerSends \/ PeerCloses

Spec == Init /\ [][Next]_vars

-----------------------------------------------------------------------------
(* Properties *)

\* What the program sends in data mode gets to the peer of that connection and to
\* no other, in order and whole: a "+" held back for an escape that does not come
\* is neither lost nor sent to whoever is called next.
DataReachesPeer ==
  (~dropped /\ line # 0) => written = reached \o [i \in 1..plus |-> "+"]

\* The reports tell the program, once it has read them, whether it is talking to
\* the peer or to the modem, however a connection came and went.
Tells(buf, before, m) ==
  \/ m = before /\ \A i \in DOMAIN buf : buf[i] \notin Reports
  \/ \E i \in DOMAIN buf : /\ buf[i] \in Reports /\ m = Speaks(buf[i])
                          /\ \A j \in DOMAIN buf : j > i => buf[j] \notin Reports
ReportsFollowMode == ~dropped => Tells(rx, told, mode)

=============================================================================
