----------------------------- MODULE CastClient -----------------------------
(***************************************************************************)
(* The CASTV2 client of src/network/castv2.c: the main thread connects to a  *)
(* Chromecast, starts the heartbeat thread, and disconnects when the program *)
(* ends.  Both threads write to one TLS connection through castv2_send.      *)
(* The peer answers as it likes; every write may fail.                       *)
(***************************************************************************)
EXTENDS Naturals

CONSTANTS
  Attempts,  \* messages read while waiting for the transport, 60
  Retries    \* times the URL is sent, 5

\* What the constants must satisfy.
CastClientAssumption == {Attempts, Retries} \subseteq Nat \ {0} /\ Retries <= Attempts

VARIABLES
  state,      \* client.state
  ssl,        \* client.ssl is a live connection
  transport,  \* client.transport_id is known
  hbRunning,  \* client.heartbeat_running
  hbMutex,    \* client.hb_mutex: "none", "free", its holder "hb", or "destroyed"
  mainPc, hbPc,
  tries,      \* the loop counter of the step the main thread is in; of the drain,
              \* that counts nothing, whether its messages are odd in number
  locked,     \* the heartbeat's castv2_send found heartbeat_running set
  sends,      \* messages the heartbeat still sends in this cycle
  cycle,      \* the heartbeat's cycle, modulo 12
  cancelled,  \* pthread_cancel has been called on the heartbeat thread
  pinged      \* ghost: the heartbeat got a message out

mainVars == <<state, ssl, transport, mainPc, tries>>
hbVars   == <<hbPc, locked, sends, cycle, pinged>>
vars     == <<mainVars, hbVars, hbRunning, hbMutex, cancelled>>

Init ==
  /\ state = "IDLE" /\ ssl = FALSE /\ transport = FALSE
  /\ hbRunning = FALSE /\ hbMutex = "none" /\ cancelled = FALSE
  /\ mainPc = "tls" /\ tries = 0
  /\ hbPc = "none" /\ locked = FALSE /\ sends = 0 /\ cycle = 0 /\ pinged = FALSE

-----------------------------------------------------------------------------
(* castv2_connect_and_cast.  Until step 8 the main thread is alone, so a send *)
(* takes no mutex and is one step. *)

\* A failed step: the caller does not call castv2_disconnect for it.
Fail == state' = "ERROR" /\ mainPc' = "failed" /\ UNCHANGED tries
Connecting == UNCHANGED <<hbVars, hbRunning, cancelled>>

TlsConnect ==
  /\ mainPc = "tls"
  /\ \/ /\ state' = "CONNECTED" /\ ssl' = TRUE /\ hbMutex' = "free" /\ mainPc' = "connect"
        /\ UNCHANGED tries
     \/ Fail /\ UNCHANGED <<ssl, hbMutex>>
  /\ Connecting /\ UNCHANGED transport

\* CONNECT to receiver-0, then STOP, whose outcome is ignored.
Hail ==
  /\ mainPc = "connect"
  /\ \/ mainPc' = "drain" /\ tries' = 0 /\ UNCHANGED state
     \/ Fail
  /\ Connecting /\ UNCHANGED <<ssl, transport, hbMutex>>

\* The drain: one message more, for as long as they come, or none in time.
Drain ==
  /\ mainPc = "drain"
  /\ \/ tries' = 1 - tries /\ UNCHANGED mainPc
     \/ mainPc' = "launch" /\ UNCHANGED tries
  /\ Connecting /\ UNCHANGED <<state, ssl, transport, hbMutex>>

Launch ==
  /\ mainPc = "launch"
  /\ \/ state' = "LAUNCHING" /\ mainPc' = "status" /\ tries' = 0
     \/ Fail
  /\ Connecting /\ UNCHANGED <<ssl, transport, hbMutex>>

\* One message, or a timeout, while waiting for the transport.
AwaitForever ==  \* faulty: a message, unlike a timeout, starts the count over
  /\ mainPc = "status" /\ tries < Attempts
  /\ \/ tries' \in {tries + 1, 0} /\ UNCHANGED <<state, transport, mainPc>>
     \/ transport' = TRUE /\ mainPc' = "join" /\ UNCHANGED <<state, tries>>
     \/ Fail /\ UNCHANGED transport
  /\ Connecting /\ UNCHANGED <<ssl, hbMutex>>
Await ==
  /\ mainPc = "status" /\ tries < Attempts
  /\ \/ tries' = tries + 1 /\ UNCHANGED <<state, transport, mainPc>>
     \/ transport' = TRUE /\ mainPc' = "join" /\ UNCHANGED <<state, tries>>
     \/ Fail /\ UNCHANGED transport
  /\ Connecting /\ UNCHANGED <<ssl, hbMutex>>

AwaitTimeout ==
  /\ mainPc = "status" /\ tries = Attempts /\ Fail
  /\ Connecting /\ UNCHANGED <<ssl, transport, hbMutex>>

\* CONNECT to the transport.
JoinTransport ==
  /\ mainPc = "join"
  /\ \/ mainPc' = "url" /\ tries' = 0 /\ UNCHANGED state
     \/ Fail
  /\ Connecting /\ UNCHANGED <<ssl, transport, hbMutex>>

SendUrl ==
  /\ mainPc = "url"
  /\ \/ mainPc' = "start" /\ UNCHANGED <<state, tries>>
     \/ tries + 1 < Retries /\ tries' = tries + 1 /\ UNCHANGED <<state, mainPc>>
     \/ tries + 1 = Retries /\ Fail
  /\ Connecting /\ UNCHANGED <<ssl, transport, hbMutex>>

\* Step 8: the flag goes up before the thread is created; if it cannot be
\* created the client runs without a heartbeat.
StartHeartbeat ==
  /\ mainPc = "start"
  /\ \/ hbRunning' = TRUE /\ hbPc' = "test"
     \/ hbRunning' = FALSE /\ hbPc' = "none"
  /\ state' = "RUNNING" /\ mainPc' = "running"
  /\ UNCHANGED <<ssl, transport, hbMutex, tries, locked, sends, cycle, cancelled, pinged>>

-----------------------------------------------------------------------------
(* castv2_disconnect, from emulator_cleanup *)

MainMoves(from, to) == mainPc = from /\ mainPc' = to /\ UNCHANGED <<hbVars, tries, transport>>

DisconnectHasty ==  \* faulty: the thread is cancelled and not waited for
  /\ MainMoves("running", "stop")
  /\ hbRunning' = FALSE /\ cancelled' = hbRunning
  /\ UNCHANGED <<state, ssl, hbMutex>>
Disconnect ==
  /\ MainMoves("running", IF hbRunning THEN "joining" ELSE "stop")
  /\ hbRunning' = FALSE /\ cancelled' = hbRunning
  /\ UNCHANGED <<state, ssl, hbMutex>>

JoinHeartbeatHasty ==  \* faulty: pthread_join does not wait
  MainMoves("joining", "stop") /\ UNCHANGED <<state, ssl, hbRunning, hbMutex, cancelled>>
JoinHeartbeat ==
  /\ hbPc = "dead"
  /\ MainMoves("joining", "stop") /\ UNCHANGED <<state, ssl, hbRunning, hbMutex, cancelled>>

\* STOP is sent with heartbeat_running down: no mutex.
BeginStop == MainMoves("stop", "writing") /\ UNCHANGED <<state, ssl, hbRunning, hbMutex, cancelled>>

Teardown ==
  /\ MainMoves("writing", "done")
  /\ ssl' = FALSE /\ hbMutex' = "destroyed" /\ state' = "IDLE"
  /\ UNCHANGED <<hbRunning, cancelled>>

-----------------------------------------------------------------------------
(* heartbeat_thread_func *)

HbMoves(from, to) == hbPc = from /\ hbPc' = to /\ UNCHANGED <<mainVars, hbRunning, cancelled>>

Test == HbMoves("test", IF hbRunning THEN "sleep" ELSE "dead")
          /\ UNCHANGED <<hbMutex, locked, sends, cycle, pinged>>

Sleep == HbMoves("sleep", IF cancelled THEN "dead" ELSE "recheck")
          /\ UNCHANGED <<hbMutex, locked, sends, cycle, pinged>>

Recheck == HbMoves("recheck", IF hbRunning THEN "lock" ELSE "dead")
          /\ UNCHANGED <<hbMutex, locked, sends, cycle, pinged>>

\* Two pings every cycle, a GET_STATUS every 6th, the URL every 12th.
SendsIn(c) == 2 + (IF c % 6 = 0 THEN 1 ELSE 0) + (IF c % 12 = 0 THEN 1 ELSE 0)

Lock ==
  /\ HbMoves("lock", "send")
  /\ hbMutex = "free" /\ hbMutex' = "hb"
  /\ cycle' = (cycle + 1) % 12 /\ sends' = SendsIn(cycle + 1)
  /\ UNCHANGED <<locked, pinged>>

\* castv2_send first looks whether the heartbeat is running, ...
ReadFlag ==
  /\ HbMoves("send", "enter")
  /\ locked' = hbRunning
  /\ UNCHANGED <<hbMutex, sends, cycle, pinged>>

\* ... then takes the mutex if it is: a default mutex, which its holder waits
\* for as any other thread would ...
Enter ==
  /\ HbMoves("enter", "write")
  /\ locked => hbMutex = "free"
  /\ hbMutex' = IF locked THEN "hb" ELSE hbMutex
  /\ UNCHANGED <<locked, sends, cycle, pinged>>

\* ... and writes.  A write, like the sleep, is where a cancelled thread dies,
\* with what it holds.
Write ==
  /\ HbMoves("write", IF cancelled THEN "dead" ELSE IF sends > 1 THEN "send" ELSE "unlock")
  /\ hbMutex' = IF locked /\ ~cancelled THEN "free" ELSE hbMutex
  /\ sends' = sends - 1
  /\ pinged' = (pinged \/ ~cancelled)
  /\ UNCHANGED <<locked, cycle>>

\* A deferred cancellation is acted on at the latest at the next such point; a
\* write that did not block may get through.
WriteThrough ==
  /\ HbMoves("write", IF sends > 1 THEN "send" ELSE "unlock")
  /\ cancelled
  /\ hbMutex' = IF locked THEN "free" ELSE hbMutex
  /\ sends' = sends - 1 /\ pinged' = TRUE
  /\ UNCHANGED <<locked, cycle>>

Unlock ==
  /\ HbMoves("unlock", "test")
  /\ hbMutex' = "free"
  /\ UNCHANGED <<locked, sends, cycle, pinged>>

-----------------------------------------------------------------------------
Connect == \/ TlsConnect \/ Hail \/ Drain \/ Launch \/ Await \/ AwaitTimeout \/ JoinTransport \/ SendUrl
           \/ StartHeartbeat
CleanUp == JoinHeartbeat \/ BeginStop \/ Teardown
Heartbeat == Test \/ Sleep \/ Recheck \/ Lock \/ ReadFlag \/ Enter \/ Write \/ WriteThrough \/ Unlock

Next == Connect \/ Disconnect \/ CleanUp \/ Heartbeat

\* Both threads run; when the program ends is up to the user.
Fairness == WF_vars(Connect) /\ WF_vars(CleanUp) /\ WF_vars(Heartbeat)

Spec == Init /\ [][Next]_vars /\ Fairness

-----------------------------------------------------------------------------
(* Properties *)

\* The type of every variable.
TypeOK ==
  /\ state \in {"IDLE", "CONNECTED", "LAUNCHING", "RUNNING", "ERROR"}
  /\ ssl \in BOOLEAN /\ transport \in BOOLEAN /\ hbRunning \in BOOLEAN
  /\ locked \in BOOLEAN /\ cancelled \in BOOLEAN /\ pinged \in BOOLEAN
  /\ hbMutex \in {"none", "free", "hb", "destroyed"}
  /\ tries \in 0..Attempts /\ sends \in 0..4 /\ cycle \in 0..11

\* SSL_write on one connection is not reentrant: the two threads are never in it
\* together, though the main thread stops taking the mutex when it disconnects.
OneWriter == ~(mainPc = "writing" /\ hbPc = "write")

\* The connection is freed, and the mutex destroyed, only after the last write.
ConnectionOutlivesUse ==
  /\ hbPc = "write" \/ mainPc = "writing" => ssl
  /\ hbPc \notin {"none", "dead"} => ssl /\ hbMutex # "destroyed"

\* Connecting comes to an end whatever the peer answers, refuses or fails to say:
\* every wait is counted, but for the drain after STOP (castv2.c:648), which reads
\* messages for as long as the peer sends them; only a peer that never stops can
\* keep connect from returning, and only there.
ConnectReturns == mainPc = "tls" ~> (mainPc \in {"running", "failed"} \/ [](mainPc = "drain"))

\* "Thread-safe send: protects SSL_write with mutex when heartbeat is active":
\* a heartbeat that is left running gets a message out.
HeartbeatBeats == hbPc = "lock" ~> (pinged \/ ~hbRunning)

=============================================================================
