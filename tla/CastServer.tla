----------------------------- MODULE CastServer -----------------------------
(***************************************************************************)
(* The cast server of src/network/cast_server.c, with the three threads that *)
(* share it: the emulation loop pushes a frame every video frame, the SDL    *)
(* audio callback pushes samples, and the server thread accepts HTTP clients *)
(* and broadcasts.  It starts as cast_server_init leaves it and ends with    *)
(* emulator_cleanup.                                                         *)
(*                                                                           *)
(* A frame is its number, written to and copied from the shared buffer in    *)
(* two halves.  The contents of the audio ring are the module AudioRing; here *)
(* the audio callback only takes and releases its mutex.                     *)
(***************************************************************************)
EXTENDS Naturals, Sequences, FiniteSets, SequencesExt

CONSTANTS
  Conns,            \* the connections clients may open
  Lagging,          \* those whose sockets may be too full for a whole frame
  MaxClients,       \* CAST_MAX_CLIENTS, 8
  MaxAudioClients,  \* CAST_MAX_AUDIO_CLIENTS, 4
  MaxFrames         \* bound of the model: frames pushed before the program ends

ASSUME CastServerAssumption ==
  /\ MaxClients \in Nat \ {0} /\ MaxAudioClients \in Nat \ {0} /\ MaxFrames \in Nat
  /\ "none" \notin Conns /\ Lagging \subseteq Conns

VARIABLES
  mutex,        \* holder of server.mutex, or "free"
  audioMutex,   \* holder of server.audio_mutex, or "free"
  mutexes,      \* the two mutexes are initialised
  active,       \* server.active
  running,      \* server.thread_running
  upscaled,     \* server.upscaled, as the frame number of each half
  frameReady,   \* server.frame_ready
  frameCopy,    \* the server thread's copy of it
  clients,      \* server.clients[0..num_clients-1]
  audioClients, \* server.audio_clients[0..num_audio_clients-1]
  sendAt,       \* clients still to be sent the current frame: the loop's i + 1
  conn,         \* the connection being routed, or "none"
  mainPc, audioPc, serverPc,
  conns,        \* what has become of each connection: "new", "queued", "open", "closed"
  pushed,       \* ghost: the number of the last frame pushed
  broadcast,    \* ghost: the number of the last frame copied for broadcast
  got           \* ghost: the last frame each client was sent whole

locks   == <<mutex, audioMutex, mutexes>>
frame   == <<upscaled, frameReady, pushed>>
copying == <<frameCopy, broadcast>>
lists   == <<clients, audioClients, conn, conns>>
pcs     == <<mainPc, audioPc, serverPc>>
vars    == <<locks, active, running, frame, copying, lists, sendAt, pcs, got>>

NoFrame == <<0, 0>>

Init ==
  /\ mutex = "free" /\ audioMutex = "free" /\ mutexes = TRUE
  /\ active = TRUE /\ running = TRUE
  /\ upscaled = NoFrame /\ frameReady = FALSE /\ frameCopy = NoFrame
  /\ clients = <<>> /\ audioClients = <<>> /\ sendAt = 0 /\ conn = "none"
  /\ mainPc = "loop" /\ audioPc = "idle" /\ serverPc = "select"
  /\ conns = [c \in Conns |-> "new"]
  /\ pushed = 0 /\ broadcast = 0 /\ got = [c \in Conns |-> 0]

Close(cs) == [c \in Conns |-> IF c \in cs THEN "closed" ELSE conns[c]]

-----------------------------------------------------------------------------
(* The emulation loop: cast_server_push_frame, then emulator_cleanup *)

PushBegin ==
  /\ mainPc = "loop" /\ active /\ pushed < MaxFrames
  /\ mutex = "free" /\ mutex' = "main"
  /\ upscaled' = [upscaled EXCEPT ![1] = pushed + 1]
  /\ mainPc' = "pushing"
  /\ UNCHANGED <<audioMutex, mutexes, active, running, frameReady, pushed, copying, lists,
                 sendAt, audioPc, serverPc, got>>

PushEnd ==
  /\ mainPc = "pushing"
  /\ upscaled' = [upscaled EXCEPT ![2] = pushed + 1]
  /\ pushed' = pushed + 1 /\ frameReady' = TRUE
  /\ mutex' = "free" /\ mainPc' = "loop"
  /\ UNCHANGED <<audioMutex, mutexes, active, running, copying, lists, sendAt, audioPc, serverPc,
                 got>>

Quit ==
  /\ mainPc = "loop" /\ mainPc' = "closing"
  /\ UNCHANGED <<locks, active, running, frame, copying, lists, sendAt, audioPc, serverPc, got>>

\* audio_cleanup: closing the SDL device waits for a callback that is running,
\* and no callback starts afterwards.
CloseAudioUnwaited ==  \* faulty: the server is stopped with the callback still running
  /\ mainPc = "closing" /\ mainPc' = "stopping"
  /\ UNCHANGED <<locks, active, running, frame, copying, lists, sendAt, audioPc, serverPc, got>>
CloseAudio ==
  /\ mainPc = "closing" /\ audioPc = "idle"
  /\ audioPc' = "closed" /\ mainPc' = "stopping"
  /\ UNCHANGED <<locks, active, running, frame, copying, lists, sendAt, serverPc, got>>

Stop ==
  /\ mainPc = "stopping" /\ active
  /\ running' = FALSE /\ mainPc' = "joining"
  /\ UNCHANGED <<locks, active, frame, copying, lists, sendAt, audioPc, serverPc, got>>

Join ==
  /\ mainPc = "joining" /\ serverPc = "exited"
  /\ conns' = Close({c \in Conns : conns[c] = "queued"})
  /\ mutexes' = FALSE /\ active' = FALSE /\ mainPc' = "done"
  /\ UNCHANGED <<mutex, audioMutex, running, frame, copying, clients, audioClients, conn, sendAt,
                 audioPc, serverPc, got>>

-----------------------------------------------------------------------------
(* The SDL audio thread: cast_server_push_audio *)

AudioStep(from, to) ==
  /\ audioPc = from /\ audioPc' = to
  /\ UNCHANGED <<mutex, mutexes, active, running, frame, copying, lists, sendAt, mainPc, serverPc,
                 got>>

AudioEnter  == active /\ AudioStep("idle", "entering") /\ UNCHANGED audioMutex
AudioLock   == audioMutex = "free" /\ audioMutex' = "audio" /\ AudioStep("entering", "pushing")
AudioUnlock == audioMutex' = "free" /\ AudioStep("pushing", "idle")

-----------------------------------------------------------------------------
(* The clients *)

Connect(c) ==
  /\ conns[c] = "new" /\ active
  /\ conns' = [conns EXCEPT ![c] = "queued"]
  /\ UNCHANGED <<locks, active, running, frame, copying, clients, audioClients, conn, sendAt, pcs,
                 got>>

-----------------------------------------------------------------------------
(* The server thread: server_thread_func *)

\* The variables no step of the server thread changes.
ServerKeeps == UNCHANGED <<mutexes, active, running, upscaled, pushed, mainPc, audioPc>>

\* The loop's test, then select and accept: one queued connection, or the
\* 20 ms timeout when there is none.
Select ==
  /\ serverPc = "select" /\ running
  /\ \/ \E c \in Conns :
          /\ conns[c] = "queued"
          /\ conn' = c /\ conns' = [conns EXCEPT ![c] = "open"] /\ serverPc' = "route"
     \/ /\ \A c \in Conns : conns[c] # "queued"
        /\ serverPc' = "check" /\ UNCHANGED <<conn, conns>>
  /\ ServerKeeps
  /\ UNCHANGED <<mutex, audioMutex, frameReady, copying, clients, audioClients, sendAt, got>>

Full(list, max) == Len(list) >= max

Routing == serverPc = "route" /\ ServerKeeps /\ UNCHANGED <<frameReady, broadcast, sendAt, got>>

\* The recv of route_http_request blocks until the client has spoken or hung up.
RouteClosed ==  \* an HTML page, a bad request, or nothing at all
  /\ Routing
  /\ conns' = Close({conn}) /\ conn' = "none" /\ serverPc' = "check"
  /\ UNCHANGED <<mutex, audioMutex, frameCopy, clients, audioClients>>

RouteStreamUnclosed ==  \* faulty: a client too many is forgotten, not closed
  /\ Routing
  /\ IF Full(clients, MaxClients)
     THEN UNCHANGED <<conns, clients>>
     ELSE clients' = Append(clients, conn) /\ UNCHANGED conns
  /\ conn' = "none" /\ serverPc' = "check"
  /\ UNCHANGED <<mutex, audioMutex, frameCopy, audioClients>>
RouteStream ==
  /\ Routing
  /\ IF Full(clients, MaxClients)
     THEN conns' = Close({conn}) /\ UNCHANGED clients
     ELSE clients' = Append(clients, conn) /\ UNCHANGED conns
  /\ conn' = "none" /\ serverPc' = "check"
  /\ UNCHANGED <<mutex, audioMutex, frameCopy, audioClients>>

RouteAudio ==
  /\ Routing
  /\ IF Full(audioClients, MaxAudioClients)
     THEN conns' = Close({conn}) /\ UNCHANGED audioClients
     ELSE /\ audioMutex = "free"
          /\ audioClients' = Append(audioClients, conn) /\ UNCHANGED conns
  /\ conn' = "none" /\ serverPc' = "check"
  /\ UNCHANGED <<mutex, audioMutex, frameCopy, clients>>

\* The copy of the shared frame, its two halves under the mutex.
CopyUnlocked == mutex' = mutex  \* faulty: the copy does not wait for the writer
CopyLock == mutex = "free" /\ mutex' = "server"
CopyFirstHalf  == CopyLock /\ frameCopy' = [frameCopy EXCEPT ![1] = upscaled[1]]
CopySecondHalf == mutex' = "free" /\ frameCopy' = [frameCopy EXCEPT ![2] = upscaled[2]]

RouteSnapshot ==
  /\ Routing /\ CopyFirstHalf
  /\ serverPc' = "snapshot"
  /\ UNCHANGED <<audioMutex, clients, audioClients, conn, conns>>

SendSnapshot ==
  /\ serverPc = "snapshot" /\ CopySecondHalf
  /\ conns' = Close({conn}) /\ conn' = "none" /\ serverPc' = "check"
  /\ ServerKeeps
  /\ UNCHANGED <<audioMutex, frameReady, broadcast, clients, audioClients, sendAt, got>>

\* The flag is read under the mutex; with no client to serve it stays set.
CheckConsumes ==  \* faulty: the test lowers the flag, whoever there is to serve
  /\ serverPc = "check" /\ mutex = "free"
  /\ serverPc' = IF frameReady /\ clients # <<>> THEN "broadcast" ELSE "audio"
  /\ frameReady' = FALSE
  /\ ServerKeeps
  /\ UNCHANGED <<mutex, audioMutex, copying, lists, sendAt, got>>
Check ==
  /\ serverPc = "check" /\ mutex = "free"
  /\ serverPc' = IF frameReady /\ clients # <<>> THEN "broadcast" ELSE "audio"
  /\ ServerKeeps
  /\ UNCHANGED <<mutex, audioMutex, frameReady, copying, lists, sendAt, got>>

Copy ==
  /\ serverPc = "broadcast" /\ CopyFirstHalf
  /\ serverPc' = "copying"
  /\ ServerKeeps
  /\ UNCHANGED <<audioMutex, frameReady, broadcast, lists, sendAt, got>>

\* The flag goes down in the critical section that copied the frame.
CopyDone ==
  /\ serverPc = "copying" /\ CopySecondHalf
  /\ frameReady' = FALSE /\ broadcast' = frameCopy[1]
  /\ sendAt' = Len(clients) /\ serverPc' = "send"
  /\ ServerKeeps
  /\ UNCHANGED <<audioMutex, lists, got>>

\* The loop over the clients, from the last to the first so that removing one
\* leaves the indices of those still to be served alone.
Sending == serverPc = "send" /\ sendAt > 0 /\ sendAt' = sendAt - 1

SendFrame ==
  /\ Sending
  /\ got' = [got EXCEPT ![clients[sendAt]] = frameCopy[1]]
  /\ ServerKeeps
  /\ UNCHANGED <<mutex, audioMutex, frameReady, copying, lists, serverPc>>

\* The socket does not block: a send may take a part of the header or of the JPEG,
\* and any number of bytes counts as the frame.  The client stays, with a frame
\* that is cut short in its stream.
SendPart ==
  /\ Sending /\ clients[sendAt] \in Lagging
  /\ ServerKeeps
  /\ UNCHANGED <<mutex, audioMutex, frameReady, copying, lists, got, serverPc>>

Without(seq, i) == RemoveAt(seq, i)

RemoveClient ==
  /\ Sending
  /\ conns' = Close({clients[sendAt]})
  /\ clients' = Without(clients, sendAt)
  /\ ServerKeeps
  /\ UNCHANGED <<mutex, audioMutex, frameReady, copying, audioClients, conn, got, serverPc>>

SendDone ==
  /\ serverPc = "send" /\ sendAt = 0 /\ serverPc' = "audio"
  /\ ServerKeeps
  /\ UNCHANGED <<mutex, audioMutex, frameReady, copying, lists, sendAt, got>>

\* broadcast_audio: the write position is read under the mutex; then each client,
\* again from the last to the first, is sent what it has not heard, or removed.
BroadcastAudio ==
  /\ serverPc = "audio"
  /\ \/ audioClients = <<>> /\ serverPc' = "select" /\ UNCHANGED sendAt
     \/ /\ audioClients # <<>> /\ audioMutex = "free"
        /\ sendAt' = Len(audioClients) /\ serverPc' = "sendAudio"
  /\ ServerKeeps
  /\ UNCHANGED <<mutex, audioMutex, frameReady, copying, lists, got>>

SendingAudio ==
  /\ serverPc = "sendAudio" /\ sendAt > 0 /\ sendAt' = sendAt - 1
  /\ ServerKeeps
  /\ UNCHANGED <<mutex, audioMutex, frameReady, copying, clients, conn, got, serverPc>>

SendAudio == SendingAudio /\ UNCHANGED <<audioClients, conns>>

RemoveAudioClient ==
  /\ SendingAudio
  /\ conns' = Close({audioClients[sendAt]})
  /\ audioClients' = Without(audioClients, sendAt)

SendAudioDone ==
  /\ serverPc = "sendAudio" /\ sendAt = 0 /\ serverPc' = "select"
  /\ ServerKeeps
  /\ UNCHANGED <<mutex, audioMutex, frameReady, copying, lists, sendAt, got>>

Exit ==
  /\ serverPc = "select" /\ ~running
  /\ conns' = Close(Range(clients) \cup Range(audioClients))
  /\ clients' = <<>> /\ audioClients' = <<>> /\ serverPc' = "exited"
  /\ ServerKeeps
  /\ UNCHANGED <<mutex, audioMutex, frameReady, copying, conn, sendAt, got>>

-----------------------------------------------------------------------------
MainNext   == PushBegin \/ PushEnd \/ Quit \/ CloseAudio \/ Stop \/ Join
AudioNext  == AudioEnter \/ AudioLock \/ AudioUnlock
Route      == RouteClosed \/ RouteStream \/ RouteAudio \/ RouteSnapshot
ServerNext == \/ Select \/ Route \/ SendSnapshot \/ Check \/ Copy \/ CopyDone
              \/ SendFrame \/ SendPart \/ RemoveClient \/ SendDone
              \/ BroadcastAudio \/ SendAudio \/ RemoveAudioClient \/ SendAudioDone \/ Exit

Next == MainNext \/ AudioNext \/ ServerNext \/ \E c \in Conns : Connect(c)

\* The threads run, a client that connected speaks or hangs up (the blocking recv
\* of the server thread is one of its steps), and a thread that waits for a mutex
\* that is released again and again obtains it.
Fairness ==
  /\ WF_vars(PushEnd) /\ WF_vars(Stop) /\ WF_vars(Join)
  /\ WF_vars(AudioLock) /\ WF_vars(AudioUnlock)
  /\ SF_vars(CloseAudio)
  /\ WF_vars(ServerNext)
  /\ SF_vars(Check) /\ SF_vars(Copy) /\ SF_vars(BroadcastAudio)

Spec == Init /\ [][Next]_vars /\ Fairness

-----------------------------------------------------------------------------
(* Properties *)

Listed == Range(clients) \cup Range(audioClients)

\* The type of every variable.
TypeOK ==
  /\ mutex \in {"free", "main", "server"} /\ audioMutex \in {"free", "audio"}
  /\ mutexes \in BOOLEAN /\ active \in BOOLEAN /\ running \in BOOLEAN /\ frameReady \in BOOLEAN
  /\ upscaled \in (0..MaxFrames) \X (0..MaxFrames) /\ frameCopy \in (0..MaxFrames) \X (0..MaxFrames)
  /\ clients \in Seq(Conns) /\ Len(clients) <= MaxClients
  /\ audioClients \in Seq(Conns) /\ Len(audioClients) <= MaxAudioClients
  /\ sendAt \in Nat /\ conn \in Conns \cup {"none"}
  /\ conns \in [Conns -> {"new", "queued", "open", "closed"}]
  /\ pushed \in 0..MaxFrames /\ broadcast \in 0..MaxFrames /\ got \in [Conns -> 0..MaxFrames]

\* What the server thread encodes is one frame, never the top of one and the
\* bottom of the next, though the emulation loop writes the buffer meanwhile.
NoTornFrame == serverPc \notin {"snapshot", "copying"} => frameCopy[1] = frameCopy[2]

\* Every socket the server accepted and did not close is in exactly one place,
\* once: the list of its kind, or the request being routed.  In particular none
\* is left open when the thread has exited.
SocketsAccounted ==
  /\ {c \in Conns : conns[c] = "open"} = Listed \cup ({conn} \ {"none"})
  /\ Len(clients) + Len(audioClients) + (IF conn = "none" THEN 0 ELSE 1)
       = Cardinality({c \in Conns : conns[c] = "open"})

\* The mutexes are destroyed only when no thread can touch them any more.
MutexesOutliveUse ==
  ~mutexes => /\ mutex = "free" /\ audioMutex = "free"
              /\ audioPc = "closed" /\ serverPc = "exited" /\ mainPc = "done"


\* A client that is streaming while a frame waits to be broadcast is sent that
\* frame, or a newer one, whole, unless it goes away or the server is stopped
\* first.  Of a client whose socket may be full the code promises no such thing.
Streaming(c) == c \in Range(clients)
FrameReaches ==
  \A c \in Conns \ Lagging : \A n \in 1..MaxFrames :
    (pushed = n /\ broadcast < n /\ Streaming(c)) ~> (got[c] >= n \/ ~Streaming(c))

=============================================================================
