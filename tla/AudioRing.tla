------------------------------ MODULE AudioRing -----------------------------
(***************************************************************************)
(* The audio ring of src/network/cast_server.c: the SDL audio callback       *)
(* writes samples under audio_mutex, and the server thread sends each client *)
(* what was written since its last turn.  The sends read the ring outside    *)
(* the mutex, while the callback may be writing.                             *)
(*                                                                           *)
(* A sample is its number in the stream.  Nothing in the code keeps the      *)
(* writer from lapping the readers: MaxPushes bounds the callbacks between   *)
(* two passes of the server thread, a matter of time (a pass every 20 ms     *)
(* against a ring of two seconds).                                           *)
(***************************************************************************)
EXTENDS Naturals, Sequences, SequencesExt

CONSTANTS
  Clients,     \* the audio clients that may come
  MaxClients,  \* CAST_MAX_AUDIO_CLIENTS, 4
  Ring,        \* CAST_AUDIO_RING_SAMPLES
  Chunk,       \* samples of one callback
  MaxPushes,   \* callbacks between two passes of the server thread
  MaxSamples,  \* bound of the model: samples of the stream
  Slow         \* the clients whose sockets may take a part of what is sent

\* What the constants must satisfy.
AudioRingAssumption ==
  /\ {MaxClients, Ring, Chunk, MaxPushes, MaxSamples} \subseteq Nat \ {0}
  /\ 2 * MaxPushes * Chunk <= Ring
  /\ Slow \subseteq Clients

Positions == 0..Ring - 1

VARIABLES
  mutex,    \* audio_mutex: "free" or "audio", the callback
  ring,     \* audio_ring
  writePos, \* audio_write_pos
  left,     \* samples the running callback still has to write
  clients,  \* audio_clients[0..num_audio_clients-1]
  readPos,  \* audio_read_pos of each of them
  serverPc, \* where the server thread is in broadcast_audio
  snap,     \* its write_pos
  at,       \* the client it serves: the loop's i + 1
  next,     \* ghost: the number of the next sample
  pushes,   \* ghost: callbacks since the last pass of the server thread
  heard,    \* ghost: the last sample sent to each client
  ordered,  \* ghost: every sample sent was newer than those before it
  gapless   \* ghost: ... and, for clients that are not slow, the next one

writer == <<mutex, ring, writePos, left, next>>
reader == <<clients, readPos, serverPc, snap, at, heard, ordered, gapless>>
vars   == <<writer, reader, pushes>>

Init ==
  /\ mutex = "free" /\ ring = [p \in Positions |-> 0] /\ writePos = 0 /\ left = 0
  /\ clients = <<>> /\ readPos = <<>> /\ serverPc = "idle" /\ snap = 0 /\ at = 0
  /\ next = 1 /\ pushes = 0
  /\ heard = [c \in Clients |-> 0] /\ ordered = TRUE /\ gapless = TRUE

-----------------------------------------------------------------------------
(* cast_server_push_audio *)

AudioLock ==
  /\ mutex = "free" /\ pushes < MaxPushes /\ next + Chunk <= MaxSamples
  /\ mutex' = "audio" /\ left' = Chunk /\ pushes' = pushes + 1
  /\ UNCHANGED <<ring, writePos, next, reader>>

WriteSample ==
  /\ mutex = "audio"
  /\ ring' = [ring EXCEPT ![writePos] = next] /\ next' = next + 1
  /\ writePos' = (writePos + 1) % Ring
  /\ left' = left - 1 /\ mutex' = IF left = 1 THEN "free" ELSE "audio"
  /\ UNCHANGED <<reader, pushes>>

-----------------------------------------------------------------------------
(* add_audio_client: a new client starts at the writer's position, read under *)
(* the mutex. *)

StartAt == writePos

AddClient(c) ==
  /\ serverPc = "idle" /\ mutex = "free"
  /\ Len(clients) < MaxClients /\ c \notin Range(clients)
  /\ clients' = Append(clients, c) /\ readPos' = Append(readPos, StartAt)
  /\ heard' = [heard EXCEPT ![c] = next - 1]
  /\ UNCHANGED <<writer, pushes, serverPc, snap, at, ordered, gapless>>

-----------------------------------------------------------------------------
(* broadcast_audio *)

Snapshot ==
  /\ serverPc = "idle" /\ clients # <<>> /\ mutex = "free"
  /\ snap' = writePos /\ at' = Len(clients) /\ serverPc' = "send" /\ pushes' = 0
  /\ UNCHANGED <<writer, clients, readPos, heard, ordered, gapless>>

\* A pass with nobody to serve.
PassNobody ==
  /\ serverPc = "idle" /\ clients = <<>> /\ pushes' = 0
  /\ UNCHANGED <<writer, reader>>

\* What is to be sent to the client at hand: up to the snapshot or, once the
\* writer has wrapped around, to the end of the ring.
Wrapped == snap < readPos[at]
FirstLen == IF Wrapped THEN Ring - readPos[at] ELSE snap - readPos[at]

\* The lengths a send may return for n samples.
Taken(n) == IF clients[at] \in Slow THEN 1..n ELSE {n}

\* n samples from position p on go to client c.
Deliver(c, p, n) ==
  /\ heard' = [heard EXCEPT ![c] = ring[p + n - 1]]
  /\ ordered' = (ordered /\ ring[p] > heard[c] /\ \A k \in 1..n - 1 : ring[p + k] > ring[p + k - 1])
  /\ gapless' = (gapless /\ (c \in Slow \/ \A k \in 0..n - 1 : ring[p + k] = heard[c] + 1 + k))

\* The next client's turn, with this one where the snapshot was taken.
Advance == readPos' = [readPos EXCEPT ![at] = snap] /\ at' = at - 1 /\ serverPc' = "send"
Keep    == UNCHANGED <<writer, pushes, clients, snap>>

\* Nothing was written since this client's last turn.
SendNothing ==
  /\ serverPc = "send" /\ at > 0 /\ readPos[at] = snap
  /\ at' = at - 1
  /\ UNCHANGED <<writer, pushes, clients, readPos, serverPc, snap, heard, ordered, gapless>>

SendFirst ==
  /\ serverPc = "send" /\ at > 0 /\ readPos[at] # snap
  /\ \E n \in Taken(FirstLen) : Deliver(clients[at], readPos[at], n)
  /\ IF Wrapped /\ snap > 0 THEN serverPc' = "second" /\ UNCHANGED <<readPos, at>> ELSE Advance
  /\ Keep

SendSecond ==
  /\ serverPc = "second"
  /\ \E n \in Taken(snap) : Deliver(clients[at], 0, n)
  /\ Advance /\ Keep

\* remove_audio_client: the clients behind it move down, and their positions
\* with them.
WithoutPosLast(i) == Front(readPos)  \* faulty: the positions are not moved down
WithoutPos(i) == RemoveAt(readPos, i)

SendFails ==
  /\ serverPc \in {"send", "second"} /\ at > 0 /\ readPos[at] # snap
  /\ clients' = RemoveAt(clients, at) /\ readPos' = WithoutPos(at)
  /\ at' = at - 1 /\ serverPc' = "send"
  /\ UNCHANGED <<writer, pushes, snap, heard, ordered, gapless>>

SendDone ==
  /\ serverPc = "send" /\ at = 0 /\ serverPc' = "idle"
  /\ UNCHANGED <<writer, pushes, clients, readPos, snap, at, heard, ordered, gapless>>

Next ==
  \/ AudioLock \/ WriteSample
  \/ \E c \in Clients : AddClient(c)
  \/ Snapshot \/ PassNobody \/ SendNothing \/ SendFirst \/ SendSecond \/ SendFails \/ SendDone

Spec == Init /\ [][Next]_vars

-----------------------------------------------------------------------------
(* Properties *)

\* No client is sent a sample twice, an old one after a newer one, or one from
\* before it came, although the ring is read while it is written, clients come
\* and go in the middle of the array and sockets take parts of what they are
\* sent; and a client whose socket takes all it is given is sent every sample from
\* the moment it came.
StreamWhole == ordered /\ gapless

=============================================================================
