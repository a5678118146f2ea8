------------------------------- MODULE MCCast -------------------------------
(* The three parts of the cast code, which share no variable of the models: a  *)
(* behaviour is one of the server with three connections for two stream        *)
(* clients and one audio client, of the client of castv2.c with its heartbeat, *)
(* or of the audio ring with two audio clients.                                *)
EXTENDS CastServer

CONSTANTS Attempts, Retries, Listeners, Slow, Ring, Chunk, MaxPushes, MaxSamples
VARIABLES
  part,
  state, ssl, transport, hbRunning, hbMutex, clientPc, hbPc, tries, locked, sends, cycle, cancelled, pinged,
  ringMutex, ring, writePos, left, listeners, readPos, ringPc, snap, at, next, pushes, heard, ordered, gapless

Client == INSTANCE CastClient WITH mainPc <- clientPc
Audio == INSTANCE AudioRing WITH
  Clients <- Listeners, mutex <- ringMutex, clients <- listeners, serverPc <- ringPc

ASSUME PartsAssumption == Client!CastClientAssumption /\ Audio!AudioRingAssumption

clientVars ==
  <<state, ssl, transport, hbRunning, hbMutex, clientPc, hbPc, tries, locked, sends, cycle, cancelled, pinged>>
audioVars ==
  <<ringMutex, ring, writePos, left, listeners, readPos, ringPc, snap, at, next, pushes, heard, ordered, gapless>>

CastInit == part \in {"server", "client", "audio"} /\ Init /\ Client!Init /\ Audio!Init
CastNext ==
  \/ part = "server" /\ Next /\ UNCHANGED <<part, clientVars, audioVars>>
  \/ part = "client" /\ Client!Next /\ UNCHANGED <<part, vars, audioVars>>
  \/ part = "audio" /\ Audio!Next /\ UNCHANGED <<part, vars, clientVars>>

\* The fairness of CastServer and CastClient, asked of the part that runs.
Serves(A) == part = "server" /\ A
Calls(A)  == part = "client" /\ A
CastFairness ==
  /\ WF_vars(Serves(PushEnd)) /\ WF_vars(Serves(Stop)) /\ WF_vars(Serves(Join))
  /\ WF_vars(Serves(AudioLock)) /\ WF_vars(Serves(AudioUnlock)) /\ WF_vars(Serves(ServerNext))
  /\ SF_vars(Serves(CloseAudio)) /\ SF_vars(Serves(Check)) /\ SF_vars(Serves(Copy))
  /\ SF_vars(Serves(BroadcastAudio))
  /\ WF_clientVars(Calls(Client!Connect)) /\ WF_clientVars(Calls(Client!CleanUp))
  /\ WF_clientVars(Calls(Client!Heartbeat))

CastSpec == CastInit /\ [][CastNext]_<<part, vars, clientVars, audioVars>> /\ CastFairness

\* Two threads never write to the TLS connection at the same time.
OneWriter == Client!OneWriter
\* No thread uses the connection after the main one has freed it.
ConnectionOutlivesUse == Client!ConnectionOutlivesUse
\* Connecting to the device comes to an end, whatever it answers or fails to, unless
\* it never stops sending while connect drains what an earlier session left.
ConnectReturns == part = "client" => Client!ConnectReturns
\* No audio client is sent a sample twice or out of order, and one whose socket takes
\* all it is given is sent every sample since it came.
StreamWhole == Audio!StreamWhole
=============================================================================
