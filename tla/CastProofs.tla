----------------------------- MODULE CastProofs -----------------------------
(* The three threads of the cast server, for every set of connections, every   *)
(* size of the two client tables and every number of frames; the CASTV2        *)
(* client's two threads over one connection, for every number of attempts and  *)
(* retries; and the audio ring of AudioRingProofs: each as the part of MCCast   *)
(* that the runs check.                                                        *)
EXTENDS MCCast, TLAPS, SequenceTheorems, FiniteSetTheorems

Proven == INSTANCE AudioRingProofs WITH
  Clients <- Listeners, mutex <- ringMutex, clients <- listeners, serverPc <- ringPc

-----------------------------------------------------------------------------
(* The server *)

\* A mutex is held exactly where its holder is between lock and unlock.
LocksHeld ==
  /\ mutex \in {"free", "main", "server"}
  /\ mutex = "main" <=> mainPc = "pushing"
  /\ mutex = "server" <=> serverPc \in {"snapshot", "copying"}
  /\ audioMutex \in {"free", "audio"}
  /\ audioMutex = "audio" <=> audioPc = "pushing"

\* The shared frame is torn only while it is being written, and a copy that is
\* half made has the first half of the frame that is there.
FramesWhole ==
  /\ upscaled = <<upscaled[1], upscaled[2]>> /\ frameCopy = <<frameCopy[1], frameCopy[2]>>
  /\ upscaled[1] = IF mainPc = "pushing" THEN pushed + 1 ELSE upscaled[2]
  /\ serverPc \in {"snapshot", "copying"} => frameCopy[1] = upscaled[1]
  /\ NoTornFrame

\* The order of emulator_cleanup and cast_server_stop.
ShutDownInOrder ==
  /\ mainPc \in {"stopping", "joining", "done"} => audioPc = "closed"
  /\ mainPc = "done" => serverPc = "exited"
  /\ ~mutexes => mainPc = "done"

\* A table of clients has no connection twice.
Once(list) == \A i, j \in 1..Len(list) : list[i] = list[j] => i = j

\* Where the loops of the server thread are, they have an entry to look at.
Tables ==
  /\ clients \in Seq(Conns) /\ Once(clients)
  /\ audioClients \in Seq(Conns) /\ Once(audioClients)
  /\ Range(clients) \cap Range(audioClients) = {}
  /\ Len(clients) <= MaxClients /\ Len(audioClients) <= MaxAudioClients
  /\ sendAt \in Nat
  /\ serverPc = "send" => sendAt <= Len(clients)
  /\ serverPc = "sendAudio" => sendAt <= Len(audioClients)

\* A connection is open when it is in a table or being routed, and only then.
OpenAreListed ==
  /\ conn \in Conns \cup {"none"} /\ conn \notin Listed
  /\ conn = "none" <=> serverPc \notin {"route", "snapshot"}
  /\ conns \in [Conns -> {"new", "queued", "open", "closed"}]
  /\ \A c \in Conns : conns[c] = "open" <=> c \in Listed \/ c = conn

\* The rest of the types: numbers of frames, and flags.
Numbers ==
  /\ pushed \in 0..MaxFrames /\ (mainPc = "pushing" => pushed < MaxFrames)
  /\ upscaled[1] \in 0..MaxFrames /\ upscaled[2] \in 0..MaxFrames
  /\ frameCopy[1] \in 0..MaxFrames /\ frameCopy[2] \in 0..MaxFrames
  /\ broadcast \in 0..MaxFrames /\ got \in [Conns -> 0..MaxFrames]
Flags == mutexes \in BOOLEAN /\ active \in BOOLEAN /\ running \in BOOLEAN /\ frameReady \in BOOLEAN

ServerInv == LocksHeld /\ FramesWhole /\ ShutDownInOrder /\ Tables /\ OpenAreListed /\ Numbers /\ Flags

-----------------------------------------------------------------------------
(* Tables as sequences *)

\* add_client and add_audio_client: a new connection goes to the end.
LEMMA AppendToTable ==
  ASSUME NEW list \in Seq(Conns), Once(list), NEW c \in Conns, c \notin Range(list)
  PROVE  /\ Append(list, c) \in Seq(Conns) /\ Once(Append(list, c))
         /\ Len(Append(list, c)) = Len(list) + 1
         /\ Range(Append(list, c)) = Range(list) \cup {c}
<1>1. /\ Append(list, c) \in Seq(Conns) /\ Len(Append(list, c)) = Len(list) + 1
      /\ \A i \in 1..Len(list) : Append(list, c)[i] = list[i]
      /\ Append(list, c)[Len(list) + 1] = c
  BY AppendProperties
<1>2. Range(list) = {list[i] : i \in 1..Len(list)}
  BY RangeEquality
<1>3. Range(Append(list, c)) = {Append(list, c)[i] : i \in 1..Len(list) + 1}
  BY <1>1, RangeEquality
<1>4. Once(Append(list, c))
  BY <1>1, <1>2, LenProperties DEF Once
<1>5. Range(Append(list, c)) = Range(list) \cup {c}
  BY <1>1, <1>2, <1>3, LenProperties
<1>. QED BY <1>1, <1>4, <1>5

\* remove_client and remove_audio_client: the entries behind move up.
LEMMA RemoveFromTable ==
  ASSUME NEW list \in Seq(Conns), Once(list), NEW i \in 1..Len(list)
  PROVE  /\ Without(list, i) \in Seq(Conns) /\ Once(Without(list, i))
         /\ Len(Without(list, i)) = Len(list) - 1
         /\ Range(Without(list, i)) = Range(list) \ {list[i]}
         /\ list[i] \in Conns /\ list[i] \in Range(list)
<1>. DEFINE before == SubSeq(list, 1, i - 1)
            after == SubSeq(list, i + 1, Len(list))
            rest == Without(list, i)
<1>0. Len(list) \in Nat /\ i \in Nat /\ \A j \in 1..Len(list) : list[j] \in Conns
  BY LenProperties, ElementOfSeq
<1>1. /\ before \in Seq(Conns) /\ Len(before) = i - 1
      /\ \A j \in 1..(i - 1) : before[j] = list[j]
  <2>1. 1 \in Int /\ i - 1 \in Int /\ \A j \in 1..(i - 1) : list[j] \in Conns
    BY <1>0
  <2>2. /\ before \in Seq(Conns) /\ Len(before) = IF 1 <= i - 1 THEN (i - 1) - 1 + 1 ELSE 0
        /\ \A j \in 1..((i - 1) - 1 + 1) : before[j] = list[1 + j - 1]
    BY <2>1, SubSeqProperties
  <2>. QED BY <2>2, <1>0
<1>2. /\ after \in Seq(Conns) /\ Len(after) = Len(list) - i
      /\ \A j \in 1..(Len(list) - i) : after[j] = list[i + j]
  BY <1>0, SubSeqProperties
<1>3. rest = before \o after
  BY DEF Without, RemoveAt
<1>. HIDE DEF before, after, rest
<1>4. /\ rest \in Seq(Conns) /\ Len(rest) = Len(list) - 1
      /\ \A j \in 1..(Len(list) - 1) : rest[j] = IF j < i THEN list[j] ELSE list[j + 1]
  <2>1. /\ rest \in Seq(Conns) /\ Len(rest) = Len(before) + Len(after)
        /\ \A j \in 1..(Len(before) + Len(after)) :
             rest[j] = IF j <= Len(before) THEN before[j] ELSE after[j - Len(before)]
    BY <1>1, <1>2, <1>3, ConcatProperties
  <2>2. ASSUME NEW j \in 1..(Len(list) - 1)
        PROVE  rest[j] = IF j < i THEN list[j] ELSE list[j + 1]
    <3>0. /\ j \in Int /\ j >= 1 /\ j <= Len(list) - 1
          /\ rest[j] = IF j <= i - 1 THEN before[j] ELSE after[j - (i - 1)]
      BY <2>1, <1>0, <1>1, <1>2
    <3>1. CASE j < i
      <4>1. j \in 1..(i - 1) /\ rest[j] = before[j]
        BY <3>0, <3>1, <1>0
      <4>. QED BY <4>1, <3>1, <1>1
    <3>2. CASE j >= i
      <4>1. rest[j] = after[j - (i - 1)] /\ j - (i - 1) \in 1..(Len(list) - i)
        BY <3>0, <3>2, <1>0
      <4>2. after[j - (i - 1)] = list[i + (j - (i - 1))] /\ i + (j - (i - 1)) = j + 1
        BY <4>1, <1>0, <1>2
      <4>. QED BY <3>0, <3>2, <4>1, <4>2, <1>0
    <3>. QED BY <3>0, <3>1, <3>2, <1>0
  <2>3. Len(rest) = Len(list) - 1
    BY <2>1, <1>0, <1>1, <1>2
  <2>. QED BY <2>1, <2>2, <2>3, Zenon
<1>5. Range(list) = {list[j] : j \in 1..Len(list)}
  BY RangeEquality
<1>6. Range(rest) = {rest[j] : j \in 1..(Len(list) - 1)}
  BY <1>4, RangeEquality
<1>7. Once(rest)
  BY <1>0, <1>4 DEF Once
<1>8. Range(rest) = Range(list) \ {list[i]}
  <2>1. ASSUME NEW x \in Range(rest) PROVE x \in Range(list) \ {list[i]}
    <3>1. PICK j \in 1..(Len(list) - 1) : x = rest[j]
      BY <1>6
    <3>2. CASE j < i
      <4>1. j \in 1..Len(list) /\ j # i /\ x = list[j]
        BY <1>0, <1>4, <3>1, <3>2
      <4>. QED BY <1>5, <4>1 DEF Once
    <3>3. CASE ~(j < i)
      <4>1. j + 1 \in 1..Len(list) /\ j + 1 # i /\ x = list[j + 1]
        BY <1>0, <1>4, <3>1, <3>3
      <4>. QED BY <1>5, <4>1 DEF Once
    <3>. QED BY <3>2, <3>3
  <2>2. ASSUME NEW x \in Range(list) \ {list[i]} PROVE x \in Range(rest)
    <3>1. PICK j \in 1..Len(list) : x = list[j] /\ j # i
      BY <1>5
    <3>2. CASE j < i
      BY <3>1, <3>2, <1>0, <1>4, <1>6
    <3>3. CASE j > i
      <4>1. j - 1 \in 1..(Len(list) - 1) /\ rest[j - 1] = list[j]
        BY <3>3, <1>0, <1>4
      <4>. QED BY <4>1, <3>1, <1>6
    <3>. QED BY <3>1, <3>2, <3>3, <1>0
  <2>. QED BY <2>1, <2>2
<1>. QED BY <1>0, <1>4, <1>5, <1>7, <1>8 DEF rest

\* A table has as many connections as entries.
LEMMA TableCardinality ==
  ASSUME NEW list \in Seq(Conns), Once(list)
  PROVE  IsFiniteSet(Range(list)) /\ Cardinality(Range(list)) = Len(list)
<1>1. Len(list) \in Nat /\ list \in [1..Len(list) -> Conns]
  BY LenProperties
<1>2. Range(list) = {list[j] : j \in 1..Len(list)}
  BY RangeEquality
<1>3. list \in Bijection(1..Len(list), Range(list))
  BY <1>1, <1>2 DEF Once, Bijection, Injection, Surjection, IsInjective
<1>4. ExistsBijection(1..Len(list), Range(list))
  BY <1>3 DEF ExistsBijection
<1>5. IsFiniteSet(1..Len(list)) /\ Cardinality(1..Len(list)) = Len(list)
  <2>1. /\ 1 \in Int /\ Len(list) \in Int
        /\ Len(list) = IF 1 > Len(list) THEN 0 ELSE Len(list) - 1 + 1
    BY <1>1
  <2>2. /\ IsFiniteSet(1..Len(list))
        /\ Cardinality(1..Len(list)) = IF 1 > Len(list) THEN 0 ELSE Len(list) - 1 + 1
    BY <2>1, FS_Interval, Zenon
  <2>. QED BY <2>1, <2>2, Zenon
<1>. QED BY <1>4, <1>5, FS_Bijection

-----------------------------------------------------------------------------
LEMMA ServerInit == Init => ServerInv
<1>. SUFFICES ASSUME Init PROVE ServerInv
  OBVIOUS
<1>. USE CastServerAssumption DEF Init
<1>1. LocksHeld /\ ShutDownInOrder
  BY DEF LocksHeld, ShutDownInOrder
<1>2. FramesWhole
  BY DEF FramesWhole, NoTornFrame, NoFrame
<1>3. Tables
  <2>1. <<>> \in Seq(Conns) /\ Len(<<>>) = 0
    BY EmptySeq
  <2>2. Range(<<>>) = {<<>>[i] : i \in 1..Len(<<>>)}
    BY EmptySeq, RangeEquality
  <2>. QED BY <2>1, <2>2 DEF Tables, Once
<1>4. OpenAreListed
  <2>1. Range(<<>>) = {<<>>[i] : i \in 1..0}
    BY EmptySeq, RangeEquality
  <2>2. Listed = {}
    BY <2>1 DEF Listed
  <2>. QED BY <2>2 DEF OpenAreListed
<1>5. Numbers
  BY DEF Numbers, NoFrame
<1>6. Flags
  BY DEF Flags
<1>. QED BY <1>1, <1>2, <1>3, <1>4, <1>5, <1>6 DEF ServerInv

\* The three variables of locks and the three program counters.
LEMMA LocksStep == LocksHeld /\ Next => LocksHeld'
<1>. SUFFICES ASSUME LocksHeld, Next PROVE LocksHeld'
  OBVIOUS
<1>. USE DEF LocksHeld
<1>1. CASE MainNext
  BY <1>1 DEF MainNext, PushBegin, PushEnd, Quit, CloseAudio, Stop, Join, locks
<1>2. CASE AudioNext
  BY <1>2 DEF AudioNext, AudioEnter, AudioLock, AudioUnlock, AudioStep
<1>3. CASE ServerNext
  <2>. USE DEF ServerKeeps
  <2>1. CASE Route
    BY <2>1 DEF Route, RouteClosed, RouteStream, RouteAudio, RouteSnapshot, Routing, CopyFirstHalf, CopyLock
  <2>2. CASE SendSnapshot \/ Copy \/ CopyDone
    BY <2>2 DEF SendSnapshot, Copy, CopyDone, CopyFirstHalf, CopySecondHalf, CopyLock
  <2>3. CASE Select \/ Check
    BY <2>3 DEF Select, Check
  <2>4. CASE SendFrame \/ SendPart \/ RemoveClient \/ SendDone
    BY <2>4 DEF SendFrame, SendPart, RemoveClient, SendDone, Sending
  <2>5. CASE BroadcastAudio \/ SendAudio \/ RemoveAudioClient \/ SendAudioDone
    BY <2>5 DEF BroadcastAudio, SendAudio, RemoveAudioClient, SendAudioDone, SendingAudio
  <2>6. CASE Exit
    BY <2>6 DEF Exit
  <2>. QED BY <1>3, <2>1, <2>2, <2>3, <2>4, <2>5, <2>6 DEF ServerNext
<1>4. CASE \E c \in Conns : Connect(c)
  BY <1>4 DEF Connect, locks, pcs
<1>. QED BY <1>1, <1>2, <1>3, <1>4 DEF Next

LEMMA FramesStep == LocksHeld /\ FramesWhole /\ Next => FramesWhole'
<1>. SUFFICES ASSUME LocksHeld, FramesWhole, Next PROVE FramesWhole'
  OBVIOUS
<1>. USE DEF LocksHeld, FramesWhole, NoTornFrame, frame, copying
<1>1. CASE MainNext
  BY <1>1 DEF MainNext, PushBegin, PushEnd, Quit, CloseAudio, Stop, Join
<1>2. CASE AudioNext
  BY <1>2 DEF AudioNext, AudioEnter, AudioLock, AudioUnlock, AudioStep
<1>3. CASE ServerNext
  <2>. USE DEF ServerKeeps
  <2>1. CASE Route
    BY <2>1 DEF Route, RouteClosed, RouteStream, RouteAudio, RouteSnapshot, Routing, CopyFirstHalf, CopyLock
  <2>2. CASE SendSnapshot \/ Copy \/ CopyDone
    BY <2>2 DEF SendSnapshot, Copy, CopyDone, CopyFirstHalf, CopySecondHalf, CopyLock
  <2>3. CASE Select \/ Check
    BY <2>3 DEF Select, Check
  <2>4. CASE SendFrame \/ SendPart \/ RemoveClient \/ SendDone
    BY <2>4 DEF SendFrame, SendPart, RemoveClient, SendDone, Sending
  <2>5. CASE BroadcastAudio \/ SendAudio \/ RemoveAudioClient \/ SendAudioDone
    BY <2>5 DEF BroadcastAudio, SendAudio, RemoveAudioClient, SendAudioDone, SendingAudio
  <2>6. CASE Exit
    BY <2>6 DEF Exit
  <2>. QED BY <1>3, <2>1, <2>2, <2>3, <2>4, <2>5, <2>6 DEF ServerNext
<1>4. CASE \E c \in Conns : Connect(c)
  BY <1>4 DEF Connect, pcs
<1>. QED BY <1>1, <1>2, <1>3, <1>4 DEF Next

LEMMA ShutDownStep == ShutDownInOrder /\ Next => ShutDownInOrder'
<1>. SUFFICES ASSUME ShutDownInOrder, Next PROVE ShutDownInOrder'
  OBVIOUS
<1>. USE DEF ShutDownInOrder
<1>1. CASE MainNext
  BY <1>1 DEF MainNext, PushBegin, PushEnd, Quit, CloseAudio, Stop, Join, locks
<1>2. CASE AudioNext
  BY <1>2 DEF AudioNext, AudioEnter, AudioLock, AudioUnlock, AudioStep
<1>3. CASE ServerNext
  <2>. USE DEF ServerKeeps
  <2>1. CASE Route
    BY <2>1 DEF Route, RouteClosed, RouteStream, RouteAudio, RouteSnapshot, Routing
  <2>2. CASE SendSnapshot \/ Copy \/ CopyDone \/ Select \/ Check
    BY <2>2 DEF SendSnapshot, Copy, CopyDone, Select, Check
  <2>3. CASE SendFrame \/ SendPart \/ RemoveClient \/ SendDone
    BY <2>3 DEF SendFrame, SendPart, RemoveClient, SendDone, Sending
  <2>4. CASE BroadcastAudio \/ SendAudio \/ RemoveAudioClient \/ SendAudioDone \/ Exit
    BY <2>4 DEF BroadcastAudio, SendAudio, RemoveAudioClient, SendAudioDone, SendingAudio, Exit
  <2>. QED BY <1>3, <2>1, <2>2, <2>3, <2>4 DEF ServerNext
<1>4. CASE \E c \in Conns : Connect(c)
  BY <1>4 DEF Connect, locks, pcs
<1>. QED BY <1>1, <1>2, <1>3, <1>4 DEF Next

LEMMA NumbersStep == FramesWhole /\ Numbers /\ Next => Numbers'
<1>. SUFFICES ASSUME FramesWhole, Numbers, Next PROVE Numbers'
  OBVIOUS
<1>. USE CastServerAssumption DEF FramesWhole, Numbers, frame, copying
<1>1. CASE MainNext
  BY <1>1 DEF MainNext, PushBegin, PushEnd, Quit, CloseAudio, Stop, Join
<1>2. CASE AudioNext
  BY <1>2 DEF AudioNext, AudioEnter, AudioLock, AudioUnlock, AudioStep
<1>3. CASE ServerNext
  <2>. USE DEF ServerKeeps
  <2>1. CASE Route
    BY <2>1 DEF Route, RouteClosed, RouteStream, RouteAudio, RouteSnapshot, Routing, CopyFirstHalf
  <2>2. CASE SendSnapshot
    BY <2>2 DEF SendSnapshot, CopyFirstHalf, CopySecondHalf
  <2>7. CASE Copy \/ CopyDone
    BY <2>7 DEF Copy, CopyDone, CopyFirstHalf, CopySecondHalf
  <2>3. CASE Select \/ Check \/ Exit
    BY <2>3 DEF Select, Check, Exit
  <2>4. CASE SendFrame \/ SendPart
    BY <2>4 DEF SendFrame, SendPart, Sending
  <2>5. CASE RemoveClient \/ SendDone
    BY <2>5 DEF RemoveClient, SendDone, Sending
  <2>6. CASE BroadcastAudio \/ SendAudio \/ RemoveAudioClient \/ SendAudioDone
    BY <2>6 DEF BroadcastAudio, SendAudio, RemoveAudioClient, SendAudioDone, SendingAudio
  <2>. QED BY <1>3, <2>1, <2>2, <2>7, <2>3, <2>4, <2>5, <2>6 DEF ServerNext
<1>4. CASE \E c \in Conns : Connect(c)
  BY <1>4 DEF Connect, pcs
<1>. QED BY <1>1, <1>2, <1>3, <1>4 DEF Next

LEMMA FlagsStep == Flags /\ Next => Flags'
BY DEF Flags, frame, locks, ServerKeeps, Next, MainNext, PushBegin, PushEnd, Quit, CloseAudio, Stop, Join,
       AudioNext, AudioEnter, AudioLock, AudioUnlock, AudioStep, Connect, ServerNext, Select,
       Route, RouteClosed, RouteStream, RouteAudio, RouteSnapshot, Routing, SendSnapshot, Check,
       Copy, CopyDone, SendFrame, SendPart, RemoveClient, SendDone, Sending, BroadcastAudio, SendAudio,
       RemoveAudioClient, SendAudioDone, SendingAudio, Exit

-----------------------------------------------------------------------------
(* The tables and what is open *)

LEMMA ListedAreConns == Tables => Listed \subseteq Conns /\ "none" \notin Listed
BY CastServerAssumption, RangeOfSeq DEF Tables, Listed

\* The connection being routed goes into the table of its kind, or is closed.
LEMMA RouteStep == Tables /\ OpenAreListed /\ Route => Tables' /\ OpenAreListed'
<1>. SUFFICES ASSUME Tables, OpenAreListed, Route PROVE Tables' /\ OpenAreListed'
  OBVIOUS
<1>. USE CastServerAssumption, ListedAreConns DEF Routing, ServerKeeps, Tables, OpenAreListed, Listed, Close
<1>0. serverPc = "route" /\ conn \in Conns
  BY DEF Route, RouteClosed, RouteStream, RouteAudio, RouteSnapshot
<1>1. CASE RouteClosed
  BY <1>0, <1>1 DEF RouteClosed
<1>2. CASE RouteStream
  <2>1. CASE Full(clients, MaxClients)
    BY <1>0, <1>2, <2>1 DEF RouteStream
  <2>2. CASE ~Full(clients, MaxClients)
    <3>1. /\ clients' = Append(clients, conn) /\ conns' = conns /\ audioClients' = audioClients
          /\ conn' = "none" /\ serverPc' = "check" /\ sendAt' = sendAt
      BY <1>2, <2>2 DEF RouteStream
    <3>2. /\ clients' \in Seq(Conns) /\ Once(clients') /\ Len(clients') <= MaxClients
          /\ Range(clients') = Range(clients) \cup {conn}
      BY <1>0, <2>2, <3>1, AppendToTable, LenProperties DEF Full
    <3>. QED BY <1>0, <3>1, <3>2
  <2>. QED BY <2>1, <2>2
<1>3. CASE RouteAudio
  <2>1. CASE Full(audioClients, MaxAudioClients)
    BY <1>0, <1>3, <2>1 DEF RouteAudio
  <2>2. CASE ~Full(audioClients, MaxAudioClients)
    <3>1. /\ audioClients' = Append(audioClients, conn) /\ conns' = conns /\ clients' = clients
          /\ conn' = "none" /\ serverPc' = "check" /\ sendAt' = sendAt
      BY <1>3, <2>2 DEF RouteAudio
    <3>2. /\ audioClients' \in Seq(Conns) /\ Once(audioClients') /\ Len(audioClients') <= MaxAudioClients
          /\ Range(audioClients') = Range(audioClients) \cup {conn}
      BY <1>0, <2>2, <3>1, AppendToTable, LenProperties DEF Full
    <3>. QED BY <1>0, <3>1, <3>2
  <2>. QED BY <2>1, <2>2
<1>4. CASE RouteSnapshot
  BY <1>0, <1>4 DEF RouteSnapshot
<1>. QED BY <1>1, <1>2, <1>3, <1>4 DEF Route

\* A client whose socket fails leaves its table and is closed.
LEMMA RemoveStep ==
  Tables /\ OpenAreListed /\ (RemoveClient \/ RemoveAudioClient) => Tables' /\ OpenAreListed'
<1>. SUFFICES ASSUME Tables, OpenAreListed, RemoveClient \/ RemoveAudioClient
              PROVE  Tables' /\ OpenAreListed'
  OBVIOUS
<1>. USE CastServerAssumption DEF ServerKeeps, Tables, OpenAreListed, Listed, Close
<1>1. CASE RemoveClient
  <2>1. /\ sendAt \in 1..Len(clients) /\ serverPc = "send" /\ serverPc' = "send"
        /\ sendAt' = sendAt - 1 /\ clients' = Without(clients, sendAt)
        /\ conns' = Close({clients[sendAt]}) /\ UNCHANGED <<audioClients, conn>>
    BY <1>1, LenProperties DEF RemoveClient, Sending
  <2>2. /\ clients' \in Seq(Conns) /\ Once(clients') /\ Len(clients') = Len(clients) - 1
        /\ Range(clients') = Range(clients) \ {clients[sendAt]}
        /\ clients[sendAt] \in Conns /\ clients[sendAt] \in Range(clients)
    BY <2>1, RemoveFromTable
  <2>3. Tables'
    BY <2>1, <2>2, LenProperties
  <2>4. OpenAreListed'
    BY <2>1, <2>2
  <2>. QED BY <2>3, <2>4
<1>2. CASE RemoveAudioClient
  <2>1. /\ sendAt \in 1..Len(audioClients) /\ serverPc = "sendAudio" /\ serverPc' = "sendAudio"
        /\ sendAt' = sendAt - 1 /\ audioClients' = Without(audioClients, sendAt)
        /\ conns' = Close({audioClients[sendAt]}) /\ UNCHANGED <<clients, conn>>
    BY <1>2, LenProperties DEF RemoveAudioClient, SendingAudio
  <2>2. /\ audioClients' \in Seq(Conns) /\ Once(audioClients')
        /\ Len(audioClients') = Len(audioClients) - 1
        /\ Range(audioClients') = Range(audioClients) \ {audioClients[sendAt]}
        /\ audioClients[sendAt] \in Conns /\ audioClients[sendAt] \in Range(audioClients)
    BY <2>1, RemoveFromTable
  <2>3. Tables'
    BY <2>1, <2>2, LenProperties
  <2>4. OpenAreListed'
    BY <2>1, <2>2
  <2>. QED BY <2>3, <2>4
<1>. QED BY <1>1, <1>2

\* The rest of the server thread.
LEMMA ServerTablesStep == Tables /\ OpenAreListed /\ ServerNext => Tables' /\ OpenAreListed'
<1>. SUFFICES ASSUME Tables, OpenAreListed, ServerNext PROVE Tables' /\ OpenAreListed'
  OBVIOUS
<1>. USE CastServerAssumption, ListedAreConns DEF ServerKeeps, Tables, OpenAreListed, Listed, lists
<1>0. Len(clients) \in Nat /\ Len(audioClients) \in Nat
  BY LenProperties
<1>1. CASE Select
  BY <1>1 DEF Select
<1>2. CASE SendSnapshot
  BY <1>2 DEF SendSnapshot, Close
<1>3. CASE Check \/ Copy
  BY <1>3 DEF Check, Copy
<1>4. CASE CopyDone
  BY <1>0, <1>4 DEF CopyDone
<1>5. CASE SendFrame \/ SendPart \/ SendDone
  BY <1>0, <1>5 DEF SendFrame, SendPart, SendDone, Sending
<1>6. CASE BroadcastAudio
  BY <1>0, <1>6 DEF BroadcastAudio
<1>7. CASE SendAudio \/ SendAudioDone
  BY <1>0, <1>7 DEF SendAudio, SendAudioDone, SendingAudio
<1>8. CASE Exit
  <2>1. clients' = <<>> /\ audioClients' = <<>> /\ serverPc' = "exited" /\ conn' = conn /\ sendAt' = sendAt
        /\ serverPc = "select" /\ conns' = Close(Range(clients) \cup Range(audioClients))
    BY <1>8 DEF Exit
  <2>2. <<>> \in Seq(Conns) /\ Len(<<>>) = 0
    BY EmptySeq
  <2>3. Range(<<>>) = {} /\ Once(<<>>)
    <3>1. Range(<<>>) = {<<>>[i] : i \in 1..Len(<<>>)}
      BY ONLY <2>2, RangeEquality
    <3>. QED BY <2>2, <3>1 DEF Once
  <2>4. Tables'
    BY <2>1, <2>2, <2>3
  <2>5. OpenAreListed'
    BY <2>1, <2>3 DEF Close
  <2>. QED BY <2>4, <2>5
<1>. QED BY <1>1, <1>2, <1>3, <1>4, <1>5, <1>6, <1>7, <1>8, RouteStep, RemoveStep DEF ServerNext

LEMMA TablesStep == Tables /\ OpenAreListed /\ Next => Tables' /\ OpenAreListed'
<1>. SUFFICES ASSUME Tables, OpenAreListed, Next PROVE Tables' /\ OpenAreListed'
  OBVIOUS
<1>. USE CastServerAssumption DEF Tables, OpenAreListed, Listed, lists, pcs
<1>1. CASE PushBegin \/ PushEnd \/ Quit \/ CloseAudio \/ Stop
  BY <1>1 DEF PushBegin, PushEnd, Quit, CloseAudio, Stop
<1>2. CASE Join
  BY <1>2 DEF Join, Close
<1>3. CASE AudioNext
  BY <1>3 DEF AudioNext, AudioEnter, AudioLock, AudioUnlock, AudioStep
<1>4. CASE \E c \in Conns : Connect(c)
  BY <1>4 DEF Connect
<1>. QED BY <1>1, <1>2, <1>3, <1>4, ServerTablesStep DEF Next, MainNext

LEMMA ServerStep == ServerInv /\ [Next]_vars => ServerInv'
<1>1. ServerInv /\ Next => ServerInv'
  BY LocksStep, FramesStep, ShutDownStep, TablesStep, NumbersStep, FlagsStep DEF ServerInv
<1>2. ServerInv /\ UNCHANGED vars => ServerInv'
  BY DEF Numbers, Flags, vars, locks, frame, copying, lists, pcs, ServerInv, LocksHeld, FramesWhole, NoTornFrame,
         ShutDownInOrder, Tables, Once, OpenAreListed, Listed
<1>. QED BY <1>1, <1>2

-----------------------------------------------------------------------------
\* The locks, the frames, the shutdown and the tables are as stated in every
\* interleaving of the three threads and the clients.
THEOREM Invariance == Spec => []ServerInv
BY ServerInit, ServerStep, PTL DEF Spec

\* The server as a part of MCCast: the other parts leave it alone.
THEOREM ServerInvariance == CastSpec => []ServerInv
<1>1. CastInit => ServerInv
  BY ServerInit DEF CastInit
<1>2. ServerInv /\ [CastNext]_<<part, vars, clientVars, audioVars>> => ServerInv'
  BY ServerStep DEF CastNext
<1>. QED BY <1>1, <1>2, PTL DEF CastSpec

\* Every variable keeps its type; in particular neither table of clients is ever
\* written past its end.
THEOREM Types == Spec => []TypeOK
<1>1. ServerInv => TypeOK
  BY DEF ServerInv, LocksHeld, FramesWhole, Tables, OpenAreListed, Numbers, Flags, TypeOK
<1>. QED BY <1>1, Invariance, PTL

\* What the server thread encodes is one frame, whatever the emulation loop
\* writes meanwhile.
THEOREM WholeFrames == CastSpec => []NoTornFrame
<1>1. ServerInv => NoTornFrame
  BY DEF ServerInv, FramesWhole
<1>. QED BY <1>1, ServerInvariance, PTL

\* cast_server_stop destroys the mutexes when no thread can hold or take them.
THEOREM MutexLifetime == CastSpec => []MutexesOutliveUse
<1>1. ServerInv => MutexesOutliveUse
  BY DEF ServerInv, LocksHeld, ShutDownInOrder, MutexesOutliveUse
<1>. QED BY <1>1, ServerInvariance, PTL

\* Every open socket is in one place, once: none leaks, in particular none is
\* open when the thread has exited.
THEOREM Sockets == CastSpec => []SocketsAccounted
<1>1. ServerInv => SocketsAccounted
  <2>. SUFFICES ASSUME Tables, OpenAreListed PROVE SocketsAccounted
    BY DEF ServerInv
  <2>. USE DEF Tables, OpenAreListed
  <2>. DEFINE open == {c \in Conns : conns[c] = "open"}
              routed == {conn} \ {"none"}
  <2>1. Range(clients) \subseteq Conns /\ Range(audioClients) \subseteq Conns
    BY RangeOfSeq
  <2>2. open = Listed \cup routed
    BY <2>1, CastServerAssumption DEF Listed
  <2>3. /\ IsFiniteSet(Range(clients)) /\ Cardinality(Range(clients)) = Len(clients)
        /\ IsFiniteSet(Range(audioClients)) /\ Cardinality(Range(audioClients)) = Len(audioClients)
        /\ Len(clients) \in Nat /\ Len(audioClients) \in Nat
    BY TableCardinality, LenProperties
  <2>4. IsFiniteSet(routed) /\ Cardinality(routed) = IF conn = "none" THEN 0 ELSE 1
    <3>1. CASE conn = "none"
      <4>1. routed = {}
        BY <3>1
      <4>. HIDE DEF routed
      <4>. QED BY <3>1, <4>1, FS_EmptySet
    <3>2. CASE conn # "none"
      <4>1. routed = {conn}
        BY <3>2
      <4>. HIDE DEF routed
      <4>. QED BY <3>2, <4>1, FS_Singleton
    <3>. QED BY <3>1, <3>2
  <2>5. IsFiniteSet(Listed) /\ Cardinality(Listed) = Len(clients) + Len(audioClients)
    <3>1. /\ IsFiniteSet(Listed)
          /\ Cardinality(Listed) = Cardinality(Range(clients)) + Cardinality(Range(audioClients))
                                     - Cardinality(Range(clients) \cap Range(audioClients))
      BY <2>3, FS_Union DEF Listed
    <3>2. Cardinality(Range(clients) \cap Range(audioClients)) = 0
      <4>1. Range(clients) \cap Range(audioClients) = {}
        OBVIOUS
      <4>. QED BY <4>1, FS_EmptySet, Zenon
    <3>. QED BY <2>3, <3>1, <3>2
  <2>6. Listed \cap routed = {}
    OBVIOUS
  <2>. HIDE DEF open, routed
  <2>7. Cardinality(open) = Cardinality(Listed) + Cardinality(routed)
    <3>1. Cardinality(Listed \cup routed) = Cardinality(Listed) + Cardinality(routed) - Cardinality({})
      BY <2>4, <2>5, <2>6, FS_Union
    <3>. QED BY <3>1, <2>2, <2>3, <2>4, <2>5, FS_EmptySet
  <2>. QED BY <2>2, <2>3, <2>4, <2>5, <2>7 DEF SocketsAccounted, open, routed
<1>. QED BY <1>1, ServerInvariance, PTL

-----------------------------------------------------------------------------
(* The client *)

\* The places of the main thread while it holds the connection, ...
Connected == {"connect", "drain", "launch", "status", "join", "url", "start", "running", "joining", "stop", "writing"}
\* ... and those of the heartbeat thread while it has messages to send, and while it lives.
Beating == {"send", "enter", "write"}
Alive == {"test", "sleep", "recheck", "lock", "unlock"} \cup Beating

\* The heartbeat lives only between its creation and the end of the join, which
\* is why the main thread may write and free the connection without the mutex.
ThreadsApart ==
  /\ hbPc \in Alive \cup {"none", "dead"}
  /\ hbPc \in Alive => clientPc \in {"running", "joining"}
  /\ clientPc = "running" /\ ~hbRunning => hbPc = "none"
ConnectionHeld == clientPc \in Connected => ssl /\ hbMutex # "destroyed"

\* The conjuncts of TypeOK in two groups, the second with what keeps the counters
\* in their ranges.
Values ==
  /\ state \in {"IDLE", "CONNECTED", "LAUNCHING", "RUNNING", "ERROR"}
  /\ ssl \in BOOLEAN /\ transport \in BOOLEAN /\ hbRunning \in BOOLEAN
  /\ locked \in BOOLEAN /\ cancelled \in BOOLEAN /\ pinged \in BOOLEAN
  /\ hbMutex \in {"none", "free", "hb", "destroyed"}
Counters ==
  /\ tries \in 0..Attempts /\ sends \in 0..4 /\ cycle \in 0..11
  /\ clientPc = "drain" => tries \in {0, 1}
  /\ clientPc = "url" => tries < Retries
  /\ hbPc \in Beating => sends >= 1

ClientInv == Values /\ ThreadsApart /\ ConnectionHeld /\ Counters

LEMMA ConstantsFit ==
  Attempts \in Nat /\ Retries \in Nat /\ Retries >= 1 /\ Retries <= Attempts
BY PartsAssumption DEF Client!CastClientAssumption

-----------------------------------------------------------------------------
LEMMA ClientInit == Client!Init => ClientInv
<1>1. Client!Init => Values /\ ThreadsApart /\ ConnectionHeld
  BY DEF Client!Init, Values, ThreadsApart, ConnectionHeld, Connected, Alive, Beating
<1>2. Client!Init => Counters
  BY ConstantsFit DEF Client!Init, Counters, Beating
<1>. QED BY <1>1, <1>2 DEF ClientInv

\* Where the threads are, and the connection with them.
LEMMA ThreadsStep ==
  ASSUME ThreadsApart, ConnectionHeld, Client!Next
  PROVE  ThreadsApart' /\ ConnectionHeld'
<1>. USE DEF ThreadsApart, ConnectionHeld, Connected, Alive, Beating
<1>1. CASE Client!Connect  \* there is no heartbeat before the last step of connecting
  <2>. USE DEF Client!Connecting, Client!hbVars, Client!Fail
  <2>1. CASE Client!TlsConnect
    BY <2>1 DEF Client!TlsConnect
  <2>2. CASE Client!Hail \/ Client!Drain \/ Client!Launch
    BY <2>2 DEF Client!Hail, Client!Drain, Client!Launch
  <2>3. CASE Client!Await \/ Client!AwaitTimeout
    BY <2>3 DEF Client!Await, Client!AwaitTimeout
  <2>4. CASE Client!JoinTransport
    BY <2>4 DEF Client!JoinTransport
  <2>5. CASE Client!SendUrl
    BY <2>5 DEF Client!SendUrl
  <2>6. CASE Client!StartHeartbeat
    BY <2>6 DEF Client!StartHeartbeat
  <2>. QED BY <1>1, <2>1, <2>2, <2>3, <2>4, <2>5, <2>6 DEF Client!Connect
<1>2. CASE Client!Disconnect
  BY <1>2 DEF Client!Disconnect, Client!MainMoves, Client!hbVars
<1>3. CASE Client!CleanUp  \* the join ends only when the heartbeat is dead
  BY <1>3 DEF Client!CleanUp, Client!JoinHeartbeat, Client!BeginStop, Client!Teardown,
              Client!MainMoves, Client!hbVars
<1>4. CASE Client!Heartbeat  \* the main thread stays where it is
  <2>. USE DEF Client!HbMoves, Client!mainVars
  <2>1. CASE Client!Test \/ Client!Sleep \/ Client!Recheck
    BY <2>1 DEF Client!Test, Client!Sleep, Client!Recheck
  <2>2. CASE Client!Lock \/ Client!ReadFlag
    BY <2>2 DEF Client!Lock, Client!ReadFlag
  <2>3. CASE Client!Enter
    BY <2>3 DEF Client!Enter
  <2>4. CASE Client!Write \/ Client!WriteThrough
    BY <2>4 DEF Client!Write, Client!WriteThrough
  <2>5. CASE Client!Unlock
    BY <2>5 DEF Client!Unlock
  <2>. QED BY <1>4, <2>1, <2>2, <2>3, <2>4, <2>5 DEF Client!Heartbeat
<1>. QED BY <1>1, <1>2, <1>3, <1>4 DEF Client!Next

LEMMA ValuesStep == Values /\ Client!Next => Values'
<1>. SUFFICES ASSUME Values, Client!Next PROVE Values'
  OBVIOUS
<1>. USE DEF Values
<1>1. CASE Client!Connect
  BY <1>1 DEF Client!Connect, Client!TlsConnect, Client!Hail, Client!Drain, Client!Launch, Client!Await,
       Client!AwaitTimeout, Client!JoinTransport, Client!SendUrl, Client!StartHeartbeat,
       Client!Connecting, Client!hbVars, Client!Fail
<1>2. CASE Client!Disconnect \/ Client!CleanUp
  BY <1>2 DEF Client!Disconnect, Client!CleanUp, Client!JoinHeartbeat, Client!BeginStop,
       Client!Teardown, Client!MainMoves, Client!hbVars
<1>3. CASE Client!Heartbeat
  BY <1>3 DEF Client!Heartbeat, Client!Test, Client!Sleep, Client!Recheck, Client!Lock,
       Client!ReadFlag, Client!Enter, Client!Write, Client!WriteThrough, Client!Unlock,
       Client!HbMoves, Client!mainVars
<1>. QED BY <1>1, <1>2, <1>3 DEF Client!Next

LEMMA CountersStep == Counters /\ ThreadsApart /\ Client!Next => Counters'
<1>. SUFFICES ASSUME Counters, ThreadsApart, Client!Next PROVE Counters'
  OBVIOUS
<1>. USE ConstantsFit DEF Counters, Beating
<1>1. CASE Client!Connect
  <2>. USE DEF Client!Connecting, Client!hbVars, Client!Fail
  <2>1. CASE Client!TlsConnect \/ Client!Hail \/ Client!Drain \/ Client!Launch
    BY <2>1 DEF Client!TlsConnect, Client!Hail, Client!Drain, Client!Launch
  <2>2. CASE Client!Await \/ Client!AwaitTimeout
    BY <2>2 DEF Client!Await, Client!AwaitTimeout
  <2>3. CASE Client!JoinTransport \/ Client!SendUrl
    BY <2>3 DEF Client!JoinTransport, Client!SendUrl
  <2>4. CASE Client!StartHeartbeat
    BY <2>4 DEF Client!StartHeartbeat
  <2>. QED BY <1>1, <2>1, <2>2, <2>3, <2>4 DEF Client!Connect
<1>2. CASE Client!Disconnect \/ Client!CleanUp
  BY <1>2 DEF Client!Disconnect, Client!CleanUp, Client!JoinHeartbeat, Client!BeginStop,
       Client!Teardown, Client!MainMoves, Client!hbVars
<1>3. CASE Client!Heartbeat
  <2>. USE DEF Client!HbMoves, Client!mainVars
  <2>1. CASE Client!Lock  \* a cycle has two messages at least and four at most
    BY <2>1 DEF Client!Lock, Client!SendsIn
  <2>2. CASE Client!Write \/ Client!WriteThrough
    BY <2>2 DEF Client!Write, Client!WriteThrough
  <2>3. CASE Client!Test \/ Client!Sleep \/ Client!Recheck \/ Client!ReadFlag \/ Client!Enter \/ Client!Unlock
    BY <2>3 DEF Client!Test, Client!Sleep, Client!Recheck, Client!ReadFlag, Client!Enter,
         Client!Unlock
  <2>. QED BY <1>3, <2>1, <2>2, <2>3 DEF Client!Heartbeat
<1>. QED BY <1>1, <1>2, <1>3 DEF Client!Next

LEMMA ClientStep == ClientInv /\ [Client!Next]_(Client!vars) => ClientInv'
<1>1. ClientInv /\ Client!Next => ClientInv'
  BY ThreadsStep, ValuesStep, CountersStep DEF ClientInv
<1>2. ASSUME ClientInv, UNCHANGED Client!vars PROVE ClientInv'
  <2>. USE <1>2 DEF ClientInv, Client!vars, Client!mainVars, Client!hbVars
  <2>1. Values' /\ ThreadsApart' /\ ConnectionHeld'
    BY DEF Values, ThreadsApart, ConnectionHeld
  <2>2. Counters'
    BY DEF Counters
  <2>. QED BY <2>1, <2>2
<1>. QED BY <1>1, <1>2

-----------------------------------------------------------------------------
\* The threads of the client are where the main thread's join puts them, and the
\* connection is there while either may use it.
THEOREM ClientInvariance == Client!Spec => []ClientInv
BY ClientInit, ClientStep, PTL DEF Client!Spec

\* Every variable of the client keeps its type: no loop counts past its limit.
THEOREM ClientTypes == Client!Spec => []Client!TypeOK
<1>1. ClientInv => Client!TypeOK
  BY DEF ClientInv, Values, Counters, Client!TypeOK
<1>. QED BY <1>1, ClientInvariance, PTL

\* The client as a part of MCCast: the other parts leave it alone.
THEOREM CastInvariance == CastSpec => []ClientInv
<1>1. CastInit => ClientInv
  BY ClientInit DEF CastInit
<1>2. ClientInv /\ [CastNext]_<<part, vars, clientVars, audioVars>> => ClientInv'
  <2>1. clientVars' = clientVars => UNCHANGED Client!vars
    BY DEF clientVars, Client!vars, Client!mainVars, Client!hbVars
  <2>. QED BY <2>1, ClientStep DEF CastNext
<1>. QED BY <1>1, <1>2, PTL DEF CastSpec

\* Two threads never write to the TLS connection at the same time, though
\* castv2_send takes the mutex only while heartbeat_running is set.
THEOREM Writers == CastSpec => []OneWriter
<1>1. ClientInv => OneWriter
  BY DEF ClientInv, ThreadsApart, Alive, Beating, OneWriter, Client!OneWriter
<1>. QED BY <1>1, CastInvariance, PTL

\* No thread uses the connection, or the mutex, after castv2_disconnect freed them.
THEOREM Outlives == CastSpec => []ConnectionOutlivesUse
<1>1. ClientInv => ConnectionOutlivesUse
  BY DEF ClientInv, ThreadsApart, ConnectionHeld, Alive, Beating, Connected,
         ConnectionOutlivesUse, Client!ConnectionOutlivesUse
<1>. QED BY <1>1, CastInvariance, PTL

-----------------------------------------------------------------------------
(* The ring: its steps in MCCast are those AudioRingProofs speaks of. *)

LEMMA RingAssumption == Proven!AudioRingAssumption
BY PartsAssumption DEF Audio!AudioRingAssumption, Proven!AudioRingAssumption

LEMMA RingInit == Audio!Init => Proven!IInv
<1>1. Audio!Init => Proven!Init
  BY DEF Audio!Init, Proven!Init, Audio!Positions, Proven!Positions
<1>. QED BY <1>1, RingAssumption, Proven!InitInv

LEMMA RingNext == Audio!Next => Proven!Next
<1>1. Audio!AudioLock => Proven!AudioLock
  BY DEF Audio!AudioLock, Proven!AudioLock, Audio!reader, Proven!reader
<1>2. Audio!WriteSample => Proven!WriteSample
  BY DEF Audio!WriteSample, Proven!WriteSample, Audio!reader, Proven!reader
<1>3. ASSUME NEW c \in Listeners, Audio!AddClient(c) PROVE Proven!AddClient(c)
  BY <1>3 DEF Audio!AddClient, Proven!AddClient, Audio!StartAt, Proven!StartAt, Audio!Range,
              Proven!Range, Audio!writer, Proven!writer
<1>4. Audio!Snapshot => Proven!Snapshot
  BY DEF Audio!Snapshot, Proven!Snapshot, Audio!writer, Proven!writer
<1>5. Audio!PassNobody => Proven!PassNobody
  BY DEF Audio!PassNobody, Proven!PassNobody, Audio!writer, Proven!writer, Audio!reader,
         Proven!reader
<1>6. Audio!SendNothing => Proven!SendNothing
  BY DEF Audio!SendNothing, Proven!SendNothing, Audio!writer, Proven!writer
<1>7. Audio!SendFirst => Proven!SendFirst
  BY DEF Audio!SendFirst, Proven!SendFirst, Audio!Wrapped, Proven!Wrapped, Audio!FirstLen,
         Proven!FirstLen, Audio!Taken, Proven!Taken, Audio!Deliver, Proven!Deliver,
         Audio!Advance, Proven!Advance, Audio!Keep, Proven!Keep, Audio!writer, Proven!writer
<1>8. Audio!SendSecond => Proven!SendSecond
  BY DEF Audio!SendSecond, Proven!SendSecond, Audio!Taken, Proven!Taken, Audio!Deliver,
         Proven!Deliver, Audio!Advance, Proven!Advance, Audio!Keep, Proven!Keep,
         Audio!writer, Proven!writer
<1>9. Audio!SendFails => Proven!SendFails
  BY DEF Audio!SendFails, Proven!SendFails, Audio!WithoutPos, Proven!WithoutPos,
         Audio!RemoveAt, Proven!RemoveAt, Audio!writer, Proven!writer
<1>10. Audio!SendDone => Proven!SendDone
  BY DEF Audio!SendDone, Proven!SendDone, Audio!writer, Proven!writer
<1>. QED BY <1>1, <1>2, <1>3, <1>4, <1>5, <1>6, <1>7, <1>8, <1>9, <1>10 DEF Audio!Next, Proven!Next

\* No audio client of the server is sent a sample twice or out of order, and one whose
\* socket takes all it is given misses none, for every size of ring and callback.
THEOREM Stream == CastSpec => []StreamWhole
<1>1. CastInit => Proven!IInv
  BY RingInit DEF CastInit
<1>2. Proven!IInv /\ [CastNext]_<<part, vars, clientVars, audioVars>> => Proven!IInv'
  <2>1. audioVars' = audioVars => UNCHANGED Proven!vars
    BY DEF audioVars, Proven!vars, Proven!writer, Proven!reader
  <2>2. CastNext => [Audio!Next]_audioVars
    BY DEF CastNext
  <2>3. [CastNext]_<<part, vars, clientVars, audioVars>> => [Proven!Next]_(Proven!vars)
    BY <2>1, <2>2, RingNext
  <2>. QED BY <2>3, RingAssumption, Proven!StepInv
<1>3. Proven!IInv => StreamWhole
  BY DEF Proven!IInv, Proven!StreamWhole, StreamWhole, Audio!StreamWhole
<1>. QED BY <1>1, <1>2, <1>3, PTL DEF CastSpec
=============================================================================
