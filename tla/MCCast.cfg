CONSTANTS
  Conns = {c1, c2, c3}
  Lagging = {c3}
  MaxClients = 2
  MaxAudioClients = 1
  MaxFrames = 2
  Attempts = 4
  Retries = 3
  Listeners = {a, b}
  Slow = {a}
  Ring = 5
  Chunk = 2
  MaxPushes = 1
  MaxSamples = 15
SPECIFICATION CastSpec
INVARIANTS
  NoTornFrame
  SocketsAccounted
  MutexesOutliveUse
  OneWriter
  ConnectionOutlivesUse
  StreamWhole
PROPERTIES
  ConnectReturns
  
  FrameReaches
CHECK_DEADLOCK FALSE
