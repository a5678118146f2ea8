CONSTANTS
  Attempts = 4
  Retries = 3
SPECIFICATION Spec
PROPERTY HeartbeatBeats
CHECK_DEADLOCK FALSE
