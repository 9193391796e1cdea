SPECIFICATION Spec
CONSTANTS
  HeartbeatInterval = 2
  ReconnectWindow = 1
  Wrap = 8
  FirstSeqs = {0, 1}
  MaxTime = 4
  MaxSends = 4
  MaxFlight = 3
INVARIANTS
  SequenceAgrees
