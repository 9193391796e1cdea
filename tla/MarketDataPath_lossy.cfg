\* One token, heartbeats, Snap Quotes; the queue is smaller than a packet.
CONSTANTS
  Tokens = {t}
  Heartbeat = Heartbeat
  Kinds = {t, Heartbeat}
  Watched = {t}
  MaxSeq = 4
  MaxBatch = 3
  QueueSize = 2
SPECIFICATION FairPathSpec
INVARIANTS InOrder CompleteSinceGap GapIsMissing BookComplete
PROPERTY ReseedRecovers
