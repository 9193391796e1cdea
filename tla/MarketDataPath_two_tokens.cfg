\* Two tokens share the stream.
CONSTANTS
  Tokens = {t1, t2}
  Heartbeat = Heartbeat
  Kinds = {t1, t2}
  Watched = {t1}
  MaxSeq = 3
  MaxBatch = 3
  QueueSize = 4
SPECIFICATION PathSpec
INVARIANT NoFalseGap
