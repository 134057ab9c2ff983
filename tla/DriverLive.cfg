SPECIFICATION FairSpec
CONSTANTS
  t1 = t1
  t2 = t2
  stop = stop
  length = length
  u1 = u1
  u2 = u2
  a = a
  b = b
  None = None
  Text = {t1, t2}
  Reason = {stop, length}
  Usage = {u1, u2}
  Allowance = 2
  Buckets = 1
  KnowsFailover = TRUE
  Streams <- TwoStreams
  Payloads <- NoPayloads
  MaxFrames = 1
  MaxHeard = 1
  SingleThread = TRUE
INVARIANTS
  PoolConserved
  OnlyFirstAdmissionDenied
PROPERTY
  TurnEnds
