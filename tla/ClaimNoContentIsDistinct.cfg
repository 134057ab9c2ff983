SPECIFICATION Spec
CONSTANTS
  t1 = t1
  t2 = t2
  stop = stop
  length = length
  u1 = u1
  u2 = u2
  a = a
  b = b
  None = None
  Text = {t1, t2}
  Reason = {stop, length}
  Usage = {u1, u2}
  Allowance = 1
  Buckets = 1
  KnowsFailover = FALSE
  Streams <- OneStream
  Payloads <- AllPayloads
  MaxFrames = 2
  MaxHeard = 2
  SingleThread = TRUE
INVARIANT
  NoContentIsDistinct
