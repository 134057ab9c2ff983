SPECIFICATION Spec
CONSTANTS
  t1 = t1
  t2 = t2
  stop = stop
  length = length
  u1 = u1
  Text <- MCText
  Reason <- MCReason
  Usage <- MCUsage
  None = None
  MaxEvents = 5
INVARIANTS
  TypeOK
  ContentIsTestimony
  VerdictFollowsHistory
  OddityKeepsEvidence
