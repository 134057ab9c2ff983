SPECIFICATION FairSpec
CONSTANTS
  t1 = t1
  t2 = t2
  Turns = {t1, t2}
  TurnLength = 2
  Capacity = 2
  SampleEvery = 3
  FlushEvery = 3
INVARIANTS
  TypeOK
  RecordsAccounted
  DropsReported
  KillLosesLittle
  DrainDelivers
PROPERTY
  WireFlows
