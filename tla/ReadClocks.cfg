SPECIFICATION Spec
CONSTANTS
  Second = 2
  Backstop = 1
  Stall = 3
  Overall = 9
  Floor = 1
  Sustained = 2
  Allowance = 1
  Credits <- MCCredits
  Lag = 1
  Scale = 78125
INVARIANTS
  TypeOK
  StallBounded
  TurnBounded
  CommentsStarve
  StarvedIsSlow
