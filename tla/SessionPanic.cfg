SPECIFICATION Spec
CONSTANTS
  l1 = l1
  l2 = l2
  Lines = {l1, l2}
  System = TRUE
  Allowance = 1
  Buckets = 1
  Tokens <- MCTokens
  Entries <- MCSomeEntries
  Environments <- MCEnvironments
  MaxFile = 1
  MaxLines = 1
INVARIANT
  FailoverResolved
