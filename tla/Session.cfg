SPECIFICATION FairSpec
CONSTANTS
  l1 = l1
  l2 = l2
  Lines = {l1, l2}
  System = TRUE
  Allowance = 1
  Buckets = 1
  Tokens <- MCTokens
  Entries <- MCEntries
  Environments <- MCEnvironments
  MaxFile = 3
  MaxLines = 3
INVARIANTS
  TypeOK
  HistoryIsCommitted
  NeverRefused
  WhatIsWritten
  OnlySoundStarts
PROPERTY
  LineResolved
