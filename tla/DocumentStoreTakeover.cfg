\* One version and two processes, one fault: what is readable, what a purge leaves,
\* what a Run answers from, and that every accepted task ends.
SPECIFICATION Spec
CONSTANTS
  Docs = {v1}
  Workers = {w1, w2}
  NoDoc = NoDoc
  NumBatches = 2
  MaxAttempts = 2
  MaxReceipts = 2
  MaxClaims = 2
  MaxFaults = 1
CHECK_DEADLOCK FALSE
INVARIANTS
  ReadableWhole
  RetiredClean
  AnswerFromWhole
PROPERTIES
  EveryTaskEnds
