\* Two messages and one process, no failures: what the first leaves in memory is
\* recalled for the second while the user clears, disables, enables and deletes
\* in between.
SPECIFICATION Spec
CONSTANTS
  Messages = {c1, c2}
  Uris = {u1}
  Workers = {w1}
  NoOne = NoOne
  MaxGeneration = 2
  MaxAttempts = 2
  MaxFaults = 0
CHECK_DEADLOCK FALSE
INVARIANTS
  OnlyConsented
PROPERTIES
  AnswersCiteLiving
