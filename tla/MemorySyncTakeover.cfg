\* One message and two processes, one of which crashes, stands still past its
\* lease or loses a reply, while the user enables, clears and deletes: what is
\* on the server, what a purge certifies, and that the queue drains.
SPECIFICATION FairSpec
CONSTANTS
  Messages = {c1}
  Workers = {w1, w2}
  MaxFaults = 1
  Uris = {u1}
  NoOne = NoOne
  MaxGeneration = 2
  MaxAttempts = 3
CHECK_DEADLOCK FALSE
INVARIANTS
  WrittenOnce
  PurgeTruth
PROPERTIES
  QueueDrains
