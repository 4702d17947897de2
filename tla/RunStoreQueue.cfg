\* Two Runs in one session or in two, one execution slot that crashes and
\* restarts at will: every accepted Run ends.
SPECIFICATION FairSpec
CONSTANTS
  Runs = {r1, r2}
  Sessions = {s1, s2}
  Workers = {w1}
  NoRun = NoRun
  NoWorker = NoWorker
  Lease = 1
  Budget = 2
  Grace = 0
  WaitLimit = 1
  BusyDelay = 1
  EventLimit = 3
  Reserve = 3
  QueueLimit = 2
INVARIANTS
  OneActiveRun
PROPERTIES
  EveryRunEnds
