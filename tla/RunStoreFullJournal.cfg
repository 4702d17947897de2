\* The smallest instance in which the last ordinary event of a journal is
\* written before its writer dies.
SPECIFICATION FairSpec
CONSTANTS
  Runs = {r1}
  Sessions = {s1}
  Workers = {w1}
  NoRun = NoRun
  NoWorker = NoWorker
  Lease = 1
  Budget = 2
  Grace = 0
  WaitLimit = 1
  BusyDelay = 1
  EventLimit = 3
  Reserve = 3
  QueueLimit = 2
PROPERTIES
  FullJournalEnds
