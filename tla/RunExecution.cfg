\* One Run and two processes that take it over from one another: a lease shorter
\* than the budget, and a journal long enough for a question, its answer, two
\* takeovers and some events.  Beside the store: two processes that share a
\* container daemon, and a slot whose configuration names models that retire.
SPECIFICATION MCSpec
CONSTANTS
  Runs = {r1}
  Sessions = {s1}
  Workers = {w1, w2}
  NoRun = NoRun
  NoWorker = NoWorker
  Lease = 2
  Budget = 3
  Grace = 0
  WaitLimit = 1
  BusyDelay = 1
  EventLimit = 8
  Reserve = 3
  QueueLimit = 1

  p1 = p1
  p2 = p2

  Processes <- MCProcesses
  MaxCalls = 2
  MaxFaults = 2

  Slots = {"deepseek"}
  Profiles = {"deepseek", "other"}
  Contents <- MCContents
  RetiredModel = "chat"
  Replacement = "flash"
  MaxConfigurations = 4
CHECK_DEADLOCK FALSE
INVARIANTS
  RoomToEnd
  SupplementsKept
  LiveContainerStays
  ReportsUnderstood
  CallsIdentifyModels
PROPERTIES
  ImplementsLifecycle
  ImplementsFence
  ContainersGo
