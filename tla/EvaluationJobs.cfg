\* One job and two processes with two crashes, stalls or failed calls: what the
\* report rests on, that no review is paid twice, and that job and Runs end.
SPECIFICATION FairSpec
CONSTANTS
  NumJobs = 1
  NumCases = 1
  Workers = {w1, w2}
  NoWorker = NoWorker
  QueueLimit = 1
  MaxAttempts = 2
  MaxReviews = 2
  MaxFaults = 2
INVARIANTS
  ReportTruth
PROPERTIES
  ReviewPaidOnce
  JobsAndRunsEnd
