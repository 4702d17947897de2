\* Two versions of a series and one process that builds and retires them.  Beside
\* them a tool and a skill that two administrators edit while a Run is created and
\* calls them, and the receipts of a Run with two processes and three claims, so
\* that a call begun by one owner and taken over by another is taken over again
\* while the first request is still in flight.
SPECIFICATION MCSpec
CONSTANTS
  Docs = {v1, v2}
  Workers = {w1}
  NoDoc = NoDoc
  NumBatches = 1
  MaxAttempts = 1
  MaxReceipts = 3
  MaxClaims = 0
  MaxFaults = 0
  Slots = {s1, s2}
  ReadResults = {"hit", "miss"}
  WriteResults = {"done"}
  MaxTakes = 3
  MaxModel = 2
  MaxReads = 2
  MaxOperations = 4
  MaxRoom = 4
  ArtifactSize = 1
  tool = tool
  skill = skill
  t1 = t1
  t2 = t2
  a1 = a1
  a2 = a2
  Tools <- MCTools
  Skills <- MCSkills
  Policies <- MCPolicies
  Declarations <- MCDeclarations
  SqlDefault <- MCSqlDefault
  Admins <- MCAdmins
  MaxRevision = 4
SYMMETRY Symmetry
CHECK_DEADLOCK FALSE
INVARIANTS
  PointerAgrees
  ParentTruth
  SentAtMost
  AnswerKnowsEffects
  VersionsIdentify
  ApprovedAsShown
  AllowedAtCommit
PROPERTIES
  LeavesForGood
