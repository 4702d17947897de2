CONSTANTS
  founder = founder
  ann = ann
  bob = bob
  v1 = v1
  v2 = v2
  r1 = r1
  r2 = r2
  None = None
  Idle = Idle

  Users <- MCUsers
  Founder = founder
  Author = ann
  Versions <- MCVersions
  Requests <- MCRequests
SPECIFICATION Spec
SYMMETRY Symmetry
INVARIANTS
  EntitledAtCommit
  ReplacesWhatWasSeen
  GrantsOfMembers
CHECK_DEADLOCK FALSE
