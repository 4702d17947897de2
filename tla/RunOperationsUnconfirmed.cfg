\* One process and no takeover: the journal refuses the receipt of a side effect
\* that was executed, and the Run is answered nevertheless.
SPECIFICATION OperationsSpec
CONSTANTS
  Slots = {s1}
  ReadResults = {"hit"}
  WriteResults = {"done"}
  MaxTakes = 1
  MaxModel = 3
  MaxReads = 3
  MaxOperations = 4
  MaxRoom = 4
  ArtifactSize = 2
CHECK_DEADLOCK FALSE
INVARIANT UnconfirmedIsMarked
