SPECIFICATION FairSpec
CONSTANTS
  Call = {c1, c2}
  Old = {}
  FirstStates = {"INCOMING"}
  MaxFailures = 1
  MaxRestarts = 1
INVARIANTS BusyCountsOpening RecordsFaithful
PROPERTY ShutdownProceeds
CHECK_DEADLOCK FALSE
