SPECIFICATION FairSpec
CONSTANTS
  Call = {c1, c2}
  Origin = {o1}
  NoOrigin = NoOrigin
  FirstStates = {"DIALING", "INCOMING", "ACTIVE"}
  NextStates = {"ACTIVE", "DISCONNECTED"}
  ExplicitReason = "NATURAL"
  OtherReasons = {"NATURAL"}
  MayFail = FALSE
  InOrder = FALSE
  MaxRequests = 20
INVARIANT SettledAsWanted
PROPERTIES
  DrivesRinger
  RingsWhenWanted
CHECK_DEADLOCK FALSE
