SPECIFICATION FairSpec
CONSTANTS
  Call = {c1, c2}
  Origin = {o1}
  NoOrigin = NoOrigin
  FirstStates = {"UNKNOWN", "DIALING", "ALERTING", "INCOMING", "ACTIVE", "HELD", "DISCONNECTED"}
  NextStates = {"UNKNOWN", "DIALING", "ALERTING", "INCOMING", "ACTIVE", "HELD", "DISCONNECTED"}
INVARIANTS TableAccounts FrontEndsAgree MissedReported
PROPERTY DroppedDisappears
CHECK_DEADLOCK FALSE
