SPECIFICATION Spec
CONSTANTS
  ExplicitReason = "EXPLICIT"
  OtherReasons = {"NATURAL", "NOT_FOUND"}
  MayFail = TRUE
  InOrder = FALSE
  MaxRequests = 3
INVARIANTS SettledOnTarget SettledIsNotified RingingIsAudible
