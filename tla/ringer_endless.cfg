SPECIFICATION FairSpec
CONSTANTS
  ExplicitReason = "EXPLICIT"
  OtherReasons = {"NATURAL"}
  MayFail = FALSE
  InOrder = TRUE
  MaxRequests = 2
PROPERTY FallsSilent
