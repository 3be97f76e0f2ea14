SPECIFICATION Spec
CONSTANTS
  Call = {c1}
  Old = {}
  FirstStates = {"INCOMING"}
  MaxFailures = 0
  MaxRestarts = 0
INVARIANT DeletedIsErased
CHECK_DEADLOCK FALSE
