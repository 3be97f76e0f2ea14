CONSTANTS
  a1 = a1
  a2 = a2
  k1 = k1
  Account = {a1, a2}
  Key = {k1, k2}
  Request = {"number", "address"}
  Tel = {"number"}
  Stored <- MCStored
  Autoload <- MCAutoload
  MaxStarts = 2
  MaxEdits = 2
  MaxCommands = 1
  Handles = {h1, h2}
  Nets = {n1, n2}
  MaxSent = 2
  MaxNested = 2
  None = None
SPECIFICATION MCSpec
SYMMETRY MCSymmetry
INVARIANTS
  ListedIsStored
  PasswordKept
  DialledInTime
  StateTold
  BusyIsACall
  SwitchTellsState
  OnlineIsRegistered
  BoundToKnownAddress
  StateSettles
CHECK_DEADLOCK FALSE
