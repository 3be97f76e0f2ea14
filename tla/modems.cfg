SPECIFICATION Spec
CONSTANTS
  Path = {p1, p2}
  Outgoing = {p2}
  MaxOrigins = 2
  MaxObjs = 2
  MaxAsked = 1
  MaxTones = 2
  Unseen = {"HELD", "RINGING_OUT"}
  MaxDials = 2
  MaxMoves = 1
  Contact = {1, 2}
  Country = {"", "code"}
  Matching <- MCMatching
  MaxReports = 3
INVARIANTS
  NoCallMissed
  EndedIsDeleted
  TonesInOrder
  ButtonsFollow
  ContactsShown
  NameIsKnown
PROPERTY ImplementsOrigin
CHECK_DEADLOCK FALSE
