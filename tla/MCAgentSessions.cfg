CONSTANTS
  None = None
  Users = {ann}
  Actions = {"CHAT"}
  Data = {"new", "d1"}
  EmptyData = "new"
  Requests = {r1}
  ExternalIds = {x1}
  Calls = {c1, c2}
  MaxConversations = 1
SPECIFICATION SessionSpec
SYMMETRY CallSymmetry
INVARIANTS CanBeRestored
PROPERTIES ClosedIsClosed
CHECK_DEADLOCK FALSE
