CONSTANTS
  bob = bob
  cui = cui
  dan = dan
  None = None
  Users = {bob, cui, dan}
  RolesOf <- OneEachRoles
  BuildingUsers = {bob}
  Candidates = {bob, cui, dan}
  Items = {i1}
  Quantities = {1, 2}
  CurrentActions = {"CHAT"}
  ExternalIds = {"x"}
  MaxVersion = 10
  MaxConversations = 1
SPECIFICATION FakeSpec
INVARIANTS AllowedStepsAreAccepted
PROPERTIES KeepsFlow
CHECK_DEADLOCK FALSE
