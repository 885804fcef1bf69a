CONSTANTS
  ann = ann
  bob = bob
  cui = cui
  dan = dan
  pump = pump
  None = None
  Employees = {ann, bob, cui, dan}
  RolesOf <- OneEachRoles
  BuildingStaff = {ann, bob}
  Assignable = {ann, bob, cui, dan}
  FeishuUsers = {}
  Items = {i1, i2}
  Names = {pump}
  BlankNames = {}
  Quantities = {1}
  Proposals <- MCProposals
  MaxVersion = 9
  Slots = {s1}
  Prices = {"null"}
  MaxButtons = 1
SPECIFICATION RejectedSpec
INVARIANTS ResubmittedRequestCanBeApproved
CHECK_DEADLOCK FALSE
