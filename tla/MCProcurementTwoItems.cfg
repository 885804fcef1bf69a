CONSTANTS
  ann = ann
  bob = bob
  cui = cui
  dan = dan
  eve = eve
  pump = pump
  blank = blank
  None = None
  Employees <- OneEach
  RolesOf <- OneEachRoles
  BuildingStaff = {ann, bob}
  Assignable = {ann, bob, cui, dan}
  FeishuUsers = {ann, bob, cui}
  Items = {i1, i2}
  Names = {pump}
  BlankNames = {}
  Quantities = {1}
  Proposals <- NamedProposals
  MaxVersion = 11
SPECIFICATION Spec
SYMMETRY ItemSymmetry
INVARIANTS PurchasesMatchItems CompletionIsFulfilled
CHECK_DEADLOCK FALSE
