CONSTANTS
  ann = ann
  bob = bob
  cui = cui
  dan = dan
  pump = pump
  None = None
  Employees <- OneEach
  RolesOf <- OneEachRoles
  BuildingStaff = {ann, bob}
  Assignable = {ann, bob, cui, dan}
  FeishuUsers = {ann, bob, cui}
  Items = {i1}
  Names = {pump}
  BlankNames = {}
  Quantities = {1}
  Proposals <- MCProposals
  MaxVersion = 7
  Sessions = {s1, s2}
SPECIFICATION TxSpec
SYMMETRY SessionSymmetry
INVARIANTS VersionGuardsView
PROPERTIES SerialisedWorkflow ApprovedScopeFrozen
