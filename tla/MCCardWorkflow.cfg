CONSTANTS
  ann = ann
  bob = bob
  cui = cui
  dan = dan
  pump = pump
  None = None
  Employees = {ann, bob, cui, dan}
  RolesOf <- OneEachRoles
  BuildingStaff = {ann, bob}
  Assignable = {ann, bob, cui, dan}
  FeishuUsers = {}
  Items = {i1}
  Names = {pump}
  BlankNames = {}
  Quantities = {1}
  Proposals <- MCProposals
  MaxVersion = 9
  Slots = {s1, s2}
  Prices = {"null"}
  MaxButtons = 1
SYMMETRY SlotSymmetry
SPECIFICATION MCSpec
INVARIANTS AnnouncedStepsHappened ConfirmationsAreHonoured AdvanceIsOffered
PROPERTIES ActsOnWhatWasShown
CHECK_DEADLOCK FALSE
