CONSTANTS
  ann = ann
  bob = bob
  cui = cui
  dan = dan
  eve = eve
  pump = pump
  blank = blank
  None = None
  Employees <- Shared
  RolesOf <- SharedRoles
  BuildingStaff = {bob, eve}
  Assignable = {bob, cui, dan, eve}
  FeishuUsers = {bob, cui, dan}
  Items = {i1}
  Names = {pump}
  BlankNames = {}
  Quantities = {1, 2}
  Proposals <- MCProposals
  MaxVersion = 8
SPECIFICATION Spec
INVARIANTS TypeOK ReviewRoundsMatchStatus ReceiptsWithinPurchase HandlerFitsStatus LogIsCustodyChain OutboxMatchesLog
PROPERTIES DecidedReviewsImmutable KeepsFlow
CHECK_DEADLOCK FALSE
