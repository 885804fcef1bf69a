CONSTANTS
    None = None
    mia = mia
    adam = adam
    r1 = r1
    r2 = r2
    r3 = r3
    r4 = r4
    acme = acme
    bolt = bolt
    coil = coil
    dyna = dyna
    c1 = c1
    c2 = c2
    Requests = {r1, r2, r3, r4}
    Purchasing = {r1, r2, r4}
    Lines = {1, 2, 3, 4, 5}
    Names = {acme, bolt, coil, dyna}
    Calls = {c1, c2}
    MaxSuppliers = 4
    MaxBlacklists = 1
    MaxSaves = 2
    TargetEligible = 2
    PoolSize = 3
    MaxSupplierRecommendations = 2
    MaxProductRecommendations = 2
    Employees <- MCEmployees
    RolesOf <- MCRolesOf
    RequestOf <- MCRequestOf
    StaffOf <- MCStaffOf
    ProposedName <- MCProposedName
    Seed <- MCSeed
    ProductOf <- MCProductOf
    TermsOf <- MCTermsOf
SPECIFICATION MCSpec
SYMMETRY CallSymmetry
CHECK_DEADLOCK FALSE
INVARIANTS BlacklistsHaveGrounds RecommendsByMerit
PROPERTIES ReleasedOnce BlacklistExcludesOneSupplier
