CONSTANTS
    None = None
    cable = cable
    fan = fan
    ups = ups
    rack = rack
    o1 = o1
    o2 = o2
    p1 = p1
    p2 = p2
    Items = {cable, fan}
    Assets = {ups, rack}
    Drafts = {1, 2}
    Orders = {o1}
    Prices = {p1}
    Roles = {"APPLICANT", "BUILDING_MANAGER", "PURCHASER", "WAREHOUSE_MANAGER"}
    MaxCalls = 2
SPECIFICATION AssistantSpec
SYMMETRY ItemSymmetry
INVARIANTS OneRequestPerTurn
PROPERTIES OrderedAfterProposal CandidatesSurvive
