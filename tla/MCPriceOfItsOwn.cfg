CONSTANTS
    None = None
    cable = cable
    fan = fan
    ups = ups
    rack = rack
    o1 = o1
    o2 = o2
    p1 = p1
    p2 = p2
    Items = {cable}
    Assets = {ups, rack}
    Drafts = {1}
    Orders = {o1, o2}
    Prices = {p1}
    Roles = {"APPLICANT", "PURCHASER"}
    MaxCalls = 2
SPECIFICATION AssistantSpec
SYMMETRY ItemSymmetry
INVARIANT PriceIsItsOwn
