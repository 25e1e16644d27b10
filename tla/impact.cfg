\* A change is followed through the graph while packs are filed and facts committed.
SPECIFICATION Spec
CONSTANTS
    growth = growth
    focus = focus
    a = a
    b = b
    c = c
    d = d
    old = old
    new = new
    memo = memo
    item7 = item7
    tariffs = tariffs
    p1 = p1
    p2 = p2
    Fund = {growth, focus}
    Company = {a, b, c, d}
    Doc = {old, new, memo}
    FirstGraph <- MCFirstGraph
    News <- MCNews
    Firms <- MCFirms
    Merges <- MCMerges
    Noded = {old, new}
    Pack = {p1, p2}
    MaxChanges = 1
    MaxPacks = 2
    V1 <- MCV1
    V2 <- MCV2
    DemoFunds = {growth}
    HopLimit = 2
    RuleHops = 2
    MaxImpacts = 1
INVARIANTS
    FiguresAgree
    AuditTrailAnchored
    ExplainReproduces
    ImpactIsTheReach
    FlagsFollowTheImpact
CONSTRAINT WorkBound
SYMMETRY PackSymmetry
CHECK_DEADLOCK FALSE
