SPECIFICATION Spec
CONSTANTS
    demo = demo
    f = f
    Demo = demo
    Firm = {demo, f}
    Candidate = {f}
    MaxUses = 3
    MaxReads = 2
    MaxCalls = 2
    MaxPicks = 2
    MaxOpens = 2
    MaxWork = 3
CONSTRAINT WorkBound
VIEW View
INVARIANTS
    AppFollowsServer
    PanelKeepsToItsFirm
    ShowsOwnJob
CHECK_DEADLOCK FALSE
