\* One question while firms are switched and deleted, a duplicate is merged and
\* funds, holdings and filings arrive.
SPECIFICATION Spec
CONSTANTS
    demo = demo
    other = other
    growth = growth
    focus = focus
    income = income
    a = a
    b = b
    c = c
    prospectus = prospectus
    filing = filing
    memo = memo
    None = None
    Firm = {demo, other}
    Fund = {growth, focus, income}
    Company = {a, b, c, demo, other}
    Chunk = {prospectus, filing, memo}
    ManagerOf <- MCManagerOf
    Covered = {}
    FirstGraph <- MCFirstGraph
    Merges <- MCMerges
    Mentions <- MCMentions
    Stamp <- MCStamp
    Sensitivity <- MCSensitivity
    Nearest <- MCNearest
    K = 2
    MaxRetries = 3
    Questions <- MCQuestions
    MaxEvents = 1
INVARIANTS
    AnswerIsTheFirms
    FilingsNeverDenied
    FilingsAreCited
PROPERTIES
    AlwaysAnswered
CHECK_DEADLOCK FALSE
