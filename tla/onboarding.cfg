SPECIFICATION Spec
CONSTANTS
    demo = demo
    acme = acme
    s1 = s1
    s2 = s2
    growth = growth
    income = income
    Name = {demo, acme}
    FirmId = {demo, acme}
    slugify <- Slugs
    Fund = {growth, income}
    Issuer = {}
    Series = {s1, s2}
    SeriesOf <- Offered
    FundOf <- Filing
    IssuersOf <- Portfolio
    DemoFirm = demo
    DemoFunds = {growth}
    MaxJobs = 2
    Client = {c1}
    MaxEnrich = 1
    MaxCrashes = 1
INVARIANTS
    StreamContract
    MirrorBreaksOnlyByDelete
    DeletedStaysGone
    OnboardingRowHasWorker
CHECK_DEADLOCK FALSE
