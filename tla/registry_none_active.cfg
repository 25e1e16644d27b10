SPECIFICATION Spec
CONSTANTS
    acme = acme
    acmeInc = acmeInc
    birch = birch
    Name = {acme, acmeInc, birch}
    FirmId = {acme, acmeInc, birch}
    slugify <- DistinctSlugs
    Fund = {growth}
    Conn = {c1, c2}
    Upserts <- PipelineUpserts
    MaxClock = 1
INVARIANT
    SomeActive
