SPECIFICATION Spec
CONSTANTS
    acme = acme
    acmeInc = acmeInc
    birch = birch
    Name = {acme, acmeInc, birch}
    FirmId = {acme, acmeInc, birch}
    slugify <- SharedSlug
    Fund = {growth}
    Conn = {c1, c2}
    Upserts <- PipelineUpserts
    MaxClock = 1
INVARIANTS
    TypeOK
    AtMostOneActive
PROPERTIES
    UpsertKeepsSelection
    SelectionHasCause
