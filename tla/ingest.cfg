SPECIFICATION Spec
CONSTANTS
    acme = acme
    tsmc = tsmc
    taiwan = taiwan
    birch = birch
    subsidiary = subsidiary
    d1 = d1
    d2 = d2
    filer = filer
    nAcme = nAcme
    nTsmc = nTsmc
    nTaiwan = nTaiwan
    nBirch = nBirch
    None = None
    Entity = {acme, tsmc, taiwan, birch}
    Rel = {subsidiary}
    Functional = {subsidiary}
    Doc = {d1, d2}
    Cik = {filer}
    Norm = {nAcme, nTsmc, nTaiwan, nBirch}
    Mentions <- Texts
    CikOf <- Resolved
    NormOf <- Normal
    Extracted <- Printed
    Rank <- ByLength
    Stated <- Facts
    Doubtful <- LowConfidence
    w1 = w1
    w2 = w2
    w3 = w3
    Worker = {w1, w2, w3}
    Uploader = {w1, w2}
    MaxIngests = 3
INVARIANTS
    ReportedFactsStand
    CorroborationCounts
    OneNodePerCik
    MentionsQueued
    SecondObjectFlagged
SYMMETRY Symmetry
CHECK_DEADLOCK FALSE
