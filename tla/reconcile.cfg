SPECIFICATION ReconcileSpec
CONSTANTS
    acme = acme
    corp = corp
    tsmc = tsmc
    supplies = supplies
    d1 = d1
    d2 = d2
    filer = filer
    nAcme = nAcme
    nCorp = nCorp
    nTsmc = nTsmc
    None = None
    MENTIONS = MENTIONS
    Entity = {acme, corp, tsmc}
    Rel = {supplies}
    Functional = {}
    Doc = {d1, d2}
    Cik = {filer}
    Norm = {nAcme, nCorp, nTsmc}
    Mentions <- Texts
    CikOf <- Resolved
    NormOf <- Normal
    Extracted <- Printed
    Rank <- ByLength
    Stated <- Facts
    Doubtful = {}
    Worker = {w1}
    Uploader = {w1}
    MaxIngests = 2
    Analyst = {a1, a2}
    Candidates <- Titles
    MaxDecisions = 2
INVARIANTS
    MergedMeansGone
PROPERTIES
    NothingLostInMerge
SYMMETRY Symmetry
CHECK_DEADLOCK FALSE
