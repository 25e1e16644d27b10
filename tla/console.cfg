\* Three overlapping calls to the entitlement console.
SPECIFICATION Spec
CONSTANTS
    r1 = r1
    r2 = r2
    r3 = r3
    Request = {r1, r2, r3}
    me = me
    ann = ann
    ssn = ssn
    name = name
    eu = eu
    All = All
    Me = me
    User <- MCUser
    Column <- MCColumn
    Region = {eu}
    Call <- MCCall
INVARIANTS
    AllowListExact
    EvidenceMatches
    SetupConverges
CHECK_DEADLOCK FALSE
