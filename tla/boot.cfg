\* Boots, crashes and mode changes around two lakehouse requests.
SPECIFICATION Spec
CONSTANTS
    r1 = r1
    r2 = r2
    c1 = c1
    new = new
    property_name = property_name
    property_id = property_id
    address = address
    area = area
    type = type
    harborview_tower = harborview_tower
    NoValue = NoValue
    Request = {r1, r2}
    SourceSystems <- MCSystems
    Bronze <- MCBronze
    SeedOrder <- MCSeedOrder
    Policy <- MCPolicy
    IdField = property_id
    NameField = property_name
    MasterKey = harborview_tower
    Completeness <- MCCompleteness
    Number <- MCNumber
    Statements = 2
    ChunksAt <- MCChunksAt
    NewChunk = {new}
    Attempts = 2
    MaxBoots = 2
    MaxCalls = 3
INVARIANTS
    SeedIsWhole
    LineageExplainsGold
    OneGoldenRecord
    ServesWholeSnapshot
PROPERTIES
    BootEnds
CHECK_DEADLOCK FALSE
