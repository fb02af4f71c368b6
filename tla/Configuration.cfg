\* Two administrators on two replicas edit, install, publish, discard and roll back; two
\* services' calls read on two replicas; two requests ask for numbers.
CONSTANTS
    a1 = a1
    a2 = a2
    r1 = r1
    r2 = r2
    f = f
    g = g
    pack = pack
    branch = branch
    Company = company
    None = None
    Fields = {f, g}
    Types = {"text", "longtext"}
    Compatible <- Widened
    Labels = {"packs", "own"}
    Owner <- OwnedBy
    Packs = {pack}
    Manifests <- Editions
    Branches = {branch}
    Admins = {a1, a2}
    Replicas = {r1, r2}
    EditFields = {f}
    EditItems <- OwnItems
    MaxAttempts = 2
    MaxRevs = 4
    MaxVersions = 2
    Readers = {a1, a2}
    ConfigReplicas = {r1, r2}
    MaxLive = 2
    Requests = {a1, a2}
    OrgUnits = {branch}
    UnitCode <- Codes
    MaxChanges = 1
    CompanyLayer = company
    SeriesDefs <- Shapes
    NoSeries = NoSeries
    Dates <- Days
    StartMonths = {1, 4}
    MaxNumbers = 2
    RuleSets <- OneOrTwo
    Item = Item
    Blank = Blank
    Prices = {1, 2}
    Notes = {1, 2}
    FirstDays = {8776, 9128}
    LastDay = 9876
    FiscalStarts = {1, 4, 12}
    Holidays = {8824, 8825, 8826, 9236}
    WalkDays = 5
SPECIFICATION ConfigurationSpec
SYMMETRY ConfigSymmetry
INVARIANTS ConfigurationTypeOK PublishedStays PackChangesPublish RevIdentifiesDraft ReadsAreCurrent NumbersDiffer RulesAreObeyed PeriodsAreRight
CHECK_DEADLOCK FALSE
