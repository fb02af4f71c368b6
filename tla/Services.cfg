\* Every part is small: two or three requests, workers or things, and a few of each step.
CONSTANTS
    p1 = p1
    p2 = p2
    h1 = h1
    h2 = h2
    h3 = h3
    x1 = x1
    x2 = x2
    y1 = y1
    y2 = y2
    key = key
    Events = {x1, x2}
    NoEvent = NoEvent
    Handlers = {h1, h2}
    NumSteps = 2
    CreateSteps = {2}
    MaxDeliver = 3
    MaxAttempts = 3
    MaxFaults = 2
    AuditEvents <- Pair
    Forged = Forged
    Workers <- Pair
    MaxTampers = 2
    Callers <- Pair
    Ids <- Pair
    Values <- Things
    Keys <- Key
    MaxWrites = 4
    None = None
    Clients <- OneWay
    Tabs <- Pair
    Sids <- Things
    Gone = Gone
    KeptHashes = 1
    MaxTokens = 3
    MaxAdmin = 2
    MaxTroubles = 1
    Guests <- Pair
    MaxCodes = 3
    OtpPerHour = 2
    MaxTries = 2
    Tenants <- Three
    NoTenant = NoTenant
    Admins <- Pair
    Users <- Things
    RoleKeys <- Key
    RoleIds <- Others
    Top = Top
    Below = Below
    TenantAdmin = TenantAdmin
    Nothing = Nothing
    MaxGrants = 2
    Exporters <- Pair
    ExportIds <- Things
    MAX_ATTEMPTS = 3
    MaxTaken = 4
    Senders <- Pair
    Groups <- Things
    MaxEdits = 1
    MaxSlot = 2
    Notifiers <- Pair
    Recipients <- Key
    Channels = {"whatsapp", "push"}
    MaxRuns = 2
    Hands <- Pair
    NumSamples = 2
    MaxGoingOn = 1
    Replicas <- Pair
    Syncers <- Pair
    NumRecords = 2
    Period = 2
    Backoff = 1
    StartsOn = TRUE
    MaxTime = 4
    MaxPublishes = 2
    MaxFailures = 1
    MaxStops = 1
SPECIFICATION ServicesSpec
INVARIANTS ServicesTypeOK RunsAreSafe ChainIsSound OneHolder EventsReplay CredentialsWorkOnce SignInKept AllOrNothing RolesStayWhole OutputsGoOutOnce 
PROPERTIES ResultsStay LockedKeepsItsValue RevokedIsOver
CHECK_DEADLOCK FALSE
