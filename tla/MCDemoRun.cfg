\* The demo run, while an edge client reports on the same or another vehicle.
CONSTANTS
    demo = demo e1 = e1 e2 = e2 s1 = s1 s2 = s2 None = None
    Workers = {demo, e1, e2}
    Messages <- MessageIds
    Scopes = {s1, s2}
    Bodies <- BodyNames
    Captures <- Clock
    Verdict <- Verdicts
    AuthorizationTtl = 24
    EventMaxAge = 60
    CaptureMaxAge = 60
    FutureTolerance = 6
    ActuatorMode = "record-only"
    LegacyTables <- EmptyTable
    MaxClock = 7
    MaxRows = 4
    MaxTokens = 1
    Script <- Rainstorm
    MinimumCount = 1
    EventsLimit = 3
    DemoScope = s1
    DemoThread = demo
    RequestTimeout = 1
    TimelineTolerance = 1
    MinWall = 5
    MaxWall = 7
    Fps = 2
    EdgeReadings <- Samples
SPECIFICATION DemoSpec
CONSTRAINT RunGoesOn
SYMMETRY EdgeSymmetry
\* Clients and clock come to an end.
CHECK_DEADLOCK FALSE
INVARIANTS
    DemoTypeOK
    AcceptedReportsAreTrue
    PassedRunsAreAccepted
    FilmTellsTheRun
    SendersAreHeardInOrder
