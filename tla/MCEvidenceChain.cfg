\* Two handlers, two messages of one vehicle, retries, a row of the earlier schema.
CONSTANTS
    m1 = m1 m2 = m2 s1 = s1 w1 = w1 w2 = w2
    urgent = urgent None = None
    Workers = {w1, w2}
    Messages = {m1, m2}
    Scopes = {s1}
    Bodies <- OneBody
    Captures = {1}
    Verdict <- VerdictOfOne
    AuthorizationTtl = 2
    EventMaxAge = 2
    CaptureMaxAge = 1
    FutureTolerance = 0
    ActuatorMode = "record-only"
    LegacyTables <- OldTables
    MaxClock = 3
    MaxRows = 2
    MaxTokens = 1
SPECIFICATION Spec
SYMMETRY WorkerSymmetry
INVARIANTS
    TypeOK
    OneTokenOneCommand
    SpentTokensWereFresh
    AcknowledgedIsStored
    FutureCaptureNeverStored
PROPERTIES
    SupersededIsFinal
    ImplementsAuthority
    RetryNeverRefreshes
