\* One page, two stages, two keys: every order of owner, answers and the other page.
CONSTANTS
    k1 = k1 k2 = k2 None = None
    Keys = {k1, k2}
    LastStage = 1
    MaxSubmissions = 2
    MaxConnections = 2
    MaxSessions = 1
SPECIFICATION FairSpec
INVARIANTS
    TypeOK
    FreshEvidenceIsCurrent
PROPERTIES
    LateRequestsOnlyWithdraw
    BusyStatusEnds
