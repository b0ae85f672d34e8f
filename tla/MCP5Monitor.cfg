\* The head-unit service with failing bridge calls, connections and polls.
CONSTANTS
    t1 = t1 t2 = t2 None = None
    Targets = {t1}
    Codes = {"STAY", "NO_GO"}
    Faults = {"call", "connect", "fetch"}
    PressWhileMonitoring = FALSE
    MaxEvents = 2
    MaxStarts = 2
    MaxFaults = 2
SPECIFICATION FairSpec
INVARIANTS
    TypeOK
    AllClearRestoresTheLight
PROPERTIES
    AlarmReachesTheLight
