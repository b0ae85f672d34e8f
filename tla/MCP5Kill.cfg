\* One kill of the process while the warning is on.
CONSTANTS
    t1 = t1 t2 = t2 None = None
    Targets = {t1}
    Codes = {"STAY", "NO_GO"}
    Faults = {"kill"}
    PressWhileMonitoring = FALSE
    MaxEvents = 2
    MaxStarts = 2
    MaxFaults = 1
SPECIFICATION Spec
INVARIANTS
    AllClearRestoresTheLight
