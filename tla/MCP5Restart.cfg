\* Two vehicles to monitor, start pressed at any time, the process killed.
CONSTANTS
    t1 = t1 t2 = t2 None = None
    Targets = {t1, t2}
    Codes = {"STAY", "NO_GO"}
    Faults = {"close", "kill"}
    PressWhileMonitoring = TRUE
    MaxEvents = 1
    MaxStarts = 2
    MaxFaults = 1
SPECIFICATION Spec
INVARIANTS
    ShownIsOfCurrentTarget
PROPERTIES
    IntentIsLatched
