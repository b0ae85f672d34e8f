\* No fault at all: an alarm, a test of the light, a restored light, a stop.
CONSTANTS
    t1 = t1 t2 = t2 None = None
    Targets = {t1}
    Codes = {"STAY", "NO_GO"}
    Faults = {}
    PressWhileMonitoring = FALSE
    MaxEvents = 2
    MaxStarts = 2
    MaxFaults = 0
SPECIFICATION Spec
INVARIANTS
    StopEndsTheWarning
