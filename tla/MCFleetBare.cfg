\* The same snapshot twice, its telemetry without message_id and captured_at.
CONSTANTS
    a = a b = b g = g c1 = c1 c2 = c2 w1 = w1 w2 = w2 None = None
    Workers = {w1, w2}
    SnapshotIds = {a, b}
    Sites = {g}
    Contents = {c1, c2}
    Times <- MCTimes
    Snapshots <- BareSnapshots
    CaptureMaxAge = 1
    FutureTolerance = 0
    EventMaxAge = 1
    MaxClock = 3
    MaxRuns = 2
    MaxRequests = 2
SPECIFICATION Spec
INVARIANT RepeatsNeverConflict
