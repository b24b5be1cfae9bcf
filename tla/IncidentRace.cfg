SPECIFICATION Spec
CONSTANTS
    Incidents = {i1, i2, i3}
    Fingerprints = {f1, f2}
    Rules = {wide, narrow}
    wide = wide
    narrow = narrow
    all = all
    DefaultRule = wide
    GroupKey <- Keyed
    NoKey = NoKey
    Consumer = consumer
    Handlers = {h1, h2}
    None = None
    MaxAlerts = 3
    MaxPatches = 3
    MaxFaults = 0
CHECK_DEADLOCK FALSE
SYMMETRY Symmetry
INVARIANTS TypeOK BuriedOnlyByHand StatusOnRecord
PROPERTIES FollowsStateMachine ClosedOnlyOverAlertsByHand
