SPECIFICATION Spec
CONSTANTS
    Incidents = {i1, i2}
    Fingerprints = {f1}
    Rules = {wide}
    wide = wide
    narrow = narrow
    all = all
    DefaultRule = wide
    GroupKey <- Keyed
    NoKey = NoKey
    Consumer = consumer
    Handlers = {h1}
    None = None
    MaxAlerts = 3
    MaxPatches = 1
    MaxFaults = 0
CHECK_DEADLOCK FALSE
INVARIANT NoStrandedIncident
