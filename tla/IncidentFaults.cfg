SPECIFICATION FairSpec
CONSTANTS
    Incidents = {i1, i2, i3}
    Fingerprints = {f1, f2}
    Rules = {wide}
    wide = wide
    narrow = narrow
    all = all
    DefaultRule = wide
    GroupKey <- Keyed
    NoKey = NoKey
    Consumer = consumer
    Handlers = {h1}
    None = None
    MaxAlerts = 2
    MaxPatches = 2
    MaxFaults = 2
CHECK_DEADLOCK FALSE
INVARIANTS OneOpenPerGroup StrandedOnlyByFaultOrSharing
PROPERTY AlertsDrain
