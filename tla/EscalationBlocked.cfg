SPECIFICATION FairSpec
CONSTANTS
    Incidents = {i1}
    Policies = {p1}
    Tiers <- ContiguousTiers
    Consumer = consumer
    Monitors = {m1}
    Handlers = {h1}
    None = None
    ListLimit = 50
    MaxEvents = 2
    MaxFaults = 0
PROPERTY StopsOnAcknowledgement
