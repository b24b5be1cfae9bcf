SPECIFICATION FairSpec
CONSTANTS
    Incidents = {i1}
    Policies = {p1}
    Tiers <- TiersWithGap
    Consumer = consumer
    Monitors = {m1}
    Handlers = {h1}
    None = None
    ListLimit = 50
    MaxEvents = 2
    MaxFaults = 1
INVARIANTS IInv PublishedOnce HistoryOnce ExhaustedMeansAllNotified UntoldOnlyByFault
PROPERTIES StoppedStaysStopped MonitorAdvancesOnlyExpired EscalationEnds KeepsContract
