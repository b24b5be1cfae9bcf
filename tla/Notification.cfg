SPECIFICATION Spec
CONSTANTS
    Procs = {p1, p2}
    Admins = {a1, a2}
    Messages <- OneOfEach
    ConfigBodies <- SectionBodies
    ContactBodies <- NewContacts
    FirstContacts <- OldContacts
    ClaimEmail = "b"
    Keep = Keep
    None = None
    MaxTokens = 2
    Window = 2
    TTL = 1
    FetchTimeout = 1
    MaxTime = 2
    MaxEvents = 2
INVARIANTS TypeOK RateBounded DuplicateOnlyByFault NoSilentSkip EditsLostOnlyByRace
PROPERTY StaleBounded
SYMMETRY Symmetry
CHECK_DEADLOCK FALSE
