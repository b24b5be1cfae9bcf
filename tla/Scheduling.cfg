SPECIFICATION Spec
CONSTANTS
    Schedules = {s1}
    s1 = s1
    Tenants = {teamA, teamB}
    teamA = teamA
    teamB = teamB
    Owner <- OneOwner
    OverrideIds = {o1, o2, o3}
    Users = {u3}
    u1 = u1
    u2 = u2
    u3 = u3
    NewRows <- Rows
    Patches <- Bodies
    Windows <- Spans
    UnitTicks <- Ticks
    Offset <- Offsets
    Horizon = 10
    Handlers = {h1, h2}
    MaxRequests = 4
    MaxFaults = 1
CHECK_DEADLOCK FALSE
SYMMETRY Symmetry
INVARIANTS TypeOK OverlapOnlyByRace ShiftsAgreeWithOnCall RotationHandsOver LostOnlyByRace
