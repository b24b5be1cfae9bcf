SPECIFICATION FairSpec
CONSTANTS
    Tenants = {teamA, teamB}
    Hashes = {k1, k2}
    Replicas = {r1, r2}
    r1 = r1
    r2 = r2
    Handlers = {h1, h3}
    h1 = h1
    h3 = h3
    ReplicaOf <- Placed
    None = None
    MaxFaults = 2
INVARIANTS TypeOK RevokedOnlyAcceptedIfMissed WholeIndexAcceptsLive
PROPERTY RevocationTakesEffect
