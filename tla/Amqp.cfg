SPECIFICATION FairSpec
CONSTANTS
    Publishers = {m1, m2}
    Consumer = consumer0
    None = None
    DialAttempts = 2
    PublishAttempts = 2
    MaxFaults = 2
INVARIANTS TypeOK OneConnection AcceptedNotLost
PROPERTY Recovers
CHECK_DEADLOCK FALSE
