SPECIFICATION Spec
CONSTANTS
    Labels = {l1, l2}
    Requests = {r1, r2}
    Payloads <- Webhooks
    MaxWebhooks = 3
    MaxFaults = 1
CHECK_DEADLOCK FALSE
SYMMETRY Symmetry
INVARIANTS TypeOK OnePublishPerKey SilencedOnlyBehindFailure AuditedWhenPublished
