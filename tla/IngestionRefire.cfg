SPECIFICATION Spec
CONSTANTS
    Labels = {l1, l2}
    Requests = {r1}
    Payloads <- Webhooks
    MaxWebhooks = 2
    MaxFaults = 0
CHECK_DEADLOCK FALSE
INVARIANT RefiringPasses
