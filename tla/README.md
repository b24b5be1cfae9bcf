# A TLA+ model of SREOnCall

SREOnCall is an on-call platform: monitoring systems post alerts to it, it groups
them into incidents, escalates an incident through the tiers of a policy until
somebody acknowledges it, and notifies the people on call.  It is five Go
services, each with its own PostgreSQL schema, that talk over RabbitMQ:

    webhook --> ingestion --alert.received--> incident --incident.created/updated-->
      escalation --escalation.triggered/exhausted--> notification --> people
                      |                                 |
                      +------ who is on call? ----- scheduling

No service keeps state of its own in memory that matters (a cache apart): what
happens is decided by the order in which goroutines of several services reach
the databases, Redis and the queues.  That is what the modules here are about.

## Inventory

Paths are relative to `src/`; `X/` is `services/X/internal/`.

### ingestion (`ingestion/handler`, `dedup`, `normalize`, `middleware`)
- State: a Redis key per fingerprint with a TTL of 4 hours; the audit table of raw
  alerts (write only).
- Operations: `processAlerts` (classify the batch in one pipeline, save it, publish
  one by one, and on a failed publish release the key and answer 503).
- Hard: concurrent webhooks with the same alert; a failure in the middle of a
  batch; all SETNX of a batch run before its DELs; expiry of a key.
- Correct when: a key lets one alert through; a firing alert that follows its resolution
  passes, a 200 means that the alert is published, and what the sender was told has failed
  can be retried.  The last three do not hold of the code (runs `IngestionRefire` and
  `IngestionAnswered`).

### incident (`incident/consumer`, `store`, `handler`, `statemachine`)
- State: incidents with a status, alert rows (fingerprint, group key, status), the
  history, grouping rules, labels, comments.
- Operations: `handleFiring`, `handleResolved`; PATCH of the status, POST of an
  alert, PUT/DELETE of the grouping rule; labels and comments; listing.
- Hard: the consumer makes several database calls per alert outside a transaction
  and HTTP requests run between them; redelivery after a crash; events published by
  two goroutines.
- Correct when: the status follows the state machine, a group has one open
  incident, an incident is closed exactly when its last alert resolves, history and
  events agree with the status.  The third does not hold of the code when a fingerprint is in
  two incidents (run `IncidentStranded`) or after a crash at the wrong moment.

### escalation (`escalation/escalator`, `consumer`, `monitor`, `store`, `handler`)
- State: policies and tiers, the tenant's default policy, one escalation row per
  incident (policy, current tier, status, deadline), the escalation history.
- Operations: `AssignPolicy`/`AutoAssign`, `AdvanceOrExhaust`, `Stop`,
  `ManualEscalate`; the monitor's tick; create, delete, default policy.
- Hard: monitors, requests and the consumer advance, stop and create the same row
  from values they read earlier; claiming, recording and publishing are separate
  steps; messages are redelivered.
- Correct when: a tier is notified and recorded at most once, no tier is skipped, a
  stopped escalation stays stopped, a tier is left only after its timeout (or by
  hand), and every escalation ends.

### notification (`notification/notifier`, `consumer`, `ratelimit`, `tenantcache`, `handler`)
- State: contacts, a log of outcomes, a token bucket per user and channel in Redis, in
  each process a cache of tenant configurations.
- Operations: `NotifyTriggered`, `NotifyExhausted`, `dispatchToContact` channel by
  channel; PUT of a contact and `SyncContacts` at login.
- Hard: redelivery sends again, and so does a dispatcher whose answer got lost; the
  handler's deadline passes in the middle; the bucket at its limit; a stale cache entry;
  requests that write back a row they read earlier.
- Correct when: nobody is skipped without a trace, copies have a cause, the rate is
  bounded, a change of the configuration takes effect in a bounded time.

### scheduling (`scheduling/rotation`, `store`, `handler`, `tokenindex`)
- State: schedules and overrides; tenants, webhook tokens and their index in Redis; the
  notification configuration of a tenant.
- Operations: who is on call (`OnCallAt`), `GenerateShifts`, `applyOverrides`; CRUD;
  writing the index and rehydrating it at start.
- Hard: the arithmetic of slots and overrides; the overlap check of two overrides
  racing; PATCH and PUT that write back whole rows; a table and a Redis index that can
  disagree, while replicas start and stop.
- Correct when: both algorithms name the same person, edits and overlaps are lost or let
  in only by a race, a revoked token is refused and a live one accepted.

### pkg/amqp
- State: a connection, a cached channel of the publisher, two locks, the consume loop.
- Operations: reconnect, publish with retries, consume one message, acknowledge,
  drop or requeue, shut down.
- Hard: reconnection by several goroutines, locks held across a dial, a publish whose
  connection is lost, handlers running at the shutdown.
- Correct when: one connection is open, no accepted message is lost once the broker has
  it, and no goroutine waits for ever.
- The service modules contain what it does to a message: one at a time, acknowledged
  after the handler, requeued at the head on an error (prefetch is one), delivered
  again after a crash.

### The rest
Of `pkg/httpclient` and `pkg/ssrf` the model has what a caller sees: a fetch ends within the
timeout of the client, and a URL is either refused or not.  `pkg/auth`, `pkg/httpserver`, the
Keycloak client and the frontend keep no state of the system and are not modelled.

## The modules

| Module | Models | Used by |
|---|---|---|
| `Escalation` | the escalation service | `EscalationRefinement`, `EscalationProofs` |
| `EscalationContract` | what that service promises about one incident | `EscalationRefinement` |
| `EscalationRefinement` | the mapping by which `Escalation` implements `EscalationContract` | `MCEscalation`, `EscalationRefinementProofs` |
| `EscalationProofs` | theorems about `Escalation`, checked by TLAPS | `EscalationRefinementProofs` |
| `EscalationRefinementProofs` | that `Escalation` implements `EscalationContract`, as a theorem | |
| `MCEscalation` | finite instances of `Escalation` for TLC | `Escalation*.cfg` |
| `Incident` | the incident service | `MCIncident`, `IncidentProofs` |
| `IncidentProofs` | theorems about `Incident` | |
| `MCIncident` | finite instances of `Incident` for TLC | `Incident*.cfg` |
| `Ingestion` | the ingestion service | `MCIngestion`, `IngestionProofs` |
| `IngestionProofs` | theorems about `Ingestion` | |
| `MCIngestion` | finite instances of `Ingestion` for TLC | `Ingestion*.cfg` |
| `Scheduling` | schedules, overrides, rotation | `MCScheduling`, `SchedulingProofs` |
| `SchedulingProofs` | theorems about `Scheduling` | |
| `MCScheduling` | a finite instance of `Scheduling` | `Scheduling.cfg` |
| `Tokens` | tenants, webhook tokens, their index, its reader in ingestion | `MCTokens`, `TokensProofs` |
| `TokensProofs` | theorems about `Tokens` | |
| `MCTokens` | a finite instance of `Tokens` | `Tokens.cfg` |
| `Notification` | the notification service with the configuration and contacts it goes by | `MCNotification`, `NotificationProofs` |
| `NotificationProofs` | theorems about `Notification` | |
| `MCNotification` | a finite instance of `Notification` | `Notification.cfg` |
| `Amqp` | `pkg/amqp` and the shutdown of a process | `MCAmqp`, `AmqpProofs` |
| `AmqpProofs` | theorems about `Amqp` | |
| `MCAmqp` | a finite instance of `Amqp` | `Amqp.cfg` |

`Tokens` and `Notification` are compositions: each has the part of `scheduling` that writes
and the service that reads (`ingestion`, `notification`), since what can go wrong is
between them.

The service modules follow one scheme.  A table is one variable per column that
matters, a function from the row's key; a queue is a sequence whose head is the
message being handled.  A goroutine is a *worker* with a program counter `pc` and the
local variables it carries between two calls (`inc`, `tier`, `reason`, ...).  One
database call, or one publish, is one action: other workers run between any two of
them, so whatever a worker has read may be stale when it writes.  A transaction is
one action.  A call whose error the code returns can fail by `HandlerError`; a
call whose error the code only logs has a failing disjunct that goes on.  `Crash`
takes the worker out at any point; the consumer's message is then still the head
of the queue.

### Escalation

| Code | Model |
|---|---|
| `incident_escalation_states` | `policyOf`, `currentTier`, `status`, `due` (the deadline has passed) |
| `AutoAssign`, `AssignPolicy`, `triggerTier` | `ReceiveCreated`/`AttachPolicy`, `GetPolicy`, `CreateEscalationState`, `TriggerHistory`, `PublishTriggered` |
| `AdvanceOrExhaust` | `AdvanceOrExhaust` (the guarded UPDATE, `Claimable`), then `TriggerHistory` ... or `PublishExhausted` |
| `Stop` | `ReceiveUpdated` (reads), `StopWrite` (the UPDATE by row id), `StopHistory` |
| `Monitor.step` | `ListExpiredStates` (a snapshot in `batch`), `MonitorNext` per row |
| time | `Timeout(i)` makes the row due |

Reading the next tier and the guarded UPDATE are one step: the policy of a row and
the tiers of a policy never change, and a referenced policy cannot be deleted.  The
on-call lookup only fills in a name and is left out.

### Incident

| Code | Model |
|---|---|
| `incidents`, `incident_alerts`, `incident_history` | `status`, `alerts` (a set of rows), `history` |
| `handleFiring` | `ReceiveFiring`, `FindOpenIncidentByGroupKey`, `CreateIncidentTx` or `AttachAlert`, `GetCreated`, `PublishCreated` |
| `handleResolved` | `ReceiveResolved` (with `ResolveAlert`), `CountFiring` and `MaybeResolve` (its two statements), `ResolvedHistory`, `GetUpdated`, `PublishUpdated` |
| `PatchStatus` | `PatchStatus` (read and validate), `TransitionStatus` (the guarded UPDATE), `PublishUpdated` |

Alert rows are a set: a redelivered alert inserts a second row that no query can tell
from the first.  `computeGroupKey` is the constant `GroupKey`, a function of rule and
fingerprint, since a fingerprint determines the labels.  `LIMIT 1` without ORDER BY
and the row `ResolveAlert` reads are arbitrary choices.  An entry of the history is the old and the
new status and whether a user or the consumer wrote it (`author` is empty for the consumer).  What
`BuriedOnlyByHand` and `StatusOnRecord` leave room for is what the code does: an alert attached to an
incident that a user has just closed stays there and no new incident is opened; the entry of an
automatic close, written after the UPDATE and outside a transaction, can land behind a reopening and
is then the last one of an open incident.

### Ingestion

| Code | Model |
|---|---|
| dedup keys in Redis, `raw_alerts` | `keys`, `audit` |
| `HandleAlertmanager`, `HandleGrafana`, `Normalize*` | `Webhook` with `Normalize`: statuses and fingerprints of a body |
| `Classify`, `RedisCache.Apply` | `Apply`, one SETNX or DEL per step, all SETNX of a batch first; `ClassifyError` |
| the rest of `processAlerts` | `SaveRawAlerts`, `PublishAlertPayload` per alert, `Answer` (200), or `PublishFails` and `Clear` (503) |
| the TTL | `Expire` |

A fingerprint is the pair of labels and source, which is what `computeFingerprint`
hashes (with the tenant).  `mark` and `grants` are history variables: what had been published when
a key was last set and how often it was set; so are `rest` and `kept`, what a failed
request leaves behind: the fingerprints behind the alert whose publish failed, and that of the alert
itself when the roll back of its key fails too; and `answered`, the fingerprints of suppressed alerts
whose sender was told 200.  The roll back uses the context of the request: a sender that has hung up cancels it, which is why `Clear` may
fail without a fault of Redis.  The sender's retry is another `Webhook`.  A loop over a batch
keeps the set of positions that are left in `todo` and works on the least (`First`).

### Scheduling

| Code | Model |
|---|---|
| `schedules`, `schedule_overrides` | `row`, `overrides` |
| PATCH of a schedule | `PatchSchedule` (reads, validates), `UpdateSchedule` (writes every column of `Merged`) |
| POST of an override | `CreateOverride` (the query for overlaps), `InsertOverride` |
| deletes, foreign key | `DeleteSchedule` with `Cascade`, `DeleteOverride`, `References` |
| `ParseISO8601Duration`, `fromRotation`, `OnCallAt` | operators of the same names (`RotationShift`) |
| `GenerateShifts`, `applyOverrides` | `BaseShifts`, `CutBy` (one override), `CutAll`, `ApplyOverrides`, `GenerateShifts` |

A duration is its sequence of tokens; a time zone a fixed offset, so that changes to and
from summer time are not covered (a shift is a duration in the code, not a number of local
days).  `seen`, `asked` and `raced` are history variables.  What the model shows of the code
beyond its properties: a PATCH may leave the rotation empty (POST may not), and `OnCallAt`
then fails; an unknown time zone counts as UTC; a window that ends before the start date
lists one shift that ends before it begins; an override across a change of shift is listed
twice; an override is inserted without looking whose schedule it names, and then blocks
that window for its owner (the overlap query spans tenants) without being in force.

### Tokens

| Code | Model |
|---|---|
| `tenants`, `tenant_webhook_tokens`, the Redis keys | `tenants`, `owner` and `live`, `index` |
| POST and DELETE of a token | `CreateWebhookToken` and `IndexSet`, `DeleteWebhookToken` and `IndexDel` |
| the start of a replica | `Start`, `ListWebhookTokenHashes`, `SetMany` |
| the middleware of `ingestion` | `Resolve` |

`missed` holds the revoked tokens for which the code gives up (a failed Del, a process that
ended before it, a Set or a rehydration that came in behind it), `whole` and `clean` whether
entries were lost since the table was last copied.  The rehydration only adds: a token that
is in `missed` is accepted until Redis restarts.  Deleting a tenant leaves its tokens alone.

### Notification

| Code | Model |
|---|---|
| `tenant_notification_config` | `hist`, every version of the row; PUT is `PutConfig` (read, merge) and `UpsertConfig` |
| `user_contacts` of the user | `contact`; `PutContact`, `SyncContacts` as `SyncRead` and `SyncWrite` |
| `Consumer.handle`, `NotifyTriggered`, `NotifyExhausted` | `Receive`, `GetContact`, then `CacheHit` or `Fetch` and `Store` |
| `dispatchToContact`, `dispatchChannel` | `Dispatch` (the channels that are not `Muted`), then per channel `Unsendable`, `Allow`, `AllowUnasked` or `RateLimited`, and `Send` |
| the script of the limiter | `Refill`, `Bucket`, `Allow` |
| the deadline of a handler | `Expire`: calls with its context fail from then on |

Time is a clock: the TTL of the cache, the window of the limiter and the timeout of the HTTP
client are in its ticks.  A loop over the channels of a contact keeps the positions that are left in
`todo`; `grants` is a history variable with the times at which the limiter allowed a channel since
Redis was last emptied: `RedisRestart` loses the bucket (the scheduling service reckons with that, too,
when it rehydrates its index), and the limiter then grants a whole one again, so that `RateBounded`
is a bound between two restarts.
Names of channels are read as already in lower case, which is what the notifier makes of them.
A handler whose `GetContact` fails drops the message without a row in the log; `NoSilentSkip`
speaks of the messages whose contact was read.
The handlers of one process run one after the other, so that the
singleflight of the cache has nothing to join; the sweeper removes entries that are not
fresh, which no read can tell.  `openspec/specs/notification-dispatch/spec.md:103` says "не
более 5 уведомлений за 10 минут на контакт"; the bucket is refilled whole when a window has
passed, so that the code keeps 2 * 5 - 1 (`RateBounded`), and it does not count what is sent
while the limiter cannot be asked or the deadline is over.  A channel named twice in a contact is
sent to twice.  A masked URL saved by mistake passes `ssrf.ValidateURL` and is then never sent to
(the log says so).

### Amqp

| Code | Model |
|---|---|
| `Connection` | `cur`, `reconnect`; `Current`, `Open`, `Reconnect`, `Dial`, `Backoff`, `Again` |
| `Publisher` | `mu`, `pch`; `Publish`, `Lock`, `Send`, `Retry` |
| `Consume`, `consumeOnce`, `process`, `Probe` | `cch`, `probe`; `Subscribe`, `Deliver`, `Process`, `ConsumeOnceEnds`, `Supervise` |
| the end of `main` | `Stop` (SIGTERM), `ClosePublisher` after the consumer is joined, `CloseConnection` |
| RabbitMQ, the network | `wire`, `queue`, `unacked`; `Read`, `LoseChannel`, `LoseConnection`, `Outage`, `Recover` |

Connections are numbered, so that a goroutine can hold one that is gone.  A publish is on the
`wire` until the broker reads it: there are no confirmations, and what is on the wire of a lost
connection is lost although `Publish` returned nil.  A publish that fails after the write is
tried again and may arrive twice.  `Connection` has no closed state: a request that outlives the
drain of the HTTP server opens a channel, or dials again, after the two closing steps.  A handler that
publishes waits for `Publish` and takes the same locks as a request does: the publishers stand for
both, and `Process` is the handler without its publishes.

### The contract of an escalation
`EscalationContract` says what a user of the escalation service may rely on, with neither rows
nor workers: tiers are claimed upwards, a claimed tier is told at most once, the end is announced
at most once, and after the end nothing is claimed any more.  Telling may follow the end, when
the claim came before it, and may be lost; how much may be lost is not in the contract but in
`UntoldOnlyByFault`: at most one tier for each fault.  `EscalationRefinement` maps the rows, the jobs in
`triggerTier` and the published events to it.  TLC checks the refinement where up to one fault may
happen, and `ContractKept` proves it.

### What they leave out
One tenant, where every query filters by tenant.  One consumer per queue: the deployment
runs one replica of each service (`Monitors` and the processes of `Notification` and `Tokens`
may still be many, which a rolling update allows).  Titles, authors, the text of messages,
and the read-only endpoints that are not answers about who is on call.  The service modules
publish in one step that succeeds or fails; a message that is lost after Publish returned, or
that arrives twice, is in `Amqp`.

### Not modelled
Labels, comments and the listing of incidents, PATCH of a tenant's name and the table of users:
single statements on columns nothing else reads.  `pkg/auth`, `pkg/httpserver`, the Keycloak client,
which addresses `pkg/ssrf` refuses and how `pkg/httpclient` retries: functions of one request.  The
frontend.

## The runs

| Run | Expect | Shows |
|---|---|---|
| `Escalation` | pass | a monitor, a handler and the consumer over one escalation with tiers 1, 2 and 4, a fault anywhere, fair scheduling: the inductive invariant of the proofs (with the types), `PublishedOnce`, `HistoryOnce`, `StoppedStaysStopped`, `MonitorAdvancesOnlyExpired`, `ExhaustedMeansAllNotified` up to the gap; a fault costs at most one notification (`UntoldOnlyByFault`), the contract (`KeepsContract`), `EscalationEnds` |
| `EscalationBlocked` | violation | an `incident.created` whose incident already has an escalation is requeued for ever, and the acknowledgement behind it stops nothing (`StopsOnAcknowledgement`) |
| `IncidentRace` | pass | alerts, two requests, two grouping rules, alerts attached by hand: `BuriedOnlyByHand`, `StatusOnRecord`, `FollowsStateMachine`, `ClosedOnlyOverAlertsByHand` |
| `IncidentFaults` | pass | up to two faults, fair scheduling: `OneOpenPerGroup`, `StrandedOnlyByFaultOrSharing`, `AlertsDrain` |
| `IncidentStranded` | violation | an incident stays open although its only alert resolved (`NoStrandedIncident`, no fault) |
| `IngestionRace` | pass | three webhooks, two at a time, a failed publish or another fault: `OnePublishPerKey`, `SilencedOnlyBehindFailure`, `AuditedWhenPublished` |
| `IngestionRefire` | violation | an alert that resolves and fires again in one body is suppressed (`RefiringPasses`) |
| `IngestionAnswered` | violation | a sender is told 200 for a duplicate of an alert that nobody publishes; with one request at a time, the retry of an alert behind a failed one is suppressed (`AnsweredMeansPublished`) |
| `Scheduling` | pass | a schedule, up to three overrides, two requests at a time: `OverlapOnlyByRace`, `LostOnlyByRace`; in every state `ShiftsAgreeWithOnCall`, `RotationHandsOver` |
| `Tokens` | pass | two replicas, two tokens, two faults, fair scheduling: `RevokedOnlyAcceptedIfMissed`, `WholeIndexAcceptsLive`, `RevocationTakesEffect` |
| `Notification` | pass | two processes, two messages, edits of configuration and contact, two edits or faults: `RateBounded`, `DuplicateOnlyByFault`, `NoSilentSkip`, `EditsLostOnlyByRace`, `StaleBounded` |
| `Amqp` | pass | two publishers and the consumer, two faults, fair scheduling: `OneConnection`, `AcceptedNotLost`, `Recovers` |

A violation run checks one sentence of the repository's specifications, decision
records or comments against the code; `findings` in `PROJECT.json` quotes it and says
what the counterexample does.

`OverlapOnlyByRace`, `LostOnlyByRace`, `EditsLostOnlyByRace` and `RevokedOnlyAcceptedIfMissed` permit
the race their names speak of: they check the guard, the merge and the order of calls, and say that
the race is the only way.  The races themselves are real and in the list that follows.

Further places where the code does something else than a
document or comment says, seen while modelling and not runs of their own:
- A tier claimed before a stop is published after it, above the tier the row was stopped at
  (`openspec/specs/escalation-policies/spec.md:129`: "дальнейшие уровни не уведомляются"); the
  contract allows it.
- A policy with a gap in its tier numbers is exhausted at the gap (same file, lines 131-134:
  exhausted when all tiers were notified); `ExhaustedMeansAllNotified` speaks of the tiers
  below the gap.
- `MaybeResolve` closes an incident over an alert attached between its two statements
  (`src/services/incident/internal/store/store.go:284`: "closes the incident if all its alerts
  are resolved"); `ClosedOnlyOverAlertsByHand` is what holds.
- A crash, or a failed call, between `ResolveAlert` and `MaybeResolve`: the alert is delivered again
  (`src/services/incident/internal/consumer/consumer.go:63-64`: "a processing failure is requeued"), finds
  no firing row and is acknowledged, and the incident stays open
  (`openspec/specs/incident-management/spec.md:39-40`).  `StrandedOnlyByFaultOrSharing` bounds it: one
  incident for a fault.
- Two overlapping overrides posted together both pass the query and are both stored
  (`openspec/specs/oncall-scheduling/spec.md:71-72`: HTTP 409); `OverlapOnlyByRace`.
- A replica that starts puts back a token that was revoked after it read the table
  (`openspec/specs/tenant-management/spec.md:78`: "дальнейшие вебхуки с этим токеном возвращают HTTP
  401"), which needs two replicas as in a rolling update; `RevokedOnlyAcceptedIfMissed`.
- Of two sections of the notification settings that are saved at the same time one is undone (same
  file, line 99: "что позволяет сохранять секцию Mattermost и секцию Email независимо");
  `EditsLostOnlyByRace`.  PATCH of a schedule does the same with its columns; no document promises
  otherwise.
- `incident.updated` of a PATCH can be published before `incident.created`
  (`docs/adr/0015-consumer-lifecycle-and-resilience.md:59-61`).

### Bounds
- Two tiers are the least that has an advance and an exhaustion, tier 4 is behind a gap;
  one incident suffices for the races, because workers on different incidents touch no common row.
  A monitor and a handler are two workers that can hold the same stale row, which is what a conflict
  needs; the theorems are about any number of either.  Two events are a creation and a stop, two
  stops, or a repeated creation.
- In `IncidentRace` three alerts are a group of two and a resolution, or a closing and
  a new opening; three requests are an acknowledgement, a close and a reopening, or a
  change of rule between alerts.  In `IncidentFaults` two alerts and two requests
  need at most three incident ids: every creation after the first follows a close.
- In `IngestionRace` two concurrent requests and a third webhook make a key that is set,
  deleted by a resolved alert and set again while the first request is still publishing.
  Bodies have one or two alerts: two that fire together, and one that resolves and fires
  again, the shape for which the order of a pipeline matters.  A failed publish or one
  other fault; a failed roll back comes on top of the failed publish.
- The violation runs have the least in which the case happens: one failed publish for
  `IngestionAnswered` and no fault for the others, two webhooks (one that sets the key and one that
  resolves and fires; two that cross), two events (the creation that comes late and the
  acknowledgement).
- `MaxFaults` is one or two: each is a crash, a failed call or a failed publish at any
  point, and two reach a fault in the retry of the first.  Where no fault is allowed,
  the properties are about the code's own interleavings (`StatusOnRecord`: a lost publish breaks it by
  design).
- In `Scheduling` the horizon of 10 ticks holds two whole turns of a rotation of two with the
  shorter duration; three overrides fit beside, inside, across and next to each other in it.
  Four requests are two overrides checked together and a delete, or two PATCHes that cross a
  third.  Three windows of the shift list: all of it, one inside, one shorter than a shift.
- In `Tokens` two replicas are one that starts and one that serves; two faults are a restart of
  Redis and a failed call or a crash during the rehydration that follows.
- In `Notification` `MaxTokens` is 2 and a contact names email twice, so that one message takes
  the bucket to its limit and a redelivery goes beyond; `Window` 2, `TTL` 1 and `FetchTimeout` 1
  within a clock up to 2 make a refill, an expiry and an answer that is overtaken by an edit.
  `MaxEvents` bounds edits and faults together: two edits that cross, an edit and a redelivery, two
  faults.
- In `Amqp` two publishers and the consumer are three goroutines that find the same connection
  lost; two attempts of each loop (5 and 3 in the code) have a first, a last and a retry.
- `CHECK_DEADLOCK FALSE` in the incident, ingestion, scheduling, notification and broker runs:
  with the bounded requests, alerts, messages and faults used up, or after the shutdown, the
  service rests.  The escalation and token runs never rest: the default policy can always be
  changed, tenants created and deleted.

### Fairness
`FairSpec` assumes that time passes (`Timeout`), that the consumer and each monitor
take a step they can take (the Go scheduler and the ticker), and that a request in
progress goes on.  Nothing obliges anyone to send an alert, an event or a request, and
faults are never fair: they are bounded, so that a call that fails for ever is not a
reason for not ending.  In `Tokens` a replica that is down is started again and goes on, and a
request goes on.  In `Amqp` the goroutines have strong fairness: `sync.Mutex` hands the lock to a
waiter that has starved for a millisecond, so that a lock that is free again and again is not
withheld for ever; the broker comes back in the end.

## The proofs

Eight modules of theorems, checked by TLAPS for every value of the constants: any number of
incidents, schedules, tokens, processes, handlers and messages, and any bound on requests and
faults.

| Theorem | States | Module |
|---|---|---|
| `TypeCorrect` | `Spec => []TypeOK` | `EscalationProofs` |
| `InductiveInvariant` | `Spec => []IInv` | |
| `PublishedAtMostOnce` | `Spec => []PublishedOnce` | |
| `HistoryAtMostOnce` | `Spec => []HistoryOnce` | |
| `StopIsFinal` | `Spec => StoppedStaysStopped` | |
| `MonitorIsNeverEarly` | `Spec => MonitorAdvancesOnlyExpired` | |
| `ExhaustedNotifiedAll` | `Spec => []ExhaustedMeansAllNotified` | |
| `LostOnlyByFault` | `Spec => []UntoldOnlyByFault` | |
| `ContractKept` | `Spec => KeepsContract` | `EscalationRefinementProofs` |
| `IncidentTypeCorrect` | `Spec => []TypeOK` | `IncidentProofs` |
| `StatusMachineFollowed` | `Spec => FollowsStateMachine` | |
| `GroupsStayTogether` | `Spec => []OneOpenPerGroup` | |
| `ClosedOverByHandOnly` | `Spec => ClosedOnlyOverAlertsByHand` | |
| `StrandedByFaultOrSharingOnly` | `Spec => []StrandedOnlyByFaultOrSharing` | |
| `BuriedByHandOnly` | `Spec => []BuriedOnlyByHand` | |
| `StatusIsOnRecord` | `Spec => []StatusOnRecord` | |
| `IngestionTypeCorrect` | `Spec => []TypeOK` | `IngestionProofs` |
| `AuditComplete` | `Spec => []AuditedWhenPublished` | |
| `SilenceHasOneCause` | `Spec => []SilencedOnlyBehindFailure` | |
| `KeyLetsOneThrough` | `Spec => []OnePublishPerKey` | |
| `SchedulingTypeCorrect` | `Spec => []TypeOK` | `SchedulingProofs` |
| `LostUpdatesAreRaces` | `Spec => []LostOnlyByRace` | |
| `OverlapsAreRaces` | `Spec => []OverlapOnlyByRace` | |
| `RotationHasNoGap` | `Spec => []RotationHandsOver` | |
| `ShiftsMatchOnCall` | `Spec => []ShiftsAgreeWithOnCall` | |
| `TokensTypeCorrect` | `Spec => []TypeOK` | `TokensProofs` |
| `RevocationHolds` | `Spec => []RevokedOnlyAcceptedIfMissed` | |
| `RehydrationComplete` | `Spec => []WholeIndexAcceptsLive` | |
| `NotificationTypeCorrect` | `Spec => []TypeOK` | `NotificationProofs` |
| `RateIsBounded` | `Spec => []RateBounded` | |
| `NobodySkippedSilently` | `Spec => []NoSilentSkip` | |
| `EditsStayInForce` | `Spec => []EditsLostOnlyByRace` | |
| `ConfigFollowsEdits` | `Spec => StaleBounded` | |
| `CopiesHaveACause` | `Spec => []DuplicateOnlyByFault` | |
| `AmqpTypeCorrect` | `Spec => []TypeOK` | `AmqpProofs` |
| `NoConnectionLeaks` | `Spec => []OneConnection` | |
| `AcceptedIsKept` | `Spec => []AcceptedNotLost` | |

### Assumptions on the constants
They are named ASSUMEs in the modules, which TLC evaluates in every run, and say what the code
guarantees: `None` is not a value it could be mistaken for; workers are distinct; the tiers
of a policy are integers and have a least one (`CreatePolicy` refuses an empty list and checks no
numbers; a list is finite); a group key is never empty;
a webhook body has the states and labels that decoding yields and an Alertmanager body at least one
alert (the handler answers others without a step); a POSTed schedule has all its columns; a contact
names finitely many channels and there are finitely many different contact rows; limits and periods
are positive, bounds natural.

### The arguments

**Escalation.**  `PublishedOnce` is not inductive: a state in which a worker is about to publish what
is already published satisfies it.  `IInv` adds where the right to publish comes from.
The step that writes a tier into an active row *claims* it: `Claimable` compares the
row with what the worker read, so only one worker of those that read the same tier
succeeds.  From then on the claim is either held by that one worker (`ClaimsExclusive`)
and not yet recorded (`ClaimsUnrecorded`), or recorded.  A new claim is fresh because
while a row is active no claim is above its tier (`ClaimsUpToTier`), and no claim exists
before the row (`NothingBeforeRow`).  `StopsRecorded` and the `stopHistory` part of
`ClaimsUnrecorded` do the same for the entry of a stop: `Stop` writes without a guard,
but only the one consumer runs it, and it can overwrite an active or an exhausted row,
never a stopped one.  `JobsOK` says that the incident a worker works on is known.
`SnapshotsOK` says that what a monitor has read is not ahead of the row and, if it is
still current, that the row is due: time makes rows due and only an advance, which
moves the tier, takes that back.  The proof has one lemma per action that writes
(`ClaimsCreate`, `ClaimsAdvance`, ...) and one (`QuietStep`) for all that do not.
`ExhaustedMeansAllNotified` speaks of the end only; `NobodySkipped` says of every row on the way
that each tier up to the current one is published or claimed.

With faults that is no longer so, and `UntoldOnlyByFault` counts instead.  `Missing` says that a tier of a
row is neither published nor in anybody's hands.  No step without a fault makes a tier missing, and one with a
fault at most the tier of the worker it hits (`LosesAtMostOne`, from `NotifiedButFor`: a worker that gives
up takes no claim with it but its own), so that the set grows by at most one for each fault.  Two things
could break the count: a claim that two workers hold, which `ClaimsExclusive` excludes, and `Stop`, which
writes back a tier it read earlier: `StopBehind` says that this tier is never ahead of the row.

**The contract.**  Each step of `Escalation` is mapped to the step of `EscalationContract` it is,
or to a stutter (`StepRefines`).  `IsClaim`, `IsTell`, ... say what a step must do to one incident, and
to no other, to be that step of the contract; one lemma per action of the service
(`CreateRefines`, `AdvanceRefines`, ...) shows that it does.  The refinement needs the invariant:
that a claimed tier is above all earlier ones is `ClaimsUpToTier`, that a told tier was owed and is
owed no longer is `ClaimsExclusive`.

**Incident.**  `Typing` adds to the types that a worker in the middle of a call works on an incident
that exists and that a transition was validated; with the guard of `TransitionStatus` this gives the
status machine.  `OneOpenPerGroup` needs what the consumer knows between its query and its insert
(`CreateClear`: no incident of the group is open but a reopened one; `AttachTarget`: the incident found
is of the group, though perhaps closed by now).  `CountClear` is the same for the two statements of
`MaybeResolve`.  For `StrandedOnlyByFaultOrSharing` rows are never removed, so that an incident that shares
a fingerprint always will (`SharesAlert`), and the consumer leaves an incident it settles over a firing
alert, closed, or by a fault (`SettlingStep`): a step adds to the set that is counted only by a fault, and
only the incident the consumer was at (`StrandedStep`).  `AttachClosed` says how stale the query of `handleFiring`
can be when its result is used: the incident it found open is open or was closed by hand, for
`MaybeResolve` is a call of the same goroutine; with `CountClear` this gives `BuriedOnlyByHand`.
`StatusOnRecord` follows the worker that wrote a status on its way to the event (`ReportingStep`: it
leaves that way only by publishing, or by a fault), and `EntryPending` says that the incident whose
automatic close is to be recorded is closed or was reopened since.

**Ingestion.**  `SavedFirst`: what is still to be published is in the audit table.  Without faults every
step of the service is one of four kinds (`OneAlertAtATime`): it lets one alert through, publishes one,
drops a failed batch, or concerns nobody.  `BehindFailure` says that the batch a request drops is in
`rest` but for the key it deletes, and `MarksBehind` that no key was marked in the
future; these give `SilencedOnlyBehindFailure`.  `Counted` strengthens `OnePublishPerKey` by the alerts that requests still
hold: published and held together are at most as many as the times the key was set.

**Scheduling.**  `RowsOK` and `JobsOK`: every row has a duration that parses, also after a PATCH that was
validated against an older row.  `Overriding` says that the ids of drafts are new, and that a row that
overlaps a draft came after its check (`CheckedOK`).  `RotationHandsOver` is arithmetic: floored division
is unique (`DivisionUnique`), so that the instant at which a shift ends has the next quotient, and the
next quotient is the next person in the cycle (`NextInCycle`), on either side of the start date.

`ShiftsMatchOnCall` compares two algorithms, one of which builds a list with a recursive function, a
fold and a join.  That these have values at all, and what is in them, is proved by least counterexample:
`RestExists` and `BaseRight` for the loop over the rotation (from the end of the window backwards),
`CuttingExists` and `CutStates` for the fold over the overrides, `FlattenRange` for the join, and
`SortedExists` for the query with its ORDER BY.  `BaseRight`: each base shift names the person of the
rotation at every instant it covers, and together they leave out none.  `Settled` is the invariant of
the loop over the overrides: all of the base shift that lies before `cur` is listed, and whatever is
listed is an override or a part of the base shift in which no override lies (`Rightful`).  It needs the
overrides to come one after the other (`InOrder`), which `ClampedInOrder` gets from the order of the
query and the absence of overlaps; with an overlap the two algorithms do disagree, which is why the
property asks for `Orderly`.  `OnCallAtRight` says whom `OnCallAt` names, and `RightWith` and
`RightWithout` put the two together for any window of integers.

**Tokens.**  A token on the way into the index was issued and one on the way out revoked
(`TokensOnTheWay`); what a starting replica did not read, although nothing was lost since, is indexed by
whoever created it (`CopyMissesNothing`).

**Notification.**  The limiter needs to know how the bucket and the past agree (`LimiterOK`): since the
last refill `MaxTokens - tokens` were granted, the first of them at `last`, and whatever is `MaxTokens` or
more before that one is a window older.  `AllAccounted` says of every handler on the way what
`NoSilentSkip` says of one that is through.  `Ages` bounds the time since a cached config, or one that is
being fetched, was replaced.  `Paid` counts the copies of a message ahead: what was sent, `Copies` for each
time it is in the queue or with a handler that has not chosen its channels, and one for each position
a handler is still to go through, are together at most `Copies` for the message itself and for each
fault; each step that sends or puts back pays from one of these.

**Amqp.**  The locks are held by the goroutine between taking and releasing them (`LocksHeld`), no
connection is open while one is dialled (`OneDials`), a number of a lost connection is never used
again (`Numbers`), and the broker waits for an answer only while the handler runs on an open
channel (`Delivery`).

Where a proof needs a least or greatest element (the first position of a loop, the longest list of a
contact, the first override), it comes from the well-foundedness of the naturals (`LeastExists`): a least
counterexample takes the place of an induction.

### Only model-checked
- Liveness (`EscalationEnds`, `AlertsDrain`, `RevocationTakesEffect`, `Recovers`): fairness and ENABLED
  are out of the prover's reach.
- `StopsOnAcknowledgement`, `NoStrandedIncident`, `RefiringPasses` and `AnsweredMeansPublished` are false
  of the code: the four violation runs have a counterexample each.  The theorems
  `StrandedByFaultOrSharingOnly` and `SilenceHasOneCause` say what is true instead of the second and of
  the retry in the fourth.

## Plan

Done: the modules above, a property for every hazard in `PROJECT.json`, and a theorem for every
invariant and action property of the passing runs.  What could come next is more of the system rather than more
about these parts: labels, comments and listings once anything depends on them, summer time in the
rotation, and confirmations of the broker should `pkg/amqp` start to use them.
