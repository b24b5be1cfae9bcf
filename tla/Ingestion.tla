------------------------------ MODULE Ingestion ------------------------------
(***************************************************************************)
(* The ingestion service: handler.go, alertmanager.go, grafana.go and      *)
(* dedup.go under services/ingestion/internal.                             *)
(*                                                                         *)
(* A webhook is normalised to a batch of alerts.  processAlerts classifies *)
(* the batch against the deduplication keys in Redis, writes it to the     *)
(* audit table and publishes what is not a duplicate, one alert after the  *)
(* other.  Requests run concurrently and meet in Redis only; a pipeline is *)
(* not a transaction, so each of its commands is a step of its own.        *)
(*                                                                         *)
(* A request without a valid token gets 401 and a body that does not parse *)
(* gets 400 before anything happens; a payload without alerts is answered  *)
(* 200.  None of them changes state and none is modelled.                  *)
(***************************************************************************)
EXTENDS Naturals, Sequences, FiniteSets

CONSTANTS
    Labels,       \* label sets of alerts
    Requests,     \* HTTP request goroutines
    Payloads,     \* webhook bodies: <<source, sequence of <<state, labels>>>>
    MaxWebhooks,  \* bound: webhooks received
    MaxFaults     \* bound: failed publishes, crashes and other failed calls

Sources == {"alertmanager", "grafana"}
AlertmanagerStates == {"firing", "resolved"}
GrafanaStates == {"alerting", "no_data", "ok", "paused"}

\* An Alertmanager body has any number of alerts, a Grafana body has one.
ASSUME PayloadsAssumption ==
    \A p \in Payloads :
        \/ p[1] = "alertmanager" /\ p[2] \in Seq(AlertmanagerStates \X Labels) \ {<<>>}
        \/ p[1] = "grafana" /\ \E s \in GrafanaStates, l \in Labels : p[2] = <<<<s, l>>>>
ASSUME BoundsAssumption ==
    MaxWebhooks \in Nat /\ MaxFaults \in Nat

VARIABLES
    keys,       \* the fingerprints whose deduplication key is in Redis
    audit,      \* raw_alerts: <<status, fingerprint, deduplicated>>
    published,  \* the alerts given to the broker, in order
    \* what each request is executing:
    pc,         \* the next call it makes
    body,       \* its normalised alerts
    dup,        \* the positions in body found to be duplicates
    todo,       \* the positions its next call still has to go through
    \* what the properties refer to:
    mark,       \* how much had been published when the key was last set
    grants,     \* how often the key was set
    rest,       \* fingerprints behind the one whose publish failed
    kept,       \* fingerprints whose roll back failed
    answered,   \* fingerprints of suppressed alerts that were answered with 200
    webhooks,   \* webhooks so far (bounded by MaxWebhooks)
    failures,   \* publishes that failed after their retries
    faults      \* crashes and failed calls to Redis and the database

redis == <<keys, mark, grants>>
jobs == <<pc, body, dup, todo>>
history == <<rest, kept, answered>>
counters == <<webhooks, failures, faults>>
vars == <<redis, audit, published, jobs, history, counters>>

\* computeFingerprint hashes the labels, the source and the tenant.
Fingerprint == Labels \X Sources
Alert == {"firing", "resolved"} \X Fingerprint
PCs == {"idle", "classify", "publish", "clear"}

Idle(r) == pc[r] = "idle"

Fault == failures + faults < MaxFaults /\ faults' = faults + 1

(***************************************************************************)
(* Normalisation.                                                          *)
(***************************************************************************)

amStatus(s) == IF s = "resolved" THEN "resolved" ELSE "firing"

grafanaStatus(s) == IF s \in {"ok", "paused"} THEN "resolved" ELSE "firing"

\* NormalizeAlertmanager and NormalizeGrafana keep the order of the alerts.
Normalize(p) ==
    [k \in DOMAIN p[2] |->
        <<IF p[1] = "alertmanager" THEN amStatus(p[2][k][1]) ELSE grafanaStatus(p[2][k][1]),
          <<p[2][k][2], p[1]>>>>]

\* Loops go through the positions of a batch in order: the least of those left to do.
First(S) == {k \in S : \A j \in S : k <= j}

(***************************************************************************)
(* processAlerts.                                                          *)
(***************************************************************************)

\* All the alerts of the body are to be classified.
Webhook(r, p) ==
    LET b == Normalize(p)
    IN /\ Idle(r) /\ webhooks < MaxWebhooks
       /\ webhooks' = webhooks + 1
       /\ pc' = [pc EXCEPT ![r] = "classify"]
       /\ body' = [body EXCEPT ![r] = b]
       /\ dup' = [dup EXCEPT ![r] = {}]
       /\ todo' = [todo EXCEPT ![r] = DOMAIN b]
       /\ UNCHANGED <<redis, audit, published, history, failures, faults>>

\* The positions of r's firing alerts among S.
Firing(r, S) == {k \in S : body[r][k][1] = "firing"}

\* Classify puts a SETNX for every firing alert and then a DEL for every resolved
\* one into one pipeline.  The position of its next command:
Command(r) == IF Firing(r, todo[r]) # {} THEN First(Firing(r, todo[r])) ELSE First(todo[r])

\* Faulty forms of the next definition: the result is read the wrong way round, or
\* at the position of the command instead of that of the alert (setIdx).
DuplicateNegated(r, k) == IF body[r][k][2] \in keys THEN {} ELSE {k}
DuplicateByCommand(r, k) ==
    LET before == {j \in Firing(r, DOMAIN body[r]) : j < k}
    IN IF body[r][k][2] \in keys THEN {Cardinality(before) + 1} ELSE {}

\* The positions marked as duplicates by the SETNX for position k.
Duplicate(r, k) == IF body[r][k][2] \in keys THEN {k} ELSE {}

\* Redis executes the next command of the pipeline.
Apply(r) == \E k \in Command(r) :
    LET f == body[r][k][2]
        new == body[r][k][1] = "firing" /\ f \notin keys
    IN /\ pc[r] = "classify"
       /\ todo' = [todo EXCEPT ![r] = @ \ {k}]
       /\ \/ /\ body[r][k][1] = "firing"
             /\ keys' = keys \cup {f}
             /\ dup' = [dup EXCEPT ![r] = @ \cup Duplicate(r, k)]
          \/ /\ body[r][k][1] = "resolved"
             /\ keys' = keys \ {f}
             /\ UNCHANGED dup
       /\ mark' = IF new THEN [mark EXCEPT ![f] = Len(published)] ELSE mark
       /\ grants' = IF new THEN [grants EXCEPT ![f] = @ + 1] ELSE grants
       /\ UNCHANGED <<audit, published, pc, body, history, counters>>

\* The pipeline fails, with some of its commands executed or not: nothing is
\* suppressed.
ClassifyError(r) ==
    /\ pc[r] = "classify"
    /\ Fault
    /\ dup' = [dup EXCEPT ![r] = {}]
    /\ todo' = [todo EXCEPT ![r] = {}]
    /\ UNCHANGED <<redis, audit, published, pc, body, history, webhooks, failures>>

\* Faulty form of the next definition: only the duplicates are kept.
RowsOfDuplicates(r) == {<<body[r][k][1], body[r][k][2], TRUE>> : k \in dup[r]}

\* The rows SaveRawAlerts inserts.
Rows(r) == {<<body[r][k][1], body[r][k][2], k \in dup[r]>> : k \in DOMAIN body[r]}

\* SaveRawAlerts, all or nothing; its failure is logged.  What is not a duplicate is
\* then published in the order of the body.
SaveRawAlerts(r) ==
    /\ pc[r] = "classify" /\ todo[r] = {}
    /\ \/ audit' = audit \cup Rows(r) /\ UNCHANGED faults
       \/ Fault /\ UNCHANGED audit
    /\ pc' = [pc EXCEPT ![r] = "publish"]
    /\ todo' = [todo EXCEPT ![r] = DOMAIN body[r] \ dup[r]]
    /\ UNCHANGED <<redis, published, body, dup, history, webhooks, failures>>

PublishAlertPayload(r) == \E k \in First(todo[r]) :
    /\ pc[r] = "publish"
    /\ published' = Append(published, body[r][k])
    /\ todo' = [todo EXCEPT ![r] = @ \ {k}]
    /\ UNCHANGED <<redis, audit, pc, body, dup, history, counters>>

\* The request is over and forgets what it had.
Leave(r) ==
    /\ pc' = [pc EXCEPT ![r] = "idle"]
    /\ body' = [body EXCEPT ![r] = <<>>]
    /\ dup' = [dup EXCEPT ![r] = {}]
    /\ todo' = [todo EXCEPT ![r] = {}]

\* 200
Answer(r) ==
    /\ pc[r] = "publish" /\ todo[r] = {}
    /\ answered' = answered \cup {body[r][k][2] : k \in dup[r]}
    /\ Leave(r)
    /\ UNCHANGED <<redis, audit, published, rest, kept, counters>>

\* The broker cannot be reached: the rest of the batch is not tried.
PublishFails(r) ==
    /\ pc[r] = "publish" /\ todo[r] # {}
    /\ failures + faults < MaxFaults
    /\ failures' = failures + 1
    /\ pc' = [pc EXCEPT ![r] = "clear"]
    /\ rest' = rest \cup {body[r][k][2] : k \in todo[r] \ First(todo[r])}
    /\ UNCHANGED <<redis, audit, published, body, dup, todo, kept, answered, webhooks, faults>>

\* Faulty form of the next definition: the roll back forgotten.
ReleasedNot(r) == {}

\* The keys the roll back deletes: that of the alert whose publish failed, resolved
\* alerts included.
Released(r) == {body[r][k][2] : k \in First(todo[r])}

\* The error of the DEL is ignored; it fails for certain when the sender has hung up,
\* which cancels the context of the request and the retries of the publish.  503.
Clear(r) ==
    /\ pc[r] = "clear"
    /\ \/ keys' = keys \ Released(r) /\ UNCHANGED kept
       \/ kept' = kept \cup Released(r) /\ UNCHANGED keys
    /\ Leave(r)
    /\ UNCHANGED <<mark, grants, audit, published, rest, answered, counters>>

\* The TTL of a key runs out.
Expire(f) ==
    /\ f \in keys
    /\ keys' = keys \ {f}
    /\ UNCHANGED <<mark, grants, audit, published, jobs, history, counters>>

\* The process dies.  What Redis still executes of its pipeline counts as executed
\* before.
Crash(r) ==
    /\ ~Idle(r)
    /\ Fault
    /\ Leave(r)
    /\ UNCHANGED <<redis, audit, published, history, webhooks, failures>>

Init ==
    /\ keys = {}
    /\ audit = {}
    /\ published = <<>>
    /\ pc = [r \in Requests |-> "idle"]
    /\ body = [r \in Requests |-> <<>>]
    /\ dup = [r \in Requests |-> {}]
    /\ todo = [r \in Requests |-> {}]
    /\ mark = [f \in Fingerprint |-> 0]
    /\ grants = [f \in Fingerprint |-> 0]
    /\ rest = {} /\ kept = {} /\ answered = {}
    /\ webhooks = 0 /\ failures = 0 /\ faults = 0

processAlerts(r) ==
    \/ Apply(r) \/ ClassifyError(r) \/ SaveRawAlerts(r)
    \/ PublishAlertPayload(r) \/ PublishFails(r) \/ Clear(r) \/ Answer(r)

Next ==
    \/ \E r \in Requests :
          \/ \E p \in Payloads : Webhook(r, p)
          \/ processAlerts(r)
          \/ Crash(r)
    \/ \E f \in Fingerprint : Expire(f)

Spec == Init /\ [][Next]_vars

-----------------------------------------------------------------------------
(***************************************************************************)
(* Properties.                                                             *)
(***************************************************************************)

\* Every variable keeps the shape Redis, the table and the requests have; a resolved
\* alert is never marked as a duplicate, whatever stands before it in its batch, although
\* the results of the pipeline are parallel to the firing alerts and not to the batch.
TypeOK ==
    /\ keys \in SUBSET Fingerprint
    /\ audit \in SUBSET ({"firing", "resolved"} \X Fingerprint \X BOOLEAN)
    /\ published \in Seq(Alert)
    /\ pc \in [Requests -> PCs]
    /\ body \in [Requests -> Seq(Alert)]
    /\ \A r \in Requests : /\ dup[r] \in SUBSET {k \in DOMAIN body[r] : body[r][k][1] = "firing"}
                           /\ todo[r] \in SUBSET DOMAIN body[r]
    /\ mark \in [Fingerprint -> Nat]
    /\ grants \in [Fingerprint -> Nat]
    /\ rest \in SUBSET Fingerprint /\ kept \in SUBSET Fingerprint
    /\ answered \in SUBSET Fingerprint
    /\ webhooks \in Nat /\ failures \in Nat /\ faults \in Nat

\* The firing alerts of fingerprint f that request r has been let through with, has
\* not published yet and has not been answered for.
Holding(r, f) ==
    {k \in DOMAIN body[r] \ dup[r] :
        /\ body[r][k] = <<"firing", f>>
        /\ \/ pc[r] = "classify" /\ k \notin todo[r]
           \/ pc[r] \in {"publish", "clear"} /\ k \in todo[r]}

\* However requests interleave, the key lets one firing alert through each time it is
\* set; only a failed pipeline lets alerts through unasked.
OnePublishPerKey ==
    faults = 0 =>
        \A f \in Fingerprint :
            Cardinality({k \in DOMAIN published : published[k] = <<"firing", f>>})
              + Cardinality(UNION {{r} \X Holding(r, f) : r \in Requests})
            <= grants[f]

\* f is suppressed although no firing alert of it was published since its key was set
\* and no request is about to publish one.
Silenced(f) ==
    /\ f \in keys
    /\ \A k \in mark[f] + 1 .. Len(published) : published[k] # <<"firing", f>>
    /\ \A r \in Requests : Holding(r, f) = {}

\* Concurrent requests, roll backs, resolutions and expiries leave a key behind that
\* silences an alert only for the alerts behind a failed one in its batch, and for the
\* failed one when its roll back fails, as it does when the sender has hung up.
SilencedOnlyBehindFailure ==
    faults = 0 => \A f \in Fingerprint : Silenced(f) => f \in rest \cup kept

\* Whatever is published is in the audit table as not suppressed, if no save failed.
AuditedWhenPublished ==
    faults = 0 => \A k \in DOMAIN published :
        <<published[k][1], published[k][2], FALSE>> \in audit

\* Claim of the ingestion spec: a resolved alert deletes the key and the next firing alert
\* of it passes at once.  For two of them in one batch, handled by the only request there
\* is, no firing alert is suppressed unless one of the same fingerprint fired between it
\* and every resolution before it.
RefiringPasses ==
    faults = 0 => \A r \in Requests : \A k \in dup[r] : \A j \in 1 .. k - 1 :
        LET f == body[r][k][2]
        IN body[r][j] = <<"resolved", f>>
             => \E m \in j + 1 .. k - 1 : body[r][m] = <<"firing", f>>

\* Claim of the ingestion spec: an answer of 200 means that the alerts are published, and
\* the retry of one that could not be published passes.  Unless a process died or a roll
\* back failed, a suppressed alert that was answered with 200 has been published, be it
\* long ago, or is still to be published by the request it was left to.
AnsweredMeansPublished ==
    faults = 0 => \A f \in answered \ kept :
        \/ \E k \in DOMAIN published : published[k] = <<"firing", f>>
        \/ \E r \in Requests : Holding(r, f) # {}
=============================================================================
