----------------------------- MODULE Escalation -----------------------------
(***************************************************************************)
(* The escalation service: escalator.go, consumer.go, monitor.go, store.go *)
(* and handler.go under services/escalation/internal.                      *)
(*                                                                         *)
(* Three kinds of goroutine run the escalator at the same time: the AMQP   *)
(* consumer of queue incidents.escalation, the monitors (one ticker per    *)
(* replica) and the HTTP handlers.  They share nothing but the database,   *)
(* and each database call is one atomic step here: everything a worker has *)
(* read before it is kept in its job and may be stale when it is used.     *)
(*                                                                         *)
(* One tenant is modelled: every query filters by tenant, and a policy, a  *)
(* default and an incident of another tenant are never visible to it.      *)
(***************************************************************************)
EXTENDS Integers, Sequences, FiniteSets, FiniteSetsExt

CONSTANTS
    Incidents,   \* incident ids
    Policies,    \* ids CreatePolicy may hand out
    Tiers,       \* Tiers[p]: the tier numbers policy p is created with
    Consumer,    \* the AMQP consumer goroutine
    Monitors,    \* the monitor goroutines, one per replica
    Handlers,    \* HTTP request goroutines
    None,        \* no policy, no incident
    ListLimit,   \* the limit the monitor passes to ListExpiredStates
    MaxEvents,   \* bound: incident events published to the queue
    MaxFaults    \* bound: crashes, failed calls and failed publishes

ASSUME NoneAssumption == None \notin Policies \cup Incidents
ASSUME WorkersAssumption ==
    /\ Consumer \notin Monitors \cup Handlers
    /\ Monitors \cap Handlers = {}
\* CreatePolicy refuses a policy without tiers; it takes any integers for their
\* numbers, and a policy has finitely many, so one of them is the lowest.
ASSUME TiersAssumption ==
    /\ Tiers \in [Policies -> SUBSET Int]
    /\ \A p \in Policies : \E t \in Tiers[p] : \A u \in Tiers[p] : t <= u
ASSUME BoundsAssumption ==
    ListLimit \in Nat \ {0} /\ MaxEvents \in Nat /\ MaxFaults \in Nat

VARIABLES
    policies,      \* life cycle of every policy id
    defaultPolicy, \* tenant_escalation_config.default_policy_id
    \* incident_escalation_states, at most one row per incident, by column:
    policyOf,      \* policy_id
    currentTier,   \* current_tier
    status,        \* status, or "none" when the incident has no row
    due,           \* escalate_at <= now()
    history,       \* escalation_history of each incident, in insertion order
    queue,         \* incidents.escalation; the head is delivered next
    published,     \* escalation.triggered and .exhausted given to the broker
    \* what each worker is executing and what it has read:
    pc,            \* the next call it makes
    inc,           \* the incident it works on
    policy,        \* AssignPolicy: the policy to attach
    tier,          \* the tier it read, or the tier it is triggering
    reason,        \* Stop: the status in the event
    batch,         \* rows a monitor got from ListExpiredStates, not yet tried
    sent,          \* events put on the queue so far (bounded by MaxEvents)
    faults         \* faults so far (bounded by MaxFaults)

config == <<policies, defaultPolicy>>
rows == <<policyOf, currentTier, status, due>>
jobs == <<pc, inc, policy, tier, reason>>
vars == <<config, rows, history, queue, published, jobs, batch, sent, faults>>

Workers == {Consumer} \cup Monitors \cup Handlers
StopReasons == {"acknowledged", "resolved"}

\* <<type, incident, status>>, as far as the service looks at an event.
Message == ({"created"} \X Incidents \X {"open"})
           \cup ({"updated"} \X Incidents \X (StopReasons \cup {"open"}))

\* A history entry <<event_type, tier>> and a published event
\* <<incident, type, tier>>; escalation.exhausted names no tier and carries 0.
Entry == ({"triggered", "exhausted"} \cup StopReasons) \X Int
Event == Incidents \X {"triggered", "exhausted"} \X Int

PCs == {"idle", "policy", "create", "triggerHistory", "publishTriggered",
        "advance", "publishExhausted", "stop", "stopHistory", "ack"}

Active(i) == status[i] = "active"
Idle(w) == pc[w] = "idle"

(***************************************************************************)
(* Shared pieces.                                                          *)
(***************************************************************************)

\* Faulty form of the next definition: the tiers read in descending order.
FirstTierDescending(p) == CHOOSE t \in Tiers[p] : \A u \in Tiers[p] : u <= t

\* policy.Tiers[0]: listTiers orders by tier_number.
FirstTier(p) == CHOOSE t \in Tiers[p] : \A u \in Tiers[p] : t <= u

\* Columns of the row of incident i are written; policy_id never is.
WriteRow(i, t, st, d) ==
    /\ currentTier' = [currentTier EXCEPT ![i] = t]
    /\ status' = [status EXCEPT ![i] = st]
    /\ due' = [due EXCEPT ![i] = d]

\* Faulty form of the next definition: the tier gets lost on the way.
GotoWithoutTier(w, l, t) ==
    /\ pc' = [pc EXCEPT ![w] = l]
    /\ tier' = [tier EXCEPT ![w] = None]
    /\ UNCHANGED <<inc, policy, reason>>

\* The worker goes on to l with tier t, working on the same incident.
Goto(w, l, t) ==
    /\ pc' = [pc EXCEPT ![w] = l]
    /\ tier' = [tier EXCEPT ![w] = t]
    /\ UNCHANGED <<inc, policy, reason>>

\* The worker drops what it has read and goes to l.
Leave(w, l) ==
    /\ pc' = [pc EXCEPT ![w] = l]
    /\ inc' = [inc EXCEPT ![w] = None]
    /\ policy' = [policy EXCEPT ![w] = None]
    /\ tier' = [tier EXCEPT ![w] = 0]
    /\ reason' = [reason EXCEPT ![w] = None]

\* The handler returns nil: the consumer still has to acknowledge the message.
Return(w) == Leave(w, IF w = Consumer THEN "ack" ELSE "idle")

\* The handler returns an error: the consumer's message is requeued, and with a
\* prefetch of one it is again the head of the queue.
ReturnError(w) == Leave(w, "idle")

AppendHistory(i, e, t) == history' = [history EXCEPT ![i] = Append(@, <<e, t>>)]

Publish(i, e, t) == published' = Append(published, <<i, e, t>>)

\* One more failure of a call whose error the code only logs.
Fault == faults < MaxFaults /\ faults' = faults + 1

(***************************************************************************)
(* The tenant's policies and the default policy (handler.go, store.go).    *)
(***************************************************************************)

CreatePolicy(p) ==
    /\ policies[p] = "absent"
    /\ policies' = [policies EXCEPT ![p] = "live"]
    /\ UNCHANGED <<defaultPolicy, rows, history, queue, published, jobs, batch,
                   sent, faults>>

\* The foreign key of the states table refuses to delete a referenced policy;
\* that of tenant_escalation_config is ON DELETE SET NULL.
DeletePolicy(p) ==
    /\ policies[p] = "live"
    /\ \A i \in Incidents : policyOf[i] # p
    /\ policies' = [policies EXCEPT ![p] = "deleted"]
    /\ defaultPolicy' = IF defaultPolicy = p THEN None ELSE defaultPolicy
    /\ UNCHANGED <<rows, history, queue, published, jobs, batch, sent, faults>>

PutDefaultPolicy(p) ==
    /\ policies[p] = "live"
    /\ defaultPolicy # p
    /\ defaultPolicy' = p
    /\ UNCHANGED <<policies, rows, history, queue, published, jobs, batch, sent,
                   faults>>

DeleteDefaultPolicy ==
    /\ defaultPolicy # None
    /\ defaultPolicy' = None
    /\ UNCHANGED <<policies, rows, history, queue, published, jobs, batch, sent,
                   faults>>

(***************************************************************************)
(* AssignPolicy, called by the consumer (AutoAssign) and by the handler    *)
(* AttachPolicy.                                                           *)
(***************************************************************************)

StartAssign(w, i, p) ==
    /\ pc' = [pc EXCEPT ![w] = "policy"]
    /\ inc' = [inc EXCEPT ![w] = i]
    /\ policy' = [policy EXCEPT ![w] = p]
    /\ UNCHANGED <<tier, reason>>

\* POST /incidents/{id}/policy; the incident's own status is not looked at.
AttachPolicy(h, i, p) ==
    /\ Idle(h)
    /\ StartAssign(h, i, p)
    /\ UNCHANGED <<config, rows, history, queue, published, batch, sent, faults>>

GetPolicy(w) ==
    /\ pc[w] = "policy"
    /\ IF policies[policy[w]] = "live" THEN Goto(w, "create", 0)
                                       ELSE ReturnError(w)
    /\ UNCHANGED <<config, rows, history, queue, published, batch, sent, faults>>

\* Faulty form of the next definition: the row is created, nobody is told.
CreateWithoutTrigger(w) ==
    LET i == inc[w]
        p == policy[w]
    IN /\ pc[w] = "create"
       /\ IF status[i] = "none" /\ policies[p] = "live"
          THEN /\ policyOf' = [policyOf EXCEPT ![i] = p]
               /\ WriteRow(i, FirstTier(p), "active", FALSE)
               /\ Return(w)
          ELSE ReturnError(w) /\ UNCHANGED rows
       /\ UNCHANGED <<config, history, queue, published, batch, sent, faults>>

\* incident_id is UNIQUE and policy_id a foreign key: either failing is an error.
CreateEscalationState(w) ==
    LET i == inc[w]
        p == policy[w]
    IN /\ pc[w] = "create"
       /\ IF status[i] = "none" /\ policies[p] = "live"
          THEN /\ policyOf' = [policyOf EXCEPT ![i] = p]
               /\ WriteRow(i, FirstTier(p), "active", FALSE)
               /\ Goto(w, "triggerHistory", FirstTier(p))
          ELSE ReturnError(w) /\ UNCHANGED rows
       /\ UNCHANGED <<config, history, queue, published, batch, sent, faults>>

(***************************************************************************)
(* triggerTier.  The on-call lookup before it only fills in the user of    *)
(* the entry and of the event, and a failed lookup goes on without one; a  *)
(* failed append or publish is logged and nothing else.                    *)
(***************************************************************************)

TriggerHistory(w) ==
    /\ pc[w] = "triggerHistory"
    /\ \/ AppendHistory(inc[w], "triggered", tier[w]) /\ UNCHANGED faults
       \/ Fault /\ UNCHANGED history
    /\ Goto(w, "publishTriggered", tier[w])
    /\ UNCHANGED <<config, rows, queue, published, batch, sent>>

PublishTriggered(w) ==
    /\ pc[w] = "publishTriggered"
    /\ \/ Publish(inc[w], "triggered", tier[w]) /\ UNCHANGED faults
       \/ Fault /\ UNCHANGED published
    /\ Return(w)
    /\ UNCHANGED <<config, rows, history, queue, batch, sent>>

(***************************************************************************)
(* AdvanceOrExhaust, called by the monitors and by ManualEscalate.  The    *)
(* policy of a row and the tiers of a policy never change and a referenced *)
(* policy cannot be deleted, so reading the next tier and the guarded      *)
(* UPDATE are one step.                                                    *)
(***************************************************************************)

StartAdvance(w, i, t) ==
    /\ pc' = [pc EXCEPT ![w] = "advance"]
    /\ inc' = [inc EXCEPT ![w] = i]
    /\ tier' = [tier EXCEPT ![w] = t]
    /\ UNCHANGED <<policy, reason>>

\* Faulty forms of the guard below, each the UPDATE with a condition missing or
\* wrong; only mutation checks use them.
ClaimableWithoutTier(i, t) == Active(i)
ClaimableWithoutStatus(i, t) == status[i] # "none" /\ currentTier[i] = t
ClaimableByNextTier(i, t) == Active(i) /\ currentTier[i] = t + 1

\* The WHERE clause of AdvanceEscalationState: expected tier and status.
Claimable(i, t) == Active(i) /\ currentTier[i] = t

\* The UPDATE writes back the status that was read, which is active.
AdvanceOrExhaust(w) ==
    LET i == inc[w]
        t == tier[w]
    IN /\ pc[w] = "advance"
       /\ IF ~Claimable(i, t)               \* ErrConflict: skip silently
          THEN Return(w) /\ UNCHANGED <<currentTier, status, due, history>>
          ELSE IF t + 1 \in Tiers[policyOf[i]]
          THEN /\ WriteRow(i, t + 1, "active", FALSE)
               /\ Goto(w, "triggerHistory", t + 1)
               /\ UNCHANGED history
          ELSE /\ WriteRow(i, t, "exhausted", TRUE)
               /\ AppendHistory(i, "exhausted", t)
               /\ Goto(w, "publishExhausted", t)
       /\ UNCHANGED <<config, policyOf, queue, published, batch, sent, faults>>

PublishExhausted(w) ==
    /\ pc[w] = "publishExhausted"
    /\ \/ Publish(inc[w], "exhausted", 0) /\ UNCHANGED faults
       \/ Fault /\ UNCHANGED published
    /\ Return(w)
    /\ UNCHANGED <<config, rows, history, queue, batch, sent>>

\* POST /incidents/{id}/escalate: read the row, refuse unless active, advance.
ManualEscalate(h, i) ==
    /\ Idle(h)
    /\ Active(i)
    /\ StartAdvance(h, i, currentTier[i])
    /\ UNCHANGED <<config, rows, history, queue, published, batch, sent, faults>>

(***************************************************************************)
(* The monitor: every tick lists the expired rows and advances them one by *)
(* one.  The query runs outside a transaction, so its FOR UPDATE lock is   *)
(* gone when it returns, and no row is locked when it runs: every call is  *)
(* atomic here, and SKIP LOCKED skips nothing.                             *)
(***************************************************************************)

Expired == {i \in Incidents : Active(i) /\ due[i]}

ListExpiredStates(m) ==
    /\ Idle(m) /\ batch[m] = {}
    /\ Expired # {}
    /\ \E found \in kSubset(Min({ListLimit, Cardinality(Expired)}), Expired) :
          batch' = [batch EXCEPT ![m] = {<<i, currentTier[i]>> : i \in found}]
    /\ UNCHANGED <<config, rows, history, queue, published, jobs, sent, faults>>

MonitorNext(m) ==
    /\ Idle(m)
    /\ \E s \in batch[m] :
          /\ batch' = [batch EXCEPT ![m] = @ \ {s}]
          /\ StartAdvance(m, s[1], s[2])
    /\ UNCHANGED <<config, rows, history, queue, published, sent, faults>>

\* The timeout of the row's tier elapses.
Timeout(i) ==
    /\ Active(i) /\ ~due[i]
    /\ due' = [due EXCEPT ![i] = TRUE]
    /\ UNCHANGED <<config, policyOf, currentTier, status, history, queue,
                   published, jobs, batch, sent, faults>>

(***************************************************************************)
(* The consumer: one message at a time, acknowledged after its handler.    *)
(***************************************************************************)

\* incident.created: AutoAssign reads the tenant's default policy.
ReceiveCreated ==
    /\ Idle(Consumer) /\ queue # <<>> /\ Head(queue)[1] = "created"
    /\ IF defaultPolicy = None
       THEN Return(Consumer)
       ELSE StartAssign(Consumer, Head(queue)[2], defaultPolicy)
    /\ UNCHANGED <<config, rows, history, queue, published, batch, sent, faults>>

\* incident.updated: Stop reads the row; a reopened incident is ignored.
ReceiveUpdated ==
    LET i == Head(queue)[2]
        st == Head(queue)[3]
    IN /\ Idle(Consumer) /\ queue # <<>> /\ Head(queue)[1] = "updated"
       /\ IF st \in StopReasons /\ Active(i)
          THEN /\ pc' = [pc EXCEPT ![Consumer] = "stop"]
               /\ inc' = [inc EXCEPT ![Consumer] = i]
               /\ tier' = [tier EXCEPT ![Consumer] = currentTier[i]]
               /\ reason' = [reason EXCEPT ![Consumer] = st]
               /\ UNCHANGED policy
          ELSE Return(Consumer)
       /\ UNCHANGED <<config, rows, history, queue, published, batch, sent, faults>>

\* UpdateEscalationState writes the tier read earlier, by row id only.
StopWrite ==
    /\ pc[Consumer] = "stop"
    /\ WriteRow(inc[Consumer], tier[Consumer], reason[Consumer], TRUE)
    /\ Goto(Consumer, "stopHistory", tier[Consumer])
    /\ UNCHANGED <<config, policyOf, history, queue, published, batch, sent, faults>>

StopHistory ==
    /\ pc[Consumer] = "stopHistory"
    /\ \/ /\ AppendHistory(inc[Consumer], reason[Consumer], tier[Consumer])
          /\ UNCHANGED faults
       \/ Fault /\ UNCHANGED history
    /\ Return(Consumer)
    /\ UNCHANGED <<config, rows, queue, published, batch, sent>>

Ack ==
    /\ pc[Consumer] = "ack"
    /\ queue' = Tail(queue)
    /\ Leave(Consumer, "idle")
    /\ UNCHANGED <<config, rows, history, published, batch, sent, faults>>

(***************************************************************************)
(* Failures, and the incident service feeding the queue.                   *)
(***************************************************************************)

\* A database call fails, or the handler times out, before taking effect.
HandlerError(w) ==
    /\ pc[w] \in {"policy", "create", "advance", "stop"}
    /\ Fault
    /\ ReturnError(w)
    /\ UNCHANGED <<config, rows, history, queue, published, batch, sent>>

\* The worker's process dies (or a monitor's step panics and is recovered): its
\* local state is gone, and the unacknowledged message is delivered again.
Crash(w) ==
    /\ ~Idle(w) \/ batch[w] # {}
    /\ Fault
    /\ Leave(w, "idle")
    /\ batch' = [batch EXCEPT ![w] = {}]
    /\ UNCHANGED <<config, rows, history, queue, published, sent>>

\* The incident service publishes; what order it keeps is its own affair.
IncidentEvent(m) ==
    /\ sent < MaxEvents
    /\ sent' = sent + 1
    /\ queue' = Append(queue, m)
    /\ UNCHANGED <<config, rows, history, published, jobs, batch, faults>>

Init ==
    /\ policies = [p \in Policies |-> "absent"]
    /\ defaultPolicy = None
    /\ policyOf = [i \in Incidents |-> None]
    /\ currentTier = [i \in Incidents |-> 0]
    /\ status = [i \in Incidents |-> "none"]
    /\ due = [i \in Incidents |-> FALSE]
    /\ history = [i \in Incidents |-> <<>>]
    /\ queue = <<>>
    /\ published = <<>>
    /\ pc = [w \in Workers |-> "idle"]
    /\ inc = [w \in Workers |-> None]
    /\ policy = [w \in Workers |-> None]
    /\ tier = [w \in Workers |-> 0]
    /\ reason = [w \in Workers |-> None]
    /\ batch = [w \in Workers |-> {}]
    /\ sent = 0
    /\ faults = 0

Escalator(w) ==
    \/ GetPolicy(w) \/ CreateEscalationState(w)
    \/ TriggerHistory(w) \/ PublishTriggered(w)
    \/ AdvanceOrExhaust(w) \/ PublishExhausted(w)

Consume == ReceiveCreated \/ ReceiveUpdated \/ StopWrite \/ StopHistory \/ Ack

Next ==
    \/ \E p \in Policies : CreatePolicy(p) \/ DeletePolicy(p) \/ PutDefaultPolicy(p)
    \/ DeleteDefaultPolicy
    \/ \E h \in Handlers, i \in Incidents :
          \/ \E p \in Policies : AttachPolicy(h, i, p)
          \/ ManualEscalate(h, i)
    \/ \E w \in Workers : Escalator(w) \/ HandlerError(w) \/ Crash(w)
    \/ \E m \in Monitors : ListExpiredStates(m) \/ MonitorNext(m)
    \/ \E i \in Incidents : Timeout(i)
    \/ Consume
    \/ \E m \in Message : IncidentEvent(m)

Spec == Init /\ [][Next]_vars

\* Time passes and the runtime keeps scheduling the consumer, the monitors and
\* requests in progress; nobody owes the service a request or an event.
Fairness ==
    /\ \A i \in Incidents : WF_vars(Timeout(i))
    /\ WF_vars(Consume \/ Escalator(Consumer))
    /\ \A m \in Monitors : WF_vars(ListExpiredStates(m) \/ MonitorNext(m) \/ Escalator(m))
    /\ \A h \in Handlers : WF_vars(Escalator(h))

FairSpec == Spec /\ Fairness

-----------------------------------------------------------------------------
(***************************************************************************)
(* Properties.                                                             *)
(***************************************************************************)

\* Every variable keeps the shape the tables, queues and goroutines have.
TypeOK ==
    /\ policies \in [Policies -> {"absent", "live", "deleted"}]
    /\ defaultPolicy \in Policies \cup {None}
    /\ policyOf \in [Incidents -> Policies \cup {None}]
    /\ currentTier \in [Incidents -> Int]
    /\ status \in [Incidents -> {"none", "active", "exhausted"} \cup StopReasons]
    /\ due \in [Incidents -> BOOLEAN]
    /\ history \in [Incidents -> Seq(Entry)]
    /\ queue \in Seq(Message)
    /\ published \in Seq(Event)
    /\ pc \in [Workers -> PCs]
    /\ inc \in [Workers -> Incidents \cup {None}]
    /\ policy \in [Workers -> Policies \cup {None}]
    /\ tier \in [Workers -> Int]
    /\ reason \in [Workers -> StopReasons \cup {None}]
    /\ batch \in [Workers -> SUBSET (Incidents \X Int)]
    /\ sent \in Nat /\ faults \in Nat

\* However many workers read the same row (replicas, overlapping ticks, a manual
\* escalation, redelivered messages), escalation.triggered is published at most
\* once per incident and tier and escalation.exhausted at most once per incident:
\* AdvanceOrExhaust claims the row before it publishes.
PublishedOnce ==
    \A j, k \in DOMAIN published : published[j] = published[k] => j = k

\* The losers of the same race write no second history entry either, and one
\* incident is stopped at most once.
HistoryOnce ==
    \A i \in Incidents : \A j, k \in DOMAIN history[i] :
        history[i][j] = history[i][k] => j = k

\* Stop writes its stale row without a guard; still no worker that read the row
\* before can bring a stopped or exhausted escalation back to life.
StoppedStaysStopped ==
    [][\A i \in Incidents :
          status[i] \in StopReasons \cup {"exhausted"} =>
              status'[i] \in StopReasons \cup {"exhausted"}]_vars

\* A monitor works from rows it read earlier, and others may have advanced them
\* since; it only ever moves a row whose current tier has really timed out.
MonitorAdvancesOnlyExpired ==
    [][\A m \in Monitors :
          AdvanceOrExhaust(m) /\ rows' # rows => due[inc[m]]]_vars

TriggerPCs == {"triggerHistory", "publishTriggered"}

\* The on-call user of tier t was told, or a worker is on its way to do it.
Notified(i, t) ==
    \/ \E k \in DOMAIN published : published[k] = <<i, "triggered", t>>
    \/ \E w \in Workers : pc[w] \in TriggerPCs /\ inc[w] = i /\ tier[w] = t

\* Unless a publish failed or a process died, an exhausted escalation has notified
\* every tier its policy has without a gap from the first one on.
ExhaustedMeansAllNotified ==
    \A i \in Incidents : status[i] = "exhausted" /\ faults = 0 =>
        \A t \in Tiers[policyOf[i]] :
            Min(Tiers[policyOf[i]]) .. t \subseteq Tiers[policyOf[i]] => Notified(i, t)

\* The tiers up to that of the row whose users were not told and never will be.
Untold ==
    {c \in UNION {{i} \X (FirstTier(policyOf[i]) .. currentTier[i]) :
                     i \in {j \in Incidents : status[j] # "none"}} : ~Notified(c[1], c[2])}

\* A tier is claimed in the row before it is published, and whoever claimed it may
\* die or fail in between: one fault costs at most one notification, however many
\* workers, retries and redeliveries there are, and no race costs any.
UntoldOnlyByFault == Cardinality(Untold) <= faults

\* An active escalation does not stay active for ever: timeouts carry it through
\* its tiers to exhausted unless it is stopped, in spite of crashed ticks.
EscalationEnds == \A i \in Incidents : Active(i) ~> ~Active(i)

Queued(i, st) == \E k \in DOMAIN queue : queue[k] = <<"updated", i, st>>

\* Claim of the escalation requirements: an acknowledged or resolved incident stops
\* being escalated.  The event saying so is handled in the end and the escalation is
\* over by then; an event nobody handles leaves the remaining tiers to be called.
StopsOnAcknowledgement ==
    \A i \in Incidents, st \in StopReasons :
        Active(i) /\ Queued(i, st) ~> ~Active(i) /\ ~Queued(i, st)

-----------------------------------------------------------------------------
(***************************************************************************)
(* The inductive invariant behind PublishedOnce, HistoryOnce and           *)
(* MonitorAdvancesOnlyExpired.  A tier is claimed by the step that writes  *)
(* it into an active row; from then on the claim is either the right of    *)
(* one worker to record and publish it, or already recorded.               *)
(***************************************************************************)

\* A worker in the middle of a call knows its incident and, for AssignPolicy and
\* Stop, the policy and the reason; only the consumer runs Stop, and it works on
\* the head of the queue until that is acknowledged.
JobsOK ==
    /\ \A w \in Workers :
          /\ pc[w] \notin {"idle", "ack"} => inc[w] \in Incidents
          /\ pc[w] \in {"policy", "create"} => policy[w] \in Policies
          /\ pc[w] \in {"stop", "stopHistory"} => w = Consumer /\ reason[w] \in StopReasons
    /\ pc[Consumer] # "idle" => queue # <<>>

\* Nothing is recorded, or about to be, for an incident without a row.
NothingBeforeRow ==
    \A i \in Incidents : status[i] = "none" =>
        /\ \A w \in Workers : inc[w] = i =>
              pc[w] \notin TriggerPCs \cup {"publishExhausted", "stop", "stopHistory"}
        /\ \A k \in DOMAIN published : published[k][1] # i
        /\ history[i] = <<>>

\* As long as a row is active, no claim on it is beyond its tier.
ClaimsUpToTier ==
    \A i \in Incidents : Active(i) =>
        /\ \A w \in Workers : inc[w] = i =>
              /\ pc[w] \notin {"publishExhausted", "stopHistory"}
              /\ pc[w] \in TriggerPCs => tier[w] <= currentTier[i]
        /\ \A k \in DOMAIN published : published[k][1] = i =>
              published[k][2] = "triggered" /\ published[k][3] <= currentTier[i]
        /\ \A k \in DOMAIN history[i] :
              history[i][k][1] = "triggered" /\ history[i][k][2] <= currentTier[i]

\* No two workers hold the same claim.
ClaimsExclusive ==
    \A w, v \in Workers : w # v /\ inc[w] = inc[v] =>
        /\ pc[w] \in TriggerPCs /\ pc[v] \in TriggerPCs => tier[w] # tier[v]
        /\ ~(pc[w] = "publishExhausted" /\ pc[v] = "publishExhausted")

\* What a worker is about to record is not recorded yet.
ClaimsUnrecorded ==
    \A w \in Workers :
        /\ pc[w] = "triggerHistory" =>
              \A k \in DOMAIN history[inc[w]] : history[inc[w]][k] # <<"triggered", tier[w]>>
        /\ pc[w] \in TriggerPCs =>
              \A k \in DOMAIN published : published[k] # <<inc[w], "triggered", tier[w]>>
        /\ pc[w] = "publishExhausted" =>
              \A k \in DOMAIN published : published[k] # <<inc[w], "exhausted", 0>>
        /\ pc[w] = "stop" => status[inc[w]] \in {"active", "exhausted"}
        /\ pc[w] = "stopHistory" =>
              /\ status[inc[w]] \in StopReasons
              /\ \A k \in DOMAIN history[inc[w]] : history[inc[w]][k][1] \notin StopReasons

\* A stop is in the history only of an incident that was stopped.
StopsRecorded ==
    \A i \in Incidents : status[i] \in {"active", "exhausted"} =>
        \A k \in DOMAIN history[i] : history[i][k][1] \notin StopReasons

\* What a monitor read of row i, tier t, is not ahead of the row, and if it is
\* still current, the row is due.
SnapshotOK(i, t) ==
    /\ status[i] # "none"
    /\ Active(i) => t <= currentTier[i] /\ (t = currentTier[i] => due[i])

SnapshotsOK ==
    \A m \in Monitors : /\ \A s \in batch[m] : SnapshotOK(s[1], s[2])
                        /\ pc[m] = "advance" => SnapshotOK(inc[m], tier[m])

\* The whole, checked by TLC before it is proved inductive in EscalationProofs.
IInv ==
    /\ TypeOK /\ JobsOK /\ NothingBeforeRow
    /\ ClaimsUpToTier /\ ClaimsExclusive /\ ClaimsUnrecorded /\ StopsRecorded
    /\ PublishedOnce /\ HistoryOnce /\ SnapshotsOK
=============================================================================
