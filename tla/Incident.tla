------------------------------ MODULE Incident ------------------------------
(***************************************************************************)
(* The incident service: consumer.go, store.go, handler.go and             *)
(* statemachine.go under services/incident/internal.                       *)
(*                                                                         *)
(* The consumer of queue alerts.incident turns alerts into incidents and   *)
(* closes an incident when its last alert resolves; HTTP handlers change   *)
(* the status of incidents, attach alerts and edit the grouping rule.      *)
(* They meet in the database only.  Each database call is one atomic step, *)
(* and what was read before it may be stale.                               *)
(*                                                                         *)
(* One tenant and one alert source are modelled: every query is by tenant, *)
(* and a rule applies to the alerts of its source alone.                   *)
(***************************************************************************)
EXTENDS Naturals, Sequences, FiniteSets

CONSTANTS
    Incidents,     \* ids the database may hand out
    Fingerprints,  \* alert fingerprints
    Rules,         \* lists of grouping labels a tenant may set
    DefaultRule,   \* DefaultGroupingLabels(source)
    GroupKey,      \* GroupKey[r][f]: computeGroupKey of f's labels under rule r
    NoKey,         \* the empty group_key of an alert attached by hand
    Consumer,      \* the AMQP consumer goroutine
    Handlers,      \* HTTP request goroutines
    None,          \* no incident
    MaxAlerts,     \* bound: alerts put on the queue
    MaxPatches,    \* bound: PATCH and POST requests on incidents
    MaxFaults      \* bound: crashes, failed calls and failed publishes

ASSUME NoneAssumption == None \notin Incidents
ASSUME WorkersAssumption == Consumer \notin Handlers
ASSUME RulesAssumption ==
    /\ DefaultRule \in Rules
    /\ DOMAIN GroupKey = Rules /\ \A r \in Rules : DOMAIN GroupKey[r] = Fingerprints
    \* computeGroupKey returns a digest, never the empty string
    /\ \A r \in Rules, f \in Fingerprints : GroupKey[r][f] # NoKey
ASSUME BoundsAssumption ==
    MaxAlerts \in Nat /\ MaxPatches \in Nat /\ MaxFaults \in Nat

VARIABLES
    rule,      \* the grouping rule in force
    status,    \* incidents.status, or "none" when there is no such incident
    alerts,    \* incident_alerts: <<incident, fingerprint, group key, status>>
    history,   \* the status changes of each incident: <<old value, new value, author>>
    queue,     \* alerts.incident; the head is delivered next
    events,    \* incident.created and .updated given to the broker
    \* what each worker is executing and what it has read:
    pc,        \* the next call it makes
    inc,       \* the incident it works on
    key,       \* handleFiring: the group key it computed
    old,       \* PatchStatus: the status it read
    new,       \* the status it will set, or has read for the event
    sent,      \* alerts put on the queue so far (bounded by MaxAlerts)
    requests,  \* requests on incidents so far (bounded by MaxPatches)
    faults     \* faults so far (bounded by MaxFaults)

table == <<status, alerts, history>>
jobs == <<pc, inc, key, old, new>>
vars == <<rule, table, queue, events, jobs, sent, requests, faults>>

Workers == {Consumer} \cup Handlers
Statuses == {"open", "acknowledged", "resolved"}
Keys == {GroupKey[r][f] : r \in Rules, f \in Fingerprints} \cup {NoKey}
Alert == Incidents \X Fingerprints \X Keys \X {"firing", "resolved"}
Message == {"firing", "resolved"} \X Fingerprints
\* The consumer leaves the author of an entry empty.
Entry == (Statuses \cup {"none"}) \X Statuses \X {"user", "consumer"}
Event == {"created", "updated"} \X Incidents \X Statuses
PCs == {"idle", "find", "create", "attach", "getCreated", "publishCreated", "count",
        "resolve", "history", "getUpdated", "transition", "publishUpdated", "ack"}

Exists(i) == status[i] # "none"
Open(i) == status[i] \in {"open", "acknowledged"}
Firing(i) == {a \in alerts : a[1] = i /\ a[4] = "firing"}
Idle(w) == pc[w] = "idle"
Fault == faults < MaxFaults /\ faults' = faults + 1

(***************************************************************************)
(* Shared pieces.                                                          *)
(***************************************************************************)

\* The worker goes on to l with incident i and status s.
Goto(w, l, i, s) ==
    /\ pc' = [pc EXCEPT ![w] = l]
    /\ inc' = [inc EXCEPT ![w] = i]
    /\ new' = [new EXCEPT ![w] = s]
    /\ UNCHANGED <<key, old>>

\* The worker drops what it has read and goes to l.
Leave(w, l) ==
    /\ pc' = [pc EXCEPT ![w] = l]
    /\ inc' = [inc EXCEPT ![w] = None]
    /\ key' = [key EXCEPT ![w] = NoKey]
    /\ old' = [old EXCEPT ![w] = "none"]
    /\ new' = [new EXCEPT ![w] = "none"]

\* The handler returns nil: the consumer still has to acknowledge the message.
Return(w) == Leave(w, IF w = Consumer THEN "ack" ELSE "idle")

AppendHistory(i, from, to, author) ==
    history' = [history EXCEPT ![i] = Append(@, <<from, to, author>>)]

\* Faulty form of the next definition: the nil check of GetIncident dropped.
PublishWithoutIncident(type, i, s) == events' = Append(events, <<type, None, s>>)

Publish(type, i, s) == events' = Append(events, <<type, i, s>>)

\* statemachine.Validate
Validate(from, to) ==
    <<from, to>> \in {<<"open", "acknowledged">>, <<"open", "resolved">>,
                      <<"acknowledged", "resolved">>, <<"resolved", "open">>}

(***************************************************************************)
(* handleFiring.                                                           *)
(***************************************************************************)

\* The rule is read and the group key computed from it.
ReceiveFiring ==
    /\ Idle(Consumer) /\ queue # <<>> /\ Head(queue)[1] = "firing"
    /\ pc' = [pc EXCEPT ![Consumer] = "find"]
    /\ key' = [key EXCEPT ![Consumer] = GroupKey[rule][Head(queue)[2]]]
    /\ UNCHANGED <<rule, table, queue, events, inc, old, new, sent, requests, faults>>

\* Faulty forms of the next definition: a closed incident is matched too, or an
\* acknowledged one is not.
MatchingClosed(k) == {i \in Incidents : Exists(i) /\ \E a \in alerts : a[1] = i /\ a[3] = k}
MatchingOnlyOpen(k) ==
    {i \in Incidents : status[i] = "open" /\ \E a \in alerts : a[1] = i /\ a[3] = k}

\* The WHERE clause of FindOpenIncidentByGroupKey.
Matching(k) == {i \in Incidents : Open(i) /\ \E a \in alerts : a[1] = i /\ a[3] = k}

\* LIMIT 1 without an order: any of them.
FindOpenIncidentByGroupKey ==
    /\ pc[Consumer] = "find"
    /\ \/ \E i \in Matching(key[Consumer]) : Goto(Consumer, "attach", i, "none")
       \/ Matching(key[Consumer]) = {} /\ Goto(Consumer, "create", None, "none")
    /\ UNCHANGED <<rule, table, queue, events, sent, requests, faults>>

\* One transaction: the incident, its open entry and its first alert.
CreateIncidentTx ==
    /\ pc[Consumer] = "create"
    /\ \E i \in Incidents :
          /\ ~Exists(i)
          /\ status' = [status EXCEPT ![i] = "open"]
          /\ alerts' = alerts \cup {<<i, Head(queue)[2], key[Consumer], "firing">>}
          /\ AppendHistory(i, "none", "open", "consumer")
          /\ Goto(Consumer, "getCreated", i, "none")
    /\ UNCHANGED <<rule, queue, events, sent, requests, faults>>

\* Faulty form of the next definition: a unique index on the rows makes ON CONFLICT
\* DO NOTHING return no row, and the Scan an error.
AttachAlertUnique ==
    /\ pc[Consumer] = "attach"
    /\ LET a == <<inc[Consumer], Head(queue)[2], key[Consumer], "firing">>
       IN \/ a \notin alerts /\ alerts' = alerts \cup {a} /\ Return(Consumer)
          \/ a \in alerts /\ Leave(Consumer, "idle") /\ UNCHANGED alerts
    /\ UNCHANGED <<rule, status, history, queue, events, sent, requests, faults>>

\* No unique index applies: a redelivered alert becomes a second, equal row,
\* which nothing tells from the first.
AttachAlert ==
    /\ pc[Consumer] = "attach"
    /\ alerts' = alerts \cup {<<inc[Consumer], Head(queue)[2], key[Consumer], "firing">>}
    /\ Return(Consumer)
    /\ UNCHANGED <<rule, status, history, queue, events, sent, requests, faults>>

\* GetIncident reads the status the event will carry; a failed read is ignored.
GetCreated ==
    /\ pc[Consumer] = "getCreated"
    /\ \/ /\ Goto(Consumer, "publishCreated", inc[Consumer], status[inc[Consumer]])
          /\ UNCHANGED faults
       \/ Fault /\ Return(Consumer)
    /\ UNCHANGED <<rule, table, queue, events, sent, requests>>

PublishCreated ==
    /\ pc[Consumer] = "publishCreated"
    /\ \/ Publish("created", inc[Consumer], new[Consumer]) /\ UNCHANGED faults
       \/ Fault /\ UNCHANGED events
    /\ Return(Consumer)
    /\ UNCHANGED <<rule, table, queue, sent, requests>>

(***************************************************************************)
(* handleResolved.                                                         *)
(***************************************************************************)

FiringRows(f) == {a \in alerts : a[2] = f /\ a[4] = "firing"}

\* ResolveAlert resolves every firing row of the fingerprint and returns the
\* incident of one of them.
ReceiveResolved ==
    LET rows == FiringRows(Head(queue)[2])
    IN /\ Idle(Consumer) /\ queue # <<>> /\ Head(queue)[1] = "resolved"
       /\ alerts' = (alerts \ rows) \cup {<<a[1], a[2], a[3], "resolved">> : a \in rows}
       /\ \/ \E a \in rows : Goto(Consumer, "count", a[1], "none")
          \/ rows = {} /\ Return(Consumer)
       /\ UNCHANGED <<rule, status, history, queue, events, sent, requests, faults>>

\* Faulty forms of the next definition: all the rows are counted, or none.
StillFiringAll(i) == \E a \in alerts : a[1] = i
StillFiringNone(i) == FALSE

\* The count of MaybeResolve is positive.
StillFiring(i) == Firing(i) # {}

\* MaybeResolve, first statement.
CountFiring ==
    /\ pc[Consumer] = "count"
    /\ \/ StillFiring(inc[Consumer]) /\ Return(Consumer)
       \/ ~StillFiring(inc[Consumer]) /\ Goto(Consumer, "resolve", inc[Consumer], "none")
    /\ UNCHANGED <<rule, table, queue, events, sent, requests, faults>>

\* MaybeResolve, second statement: it reports true also when it changed no row.
MaybeResolve ==
    /\ pc[Consumer] = "resolve"
    /\ status' = [status EXCEPT ![inc[Consumer]] = "resolved"]
    /\ Goto(Consumer, "history", inc[Consumer], "none")
    /\ UNCHANGED <<rule, alerts, history, queue, events, sent, requests, faults>>

\* The old value is the constant open, whatever the status was.
ResolvedHistory ==
    /\ pc[Consumer] = "history"
    /\ \/ AppendHistory(inc[Consumer], "open", "resolved", "consumer") /\ UNCHANGED faults
       \/ Fault /\ UNCHANGED history
    /\ Goto(Consumer, "getUpdated", inc[Consumer], "none")
    /\ UNCHANGED <<rule, status, alerts, queue, events, sent, requests>>

GetUpdated ==
    /\ pc[Consumer] = "getUpdated"
    /\ \/ /\ Goto(Consumer, "publishUpdated", inc[Consumer], status[inc[Consumer]])
          /\ UNCHANGED faults
       \/ Fault /\ Return(Consumer)
    /\ UNCHANGED <<rule, table, queue, events, sent, requests>>

\* Faulty form of the next definition: PATCH announces the status it read.
PublishUpdatedOld(w) ==
    /\ pc[w] = "publishUpdated"
    /\ Publish("updated", inc[w], IF w = Consumer THEN new[w] ELSE old[w])
    /\ Return(w)
    /\ UNCHANGED <<rule, table, queue, sent, requests, faults>>

\* Shared by handleResolved and the handler of PATCH.
PublishUpdated(w) ==
    /\ pc[w] = "publishUpdated"
    /\ \/ Publish("updated", inc[w], new[w]) /\ UNCHANGED faults
       \/ Fault /\ UNCHANGED events
    /\ Return(w)
    /\ UNCHANGED <<rule, table, queue, sent, requests>>

Ack ==
    /\ pc[Consumer] = "ack"
    /\ queue' = Tail(queue)
    /\ Leave(Consumer, "idle")
    /\ UNCHANGED <<rule, table, events, sent, requests, faults>>

(***************************************************************************)
(* The handlers.                                                           *)
(***************************************************************************)

Request == requests < MaxPatches /\ requests' = requests + 1

\* PATCH /incidents/{id}: the status is read and the transition validated.
PatchStatus(h, i, s) ==
    /\ Idle(h) /\ Exists(i) /\ Request
    /\ Validate(status[i], s)
    /\ pc' = [pc EXCEPT ![h] = "transition"]
    /\ inc' = [inc EXCEPT ![h] = i]
    /\ old' = [old EXCEPT ![h] = status[i]]
    /\ new' = [new EXCEPT ![h] = s]
    /\ UNCHANGED <<rule, table, queue, events, key, sent, faults>>

\* Faulty form of the next definition: the UPDATE without its expected status.
UnchangedSinceReadIgnored(h) == TRUE

\* The WHERE clause of TransitionStatus: the status is the one that was read.
UnchangedSinceRead(h) == status[inc[h]] = old[h]

\* The guarded UPDATE and the history entry, one transaction; otherwise 409.
TransitionStatus(h) ==
    /\ pc[h] = "transition"
    /\ \/ /\ UnchangedSinceRead(h)
          /\ status' = [status EXCEPT ![inc[h]] = new[h]]
          /\ AppendHistory(inc[h], old[h], new[h], "user")
          /\ Goto(h, "publishUpdated", inc[h], new[h])
       \/ /\ ~UnchangedSinceRead(h)
          /\ Return(h)
          /\ UNCHANGED <<status, history>>
    /\ UNCHANGED <<rule, alerts, queue, events, sent, requests, faults>>

\* POST /incidents/{id}/alerts: incidents are never deleted, so the check that
\* this one exists and the insert are one step.
AttachByHand(i, f) ==
    /\ Exists(i) /\ Request
    /\ alerts' = alerts \cup {<<i, f, NoKey, "firing">>}
    /\ UNCHANGED <<rule, status, history, queue, events, jobs, sent, faults>>

\* PUT and DELETE of the tenant's rule; deleting brings the default back.
PutGroupingRule(r) ==
    /\ rule # r /\ Request
    /\ rule' = r
    /\ UNCHANGED <<table, queue, events, jobs, sent, faults>>

DeleteGroupingRule ==
    /\ rule # DefaultRule /\ Request
    /\ rule' = DefaultRule
    /\ UNCHANGED <<table, queue, events, jobs, sent, faults>>

(***************************************************************************)
(* Failures, and the ingestion service feeding the queue.                  *)
(***************************************************************************)

\* A call fails before taking effect and the handler returns its error: the
\* message is requeued, and with a prefetch of one it is again the head.
HandlerError(w) ==
    /\ pc[w] \in {"find", "create", "attach", "count", "resolve", "transition"}
    /\ Fault
    /\ Leave(w, "idle")
    /\ UNCHANGED <<rule, table, queue, events, sent, requests>>

\* The process dies: the unacknowledged message is delivered again.
Crash(w) ==
    /\ ~Idle(w)
    /\ Fault
    /\ Leave(w, "idle")
    /\ UNCHANGED <<rule, table, queue, events, sent, requests>>

AlertReceived(m) ==
    /\ sent < MaxAlerts
    /\ sent' = sent + 1
    /\ queue' = Append(queue, m)
    /\ UNCHANGED <<rule, table, events, jobs, requests, faults>>

Init ==
    /\ rule = DefaultRule
    /\ status = [i \in Incidents |-> "none"]
    /\ alerts = {}
    /\ history = [i \in Incidents |-> <<>>]
    /\ queue = <<>>
    /\ events = <<>>
    /\ pc = [w \in Workers |-> "idle"]
    /\ inc = [w \in Workers |-> None]
    /\ key = [w \in Workers |-> NoKey]
    /\ old = [w \in Workers |-> "none"]
    /\ new = [w \in Workers |-> "none"]
    /\ sent = 0
    /\ requests = 0
    /\ faults = 0

Consume ==
    \/ ReceiveFiring \/ FindOpenIncidentByGroupKey \/ CreateIncidentTx \/ AttachAlert
    \/ GetCreated \/ PublishCreated
    \/ ReceiveResolved \/ CountFiring \/ MaybeResolve \/ ResolvedHistory \/ GetUpdated
    \/ PublishUpdated(Consumer) \/ Ack

Handle(h) == TransitionStatus(h) \/ PublishUpdated(h)

Next ==
    \/ Consume
    \/ \E h \in Handlers : Handle(h)
    \/ \E h \in Handlers, i \in Incidents, s \in Statuses : PatchStatus(h, i, s)
    \/ \E i \in Incidents, f \in Fingerprints : AttachByHand(i, f)
    \/ \E r \in Rules : PutGroupingRule(r)
    \/ DeleteGroupingRule
    \/ \E w \in Workers : HandlerError(w) \/ Crash(w)
    \/ \E m \in Message : AlertReceived(m)

Spec == Init /\ [][Next]_vars

\* The runtime keeps scheduling the consumer and requests in progress; nobody owes
\* the service an alert or a request.
FairSpec == Spec /\ WF_vars(Consume) /\ \A h \in Handlers : WF_vars(Handle(h))

-----------------------------------------------------------------------------
(***************************************************************************)
(* Properties.                                                             *)
(***************************************************************************)

\* Every variable keeps the shape the tables, queues and goroutines have.
TypeOK ==
    /\ rule \in Rules
    /\ status \in [Incidents -> Statuses \cup {"none"}]
    /\ alerts \in SUBSET Alert
    /\ history \in [Incidents -> Seq(Entry)]
    /\ queue \in Seq(Message)
    /\ events \in Seq(Event)
    /\ pc \in [Workers -> PCs]
    /\ inc \in [Workers -> Incidents \cup {None}]
    /\ key \in [Workers -> Keys]
    /\ old \in [Workers -> Statuses \cup {"none"}]
    /\ new \in [Workers -> Statuses \cup {"none"}]
    /\ sent \in Nat /\ requests \in Nat /\ faults \in Nat

\* The status of an incident moves along the state machine only, although every
\* PATCH validates a status read before its write and MaybeResolve validates none.
FollowsStateMachine ==
    [][\A i \in Incidents : status[i] # "none" /\ status'[i] # status[i] =>
          <<status[i], status'[i]>> \in
              {<<"open", "acknowledged">>, <<"open", "resolved">>,
               <<"acknowledged", "resolved">>, <<"resolved", "open">>}]_vars

Reopened(i) == \E k \in DOMAIN history[i] : history[i][k] = <<"resolved", "open", "user">>

\* An alert of a group joins the open incident of the group: redeliveries, crashes
\* and acknowledgements never split a group over two open incidents; only reopening
\* a closed one can.
OneOpenPerGroup ==
    \A a, b \in alerts : a[1] # b[1] /\ Open(a[1]) /\ Open(b[1]) /\ a[3] = b[3] =>
        a[3] = NoKey \/ Reopened(a[1]) \/ Reopened(b[1])

\* The consumer has resolved an alert of incident i and is about to look at i.
Settling(i) == inc[Consumer] = i /\ pc[Consumer] \in {"count", "resolve"}

\* An open incident whose alerts have all resolved and which nobody will close.
Stranded(i) ==
    /\ Open(i) /\ Firing(i) = {} /\ ~Reopened(i) /\ ~Settling(i)
    /\ \E a \in alerts : a[1] = i

\* Some alert of incident i has the fingerprint of an alert of another incident.
SharesAlert(i) == \E a, b \in alerts : a[1] = i /\ b[1] # i /\ a[2] = b[2]

\* An incident is closed with its last alert, save one that shares a fingerprint with
\* another incident and those lost to faults: the redelivery of an alert whose rows are
\* resolved already closes nothing, but a crash or a failed call strands one at most.
StrandedOnlyByFaultOrSharing ==
    Cardinality({i \in Incidents : Stranded(i) /\ ~SharesAlert(i)}) <= faults

\* Between the count of MaybeResolve and its UPDATE only an alert attached by hand
\* can get in: the consumer never closes an incident over an alert it attached.
ClosedOnlyOverAlertsByHand ==
    [][MaybeResolve => \A a \in Firing(inc[Consumer]) : a[3] = NoKey]_vars

\* Somebody closed incident i with a PATCH.
ClosedByHand(i) == \E k \in DOMAIN history[i] : history[i][k][2] = "resolved" /\ history[i][k][3] = "user"

\* A grouped alert that still fires lies in a closed incident, where nobody looks for it,
\* only if somebody closed the incident: also an alert whose incident was found open and is
\* closed before the attach, and one that arrives while MaybeResolve runs.
BuriedOnlyByHand ==
    \A a \in alerts : a[4] = "firing" /\ a[3] # NoKey /\ status[a[1]] = "resolved" => ClosedByHand(a[1])

LastEntry(i) == history[i][Len(history[i])]

\* The history of i ends with its status, or will, or an entry of an automatic close came
\* in behind a reopening.
Recorded(i) ==
    \/ LastEntry(i)[2] = status[i]
    \/ inc[Consumer] = i /\ pc[Consumer] = "history"
    \/ LastEntry(i) = <<"open", "resolved", "consumer">> /\ Reopened(i)

\* An event with the status of i is published, or will be.
Announced(i) ==
    \/ \E k \in DOMAIN events : events[k][2] = i /\ events[k][3] = status[i]
    \/ \E w \in Workers : /\ inc[w] = i /\ new[w] = status[i]
                          /\ pc[w] \in {"publishCreated", "publishUpdated"}
    \/ inc[Consumer] = i /\ pc[Consumer] \in {"getCreated", "history", "getUpdated"}

\* Unless something failed, the status an incident has is in its history and announced to the
\* other services, although the status, the entry and the event are written one after the other
\* by the consumer and by requests that overtake it.
StatusOnRecord == faults = 0 => \A i \in Incidents : Exists(i) => Recorded(i) /\ Announced(i)

\* Every alert is acknowledged in the end, in spite of failed calls and crashes.
AlertsDrain == queue # <<>> ~> queue = <<>>

\* Claim of the incident spec: a resolved alert closes the open incident of which it
\* is the only alert.
NoStrandedIncident == \A i \in Incidents : ~Stranded(i)
=============================================================================
